--------------------------- MODULE NetworkProofs ----------------------------
(***************************************************************************)
(* How connections and messages reach the servers of hw4, for any number   *)
(* of workers and connections, and for any keys, values and texts: the     *)
(* work queue of the thread pool (SocketServer) wakes who must wake and is *)
(* first in, first out; and whatever part of a message a read() finds, it  *)
(* is never taken for another message (KVMessage).                         *)
(***************************************************************************)
EXTENDS SocketServer, KVMessage, SequenceTheorems, WellFoundedInduction, TLAPS

(* The steps inside the mutex.                                             *)
Inside == {"test", "sleep", "take", "unlink", "append", "signal", "unlock"}

PoolSteps == {"loop", "accept", "lock", "wait", "handle", "done"} \cup Inside

PoolTypes ==
  /\ {backlog, queue, arrived, taken} \subseteq Seq(Conns)
  /\ conn \in [Threads -> Conns \cup {None}]
  /\ pc \in [Threads -> PoolSteps]

(* Main has a connection to queue; the mutex has one holder; who waits is  *)
(* a worker.                                                               *)
Holding ==
  /\ IF pc[Main] \in {"lock", "append"} THEN conn[Main] \in Conns ELSE conn[Main] = None
  /\ \A p \in Threads : pc[p] \in Inside => mutex = p
  /\ \A p \in waiting : p \in Workers /\ pc[p] = "wait"

(* What a worker knows of the queue between its test and the next step.    *)
Counted ==
  /\ size = Len(queue)
  /\ \A w \in Workers : /\ pc[w] = "sleep" => size = 0
                        /\ pc[w] \in {"take", "unlink"} => size > 0

PoolInv == PoolTypes /\ Holding /\ Counted /\ NoLostWakeup

LEMMA PoolInvInit == PoolInit => PoolInv
<1> SUFFICES ASSUME PoolInit PROVE PoolInv
  OBVIOUS
<1>1. PoolTypes
  BY DEF PoolInit, PoolTypes, PoolSteps
<1>2. Holding /\ Counted
  BY PoolAssumption DEF PoolInit, Holding, Counted, Threads, Inside
<1> QED
  BY <1>1, <1>2 DEF PoolInit, PoolInv, NoLostWakeup

LEMMA PoolInvNext ==
  ASSUME PoolInv, [PoolNext]_poolVars
  PROVE  PoolInv'
<1> USE PoolAssumption DEF PoolInv, PoolTypes, PoolSteps, Inside, Holding, Counted, NoLostWakeup, Goto
<1>1. Main \in Threads /\ \A w \in Workers : w \in Threads /\ w # Main
  BY DEF Threads
<1>2. ASSUME NEW c \in Conns, Arrive(c)
      PROVE  PoolInv'
  BY <1>2 DEF Arrive
<1>3. CASE MainLoop
  BY <1>1, <1>3 DEF MainLoop
<1>4. CASE Accept
  <2>1. backlog # << >> => Head(backlog) \in Conns /\ Tail(backlog) \in Seq(Conns)
    OBVIOUS
  <2>2. CASE sock /\ backlog # << >> /\ conn' = [conn EXCEPT ![Main] = Head(backlog)]
             /\ backlog' = Tail(backlog) /\ pc' = [pc EXCEPT ![Main] = "lock"]
    BY <1>1, <1>4, <2>1, <2>2 DEF Accept
  <2>3. CASE pc' = [pc EXCEPT ![Main] = "loop"] /\ UNCHANGED <<conn, backlog>>
    BY <1>1, <1>4, <2>3 DEF Accept
  <2> QED
    BY <1>4, <2>2, <2>3 DEF Accept
<1>5. ASSUME NEW p \in Threads, Lock(p)
      PROVE  PoolInv'
  <2>1. /\ pc[p] = "lock" /\ mutex = None /\ mutex' = p
        /\ pc' = [pc EXCEPT ![p] = IF p = Main THEN "append" ELSE "test"]
        /\ UNCHANGED <<queue, size, waiting, conn, backlog, arrived, taken>>
    BY <1>5 DEF Lock
  <2>2. \A q \in Threads : pc[q] \notin Inside
    BY <1>1, <2>1 DEF Threads
  <2> QED
    BY <1>1, <2>1, <2>2
<1>6. CASE Push
  <2>1. Append(queue, conn[Main]) \in Seq(Conns)
        /\ Len(Append(queue, conn[Main])) = Len(queue) + 1
    BY <1>1, <1>6 DEF Push
  <2>2. \A w \in Workers : pc[w] \notin Inside
    BY <1>1, <1>6 DEF Push
  <2> QED
    BY <1>1, <1>6, <2>1, <2>2 DEF Push
<1>7. CASE Broadcast
  BY <1>1, <1>7 DEF Broadcast
<1>8. ASSUME NEW p \in Threads, Unlock(p)
      PROVE  PoolInv'
  <2>1. \A q \in Threads : q # p => pc[q] \notin Inside
    BY <1>1, <1>8 DEF Unlock
  <2> QED
    BY <1>1, <1>8, <2>1 DEF Unlock
<1>9. ASSUME NEW w \in Workers, WorkerLoop(w)
      PROVE  PoolInv'
  BY <1>1, <1>9 DEF WorkerLoop
<1>10. ASSUME NEW w \in Workers, TestSize(w)
       PROVE  PoolInv'
  BY <1>1, <1>10 DEF TestSize
<1>11. ASSUME NEW w \in Workers, CondWait(w)
       PROVE  PoolInv'
  <2>1. \A q \in Threads : q # w => pc[q] \notin Inside
    BY <1>1, <1>11 DEF CondWait
  <2> QED
    BY <1>1, <1>11, <2>1 DEF CondWait
<1>12. ASSUME NEW w \in Workers, Wakeup(w)
       PROVE  PoolInv'
  BY <1>1, <1>12 DEF Wakeup
<1>13. ASSUME NEW w \in Workers, Reacquire(w)
       PROVE  PoolInv'
  <2>1. \A q \in Threads : pc[q] \notin Inside
    BY <1>1, <1>13 DEF Reacquire, Threads
  <2> QED
    BY <1>1, <1>13, <2>1 DEF Reacquire
<1>14. ASSUME NEW w \in Workers, TakeHead(w)
       PROVE  PoolInv'
  <2>1. Head(queue) \in Conns /\ Append(taken, Head(queue)) \in Seq(Conns)
    BY <1>14 DEF TakeHead
  <2> QED
    BY <1>1, <1>14, <2>1 DEF TakeHead
<1>15. ASSUME NEW w \in Workers, Unlink(w)
       PROVE  PoolInv'
  <2>1. Tail(queue) \in Seq(Conns) /\ Len(Tail(queue)) = Len(queue) - 1
    BY <1>15 DEF Unlink
  <2>2. \A q \in Threads : q # w => pc[q] \notin Inside
    BY <1>1, <1>15 DEF Unlink
  <2> QED
    BY <1>1, <1>15, <2>1, <2>2 DEF Unlink
<1>16. ASSUME NEW w \in Workers, Handle(w)
       PROVE  PoolInv'
  BY <1>1, <1>16 DEF Handle
<1>17. CASE StopFlag \/ StopSocket \/ UNCHANGED poolVars
  BY <1>17 DEF StopFlag, StopSocket, poolVars
<1> QED
  BY <1>1, <1>2, <1>3, <1>4, <1>5, <1>6, <1>7, <1>8, <1>9, <1>10, <1>11, <1>12, <1>13,
     <1>14, <1>15, <1>16, <1>17
  DEF PoolNext, MainStep, WorkerStep

LEMMA PoolInvariant == PoolSpec => []PoolInv
BY PoolInvInit, PoolInvNext, PTL DEF PoolSpec

-----------------------------------------------------------------------------
(* No worker sleeps in wq_pop beside a connection that it could handle,    *)
(* however many there are of both.                                         *)
THEOREM WakesAll == PoolSpec => []NoLostWakeup
<1>1. PoolInv => NoLostWakeup
  BY DEF PoolInv
<1> QED
  BY <1>1, PoolInvariant, PTL

(* A sequence cut elsewhere is the same sequence.                          *)
LEMMA CutBehind ==
  ASSUME NEW S, NEW s \in Seq(S), NEW t \in Seq(S), t # << >>
  PROVE  Append(s, Head(t)) \o Tail(t) = s \o t
OBVIOUS

LEMMA OneMore ==
  ASSUME NEW S, NEW s \in Seq(S), NEW t \in Seq(S), NEW x \in S
  PROVE  /\ s \o Append(t, x) = Append(s \o t, x)
         /\ s \o << >> = s
         /\ s \o <<x>> = Append(s, x)
OBVIOUS

(* Nobody comes twice, and what a worker has in hand is taken.             *)
Once ==
  /\ \A i, j \in 1 .. Len(arrived) : arrived[i] = arrived[j] => i = j
  /\ \A w \in Workers : conn[w] # None => In(conn[w], taken)

TurnInv == Once /\ InTurn

(* Steps that move no connection.                                          *)
LEMMA NothingMoved ==
  ASSUME TurnInv, UNCHANGED <<queue, backlog, arrived, taken, conn>>,
         (\E w \in Workers : pc'[w] = "unlink") <=> \E w \in Workers : pc[w] = "unlink"
  PROVE  TurnInv'
<1>1. Queued' = Queued
  BY DEF Queued
<1>2. InHand' = InHand
  BY DEF InHand
<1> QED
  BY <1>1, <1>2 DEF TurnInv, Once, InTurn, In

(* What a worker takes nobody has taken before.                            *)
LEMMA HeadIsNew ==
  ASSUME PoolInv, TurnInv, queue # << >>, \A w \in Workers : pc[w] # "unlink"
  PROVE  ~In(Head(queue), taken)
<1>1. /\ queue \in Seq(Conns) /\ taken \in Seq(Conns) /\ backlog \in Seq(Conns)
      /\ InHand \in Seq(Conns) /\ Queued = queue
  BY DEF PoolInv, PoolTypes, InHand, Queued, Threads
<1>2. arrived = ((taken \o queue) \o InHand) \o backlog
  BY <1>1 DEF TurnInv, InTurn
<1>3. /\ \A i \in 1 .. Len(taken) : arrived[i] = taken[i]
      /\ arrived[Len(taken) + 1] = Head(queue)
      /\ Len(taken) \in Nat /\ Len(taken) + 1 \in 1 .. Len(arrived)
  <2> HIDE DEF InHand
  <2> QED
    BY <1>1, <1>2
<1> QED
  BY <1>3 DEF TurnInv, Once, In

LEMMA TurnInvNext ==
  ASSUME PoolInv, PoolInv', TurnInv, [PoolNext]_poolVars
  PROVE  TurnInv'
<1>1. /\ Main \in Threads /\ Main \notin Workers /\ \A w \in Workers : w \in Threads /\ w # Main
      /\ backlog \in Seq(Conns) /\ queue \in Seq(Conns) /\ taken \in Seq(Conns)
      /\ arrived \in Seq(Conns) /\ None \notin Conns
      /\ conn \in [Threads -> Conns \cup {None}] /\ pc \in [Threads -> PoolSteps]
  BY PoolAssumption DEF PoolInv, PoolTypes, Threads
<1>2. /\ InHand \in Seq(Conns) /\ Queued \in Seq(Conns)
      /\ arrived = ((taken \o Queued) \o InHand) \o backlog
  <2>1. \A w \in Workers : pc[w] = "unlink" => Tail(queue) \in Seq(Conns)
    BY <1>1 DEF PoolInv, Counted
  <2>2. InHand \in Seq(Conns)
    BY <1>1 DEF InHand
  <2>3. Queued \in Seq(Conns)
    BY <1>1, <2>1 DEF Queued
  <2> QED
    BY <2>2, <2>3 DEF TurnInv, InTurn
<1>3. ASSUME NEW c \in Conns, Arrive(c)
      PROVE  TurnInv'
  <2>1. /\ arrived' = Append(arrived, c) /\ backlog' = Append(backlog, c) /\ ~In(c, arrived)
        /\ UNCHANGED <<taken, conn>> /\ Queued' = Queued /\ InHand' = InHand
    BY <1>3 DEF Arrive, Queued, InHand
  <2>2. arrived' = ((taken \o Queued) \o InHand) \o backlog'
    <3> DEFINE s == (taken \o Queued) \o InHand
    <3>1. s \in Seq(Conns)
      BY <1>1, <1>2
    <3> HIDE DEF s
    <3>2. s \o Append(backlog, c) = Append(s \o backlog, c)
      BY <1>1, <3>1, OneMore
    <3> QED
      BY <1>2, <2>1, <3>2 DEF s
  <2>3. \A i, j \in 1 .. Len(arrived') : arrived'[i] = arrived'[j] => i = j
    BY <1>1, <2>1 DEF TurnInv, Once, In
  <2> QED
    BY <2>1, <2>2, <2>3 DEF TurnInv, Once, InTurn, In
<1>4. CASE Accept
  <2>1. CASE UNCHANGED <<conn, backlog>>
    <3>1. \A w \in Workers : pc'[w] = "unlink" <=> pc[w] = "unlink"
      BY <1>1, <1>4 DEF Accept, Goto
    <3> QED
      BY <1>4, <2>1, <3>1, NothingMoved DEF Accept
  <2>2. CASE backlog # << >> /\ conn' = [conn EXCEPT ![Main] = Head(backlog)]
             /\ backlog' = Tail(backlog)
    <3>1. /\ UNCHANGED <<taken, arrived, queue>> /\ Head(backlog) \in Conns
          /\ \A w \in Workers : conn'[w] = conn[w]
          /\ \A w \in Workers : pc'[w] = "unlink" <=> pc[w] = "unlink"
      BY <1>1, <1>4, <2>2 DEF Accept, Goto
    <3>2. InHand = << >>
      BY <1>4 DEF Accept, PoolInv, Holding, InHand
    <3>3. InHand' = <<Head(backlog)>>
      BY <1>1, <2>2, <3>1 DEF InHand
    <3>4. Queued' = Queued
      BY <3>1 DEF Queued
    <3>5. ((taken \o Queued) \o <<Head(backlog)>>) \o Tail(backlog)
            = ((taken \o Queued) \o << >>) \o backlog
      <4> DEFINE s == taken \o Queued
      <4>1. s \in Seq(Conns)
        BY <1>1, <1>2
      <4> HIDE DEF s
      <4>2. Append(s, Head(backlog)) \o Tail(backlog) = s \o backlog
        BY <1>1, <2>2, <4>1, CutBehind
      <4>3. s \o << >> = s /\ s \o <<Head(backlog)>> = Append(s, Head(backlog))
        BY <1>1, <3>1, <4>1, OneMore
      <4> QED
        BY <4>2, <4>3 DEF s
    <3>6. arrived' = ((taken' \o Queued') \o InHand') \o backlog'
      BY <1>2, <2>2, <3>1, <3>2, <3>3, <3>4, <3>5
    <3>7. Once'
      BY <3>1 DEF TurnInv, Once, In
    <3> QED
      BY <3>1, <3>6, <3>7 DEF TurnInv, InTurn
  <2> QED
    BY <1>4, <2>1, <2>2 DEF Accept
<1>5. CASE Push
  <2>1. /\ queue' = Append(queue, conn[Main]) /\ conn' = [conn EXCEPT ![Main] = None]
        /\ UNCHANGED <<taken, arrived, backlog>> /\ conn[Main] \in Conns
        /\ \A w \in Workers : conn'[w] = conn[w] /\ pc[w] # "unlink" /\ pc'[w] # "unlink"
    BY <1>1, <1>5 DEF Push, Goto, PoolInv, Holding, Inside
  <2>2. /\ Queued = queue /\ Queued' = queue' /\ InHand = <<conn[Main]>> /\ InHand' = << >>
    BY <1>1, <2>1 DEF Queued, InHand
  <2>3. (taken \o Append(queue, conn[Main])) \o << >> = (taken \o queue) \o <<conn[Main]>>
    BY <1>1, <2>1
  <2>4. arrived' = ((taken' \o Queued') \o InHand') \o backlog'
    BY ONLY <1>2, <2>1, <2>2, <2>3
  <2>5. Once' /\ \A v, w \in Workers : v # w /\ conn'[v] = conn'[w] => conn'[v] = None
    BY <2>1 DEF TurnInv, Once, InTurn, In
  <2> QED
    BY <2>4, <2>5 DEF TurnInv, InTurn
<1>6. ASSUME NEW w \in Workers, TakeHead(w)
      PROVE  TurnInv'
  <2>1. /\ conn' = [conn EXCEPT ![w] = Head(queue)] /\ taken' = Append(taken, Head(queue))
        /\ UNCHANGED <<queue, backlog, arrived>> /\ pc'[w] = "unlink"
        /\ queue # << >> /\ Head(queue) \in Conns /\ Tail(queue) \in Seq(Conns)
        /\ \A v \in Workers : pc[v] # "unlink"
    BY <1>1, <1>6 DEF TakeHead, Goto, PoolInv, Holding, Inside, Counted
  <2>2. Queued = queue /\ Queued' = Tail(queue) /\ InHand' = InHand
    BY <1>1, <2>1 DEF Queued, InHand
  <2>3. Append(taken, Head(queue)) \o Tail(queue) = taken \o queue
    BY <1>1, <2>1, CutBehind
  <2>4. /\ \A c : In(c, taken) => In(c, taken')
        /\ In(Head(queue), taken') /\ ~In(Head(queue), taken)
    <3>1. ~In(Head(queue), taken)
      BY <2>1, HeadIsNew
    <3>2. /\ Len(taken') = Len(taken) + 1 /\ Len(taken) \in Nat
          /\ taken'[Len(taken) + 1] = Head(queue)
          /\ \A i \in 1 .. Len(taken) : taken'[i] = taken[i]
      BY <1>1, <2>1
    <3> QED
      BY <3>1, <3>2 DEF In
  <2>5. \A v, u \in Workers : v # u /\ conn'[v] = conn'[u] => conn'[v] = None
    BY <1>1, <2>1, <2>4 DEF TurnInv, Once, InTurn
  <2> QED
    BY <1>1, <1>2, <2>1, <2>2, <2>3, <2>4, <2>5 DEF TurnInv, Once, InTurn
<1>7. ASSUME NEW w \in Workers, Unlink(w)
      PROVE  TurnInv'
  <2>1. /\ queue' = Tail(queue) /\ UNCHANGED <<conn, taken, arrived, backlog>>
        /\ \A v \in Workers : pc'[v] # "unlink"
    BY <1>1, <1>7 DEF Unlink, Goto, PoolInv, Holding, Inside
  <2>2. Queued' = Queued /\ InHand' = InHand
    BY <1>7, <2>1 DEF Unlink, Queued, InHand
  <2> QED
    BY <1>2, <2>1, <2>2 DEF TurnInv, Once, InTurn, In
<1>8. ASSUME NEW w \in Workers, Handle(w)
      PROVE  TurnInv'
  <2>1. /\ conn' = [conn EXCEPT ![w] = None] /\ UNCHANGED <<queue, taken, arrived, backlog>>
        /\ \A v \in Workers : pc'[v] = "unlink" <=> pc[v] = "unlink"
    BY <1>1, <1>8 DEF Handle, Goto
  <2>2. Queued' = Queued /\ InHand' = InHand
    BY <1>1, <2>1 DEF Queued, InHand
  <2> QED
    BY <1>1, <1>2, <2>1, <2>2 DEF TurnInv, Once, InTurn, In
<1>9. ASSUME UNCHANGED <<queue, backlog, arrived, taken, conn>>,
             \A v \in Workers : pc'[v] = "unlink" <=> pc[v] = "unlink"
      PROVE  TurnInv'
  BY <1>9, NothingMoved
<1>10. ASSUME NEW p \in Threads, Lock(p) \/ Unlock(p)
       PROVE  TurnInv'
  BY <1>1, <1>9, <1>10 DEF Lock, Unlock, Goto
<1>11. CASE MainLoop \/ Broadcast \/ StopFlag \/ StopSocket \/ UNCHANGED poolVars
  BY <1>1, <1>9, <1>11 DEF MainLoop, Broadcast, StopFlag, StopSocket, poolVars, Goto
<1>12. ASSUME NEW w \in Workers,
              WorkerLoop(w) \/ TestSize(w) \/ CondWait(w) \/ Wakeup(w) \/ Reacquire(w)
       PROVE  TurnInv'
  BY <1>1, <1>9, <1>12 DEF WorkerLoop, TestSize, CondWait, Wakeup, Reacquire, Goto
<1> QED
  BY <1>1, <1>3, <1>4, <1>5, <1>6, <1>7, <1>8, <1>10, <1>11, <1>12
  DEF PoolNext, MainStep, WorkerStep

(* wq_push and wq_pop keep the order in which the kernel has completed the *)
(* connections, lose none and give none to two workers, however the        *)
(* threads are scheduled and whenever server_stop comes.                   *)
THEOREM ServedInTurn == PoolSpec => []InTurn
<1>1. PoolInit => TurnInv
  BY PoolAssumption DEF PoolInit, TurnInv, Once, InTurn, Queued, InHand, Threads, In
<1>2. PoolInv /\ PoolInv' /\ TurnInv /\ [PoolNext]_poolVars => TurnInv'
  BY TurnInvNext
<1>3. TurnInv => InTurn
  BY DEF TurnInv
<1> QED
  BY <1>1, <1>2, <1>3, PoolInvariant, PTL DEF PoolSpec

-----------------------------------------------------------------------------
(* A set of naturals has a least element.                                  *)
LEMMA LeastNatural ==
  ASSUME NEW T \in SUBSET Nat, T # {}
  PROVE  \E n \in T : \A m \in T : n <= m
<1>1. PICK n \in T : \A m \in T : ~(<<m, n>> \in OpToRel(<, Nat))
  BY WFMin, NatLessThanWellFounded
<1>2. \A m \in T : ~(m < n)
  BY <1>1 DEF OpToRel
<1> QED
  BY <1>2

(* Find, by what stands at the place it returns and before it.             *)
LEMMA FindIs ==
  ASSUME NEW s \in Seq(Words), NEW words
  PROVE  /\ Find(s, words) \in 0 .. Len(s)
         /\ Find(s, words) = 0 => \A i \in 1 .. Len(s) : s[i] \notin words
         /\ Find(s, words) # 0 =>
              /\ s[Find(s, words)] \in words
              /\ \A i \in 1 .. Len(s) : i < Find(s, words) => s[i] \notin words
<1> DEFINE T == {i \in 1 .. Len(s) : s[i] \in words}
<1>1. Find(s, words) = IF T # {} THEN Min(T) ELSE 0
  BY DEF Find, SelectInSeq
<1>2. Len(s) \in Nat /\ T \subseteq 1 .. Len(s) /\ T \subseteq Nat
  OBVIOUS
<1>3. CASE T = {}
  <2>1. \A i \in 1 .. Len(s) : s[i] \notin words
    BY <1>3
  <2> HIDE DEF T
  <2>2. Find(s, words) = 0
    BY <1>1, <1>3
  <2> QED
    BY <1>2, <2>1, <2>2
<1>4. CASE T # {}
  <2>1. \A i \in 1 .. Len(s) : i \in T <=> s[i] \in words
    OBVIOUS
  <2> HIDE DEF T
  <2>2. PICK n \in T : \A m \in T : n <= m
    BY <1>2, <1>4, LeastNatural
  <2>3. Min(T) \in T /\ \A m \in T : Min(T) <= m
    BY <2>2 DEF Min
  <2>4. Find(s, words) = Min(T)
    BY <1>1, <1>4
  <2>5. Find(s, words) \in 1 .. Len(s)
    BY <2>3, <2>4, <1>2
  <2>6. \A i \in 1 .. Len(s) : i < Find(s, words) => i \notin T
    BY <2>3, <2>4, <2>5, <1>2
  <2>7. Find(s, words) # 0
    BY <2>5
  <2> QED
    BY <1>2, <2>1, <2>3, <2>4, <2>5, <2>6, <2>7
<1> QED
  BY <1>3, <1>4

(* It is the place of the first of the words.                              *)
LEMMA FindFirst ==
  ASSUME NEW s \in Seq(Words), NEW words, NEW n \in 1 .. Len(s),
         s[n] \in words, \A i \in 1 .. n - 1 : s[i] \notin words
  PROVE  Find(s, words) = n
<1>1. Len(s) \in Nat /\ n \in Nat /\ n # 0
  OBVIOUS
<1>2. PICK f \in 0 .. Len(s) : f = Find(s, words)
  BY FindIs
<1>3. f # 0
  BY <1>1, <1>2, FindIs
<1>4. s[f] \in words /\ \A i \in 1 .. Len(s) : i < f => s[i] \notin words
  BY <1>2, <1>3, FindIs
<1>5. ~(n < f) /\ ~(f < n)
  BY <1>1, <1>3, <1>4
<1> QED
  BY <1>1, <1>2, <1>5

LEMMA FindNone ==
  ASSUME NEW s \in Seq(Words), NEW words, \A i \in 1 .. Len(s) : s[i] \notin words
  PROVE  Find(s, words) = 0
<1>1. Find(s, words) # 0 => Find(s, words) \in 1 .. Len(s) /\ s[Find(s, words)] \in words
  BY FindIs
<1> QED
  BY <1>1

(* What stands from i on.                                                  *)
LEMMA FromIs ==
  ASSUME NEW s \in Seq(Words), NEW i \in 1 .. Len(s) + 1
  PROVE  /\ From(s, i) \in Seq(Words)
         /\ Len(From(s, i)) = Len(s) + 1 - i
         /\ \A j \in 1 .. Len(s) + 1 - i : From(s, i)[j] = s[i + j - 1]
<1>1. Len(s) \in Nat /\ i \in Nat /\ Len(s) \in Int
  OBVIOUS
<1> QED
  BY <1>1, SubSeqProperties DEF From

(* A part of a text, by its words.                                         *)
LEMMA PartIs ==
  ASSUME NEW s \in Seq(Words), NEW i \in 1 .. Len(s) + 1, NEW j \in i - 1 .. Len(s)
  PROVE  /\ SubSeq(s, i, j) \in Seq(Words)
         /\ Len(SubSeq(s, i, j)) = j + 1 - i
         /\ \A k \in 1 .. j + 1 - i : SubSeq(s, i, j)[k] = s[i + k - 1]
<1>1. Len(s) \in Nat /\ i \in Nat /\ j \in Int
  OBVIOUS
<1> QED
  BY <1>1, SubSeqProperties

LEMMA JoinIs ==
  ASSUME NEW s \in Seq(Words), NEW t \in Seq(Words)
  PROVE  /\ s \o t \in Seq(Words) /\ Len(s \o t) = Len(s) + Len(t)
         /\ \A i \in 1 .. Len(s) + Len(t) :
              (s \o t)[i] = IF i <= Len(s) THEN s[i] ELSE t[i - Len(s)]
BY ConcatProperties

LEMMA JoinsAre == \A s, t, u \in Seq(Words) : (s \o t) \o u = s \o (t \o u)
BY ConcatAssociative

LEMMA PrefixByWords ==
  ASSUME NEW s \in Seq(Words), NEW t \in Seq(Words)
  PROVE  IsPrefix(s, t) <=> /\ Len(s) <= Len(t)
                            /\ \A i \in 1 .. Len(s) : s[i] = t[i]
<1>1. Len(s) \in Nat /\ Len(t) \in Nat
  OBVIOUS
<1>2. SubSeq(s, 1, Len(s)) = s
  BY SubSeqFull
<1>3. ASSUME Len(s) <= Len(t)
      PROVE  SubSeq(t, 1, Len(s)) = s <=> \A i \in 1 .. Len(s) : s[i] = t[i]
  <2>1. /\ SubSeq(t, 1, Len(s)) \in Seq(Words)
        /\ Len(SubSeq(t, 1, Len(s))) = Len(s)
        /\ \A i \in 1 .. Len(s) : SubSeq(t, 1, Len(s))[i] = t[i]
    <3>1. 1 \in 1 .. Len(t) + 1 /\ Len(s) \in 1 - 1 .. Len(t)
      BY <1>1, <1>3
    <3> QED
      BY <1>1, <3>1, PartIs
  <2> DEFINE u == SubSeq(t, 1, Len(s))
  <2> HIDE DEF u
  <2>2. u \in Seq(Words) /\ Len(u) = Len(s) /\ \A i \in 1 .. Len(s) : u[i] = t[i]
    BY <2>1 DEF u
  <2>3. u = s <=> \A i \in 1 .. Len(s) : s[i] = t[i]
    BY <2>2, SeqEqual
  <2> QED
    BY <2>3 DEF u
<1> QED
  BY <1>1, <1>2, <1>3 DEF IsPrefix

-----------------------------------------------------------------------------
(* Responses.                                                              *)
Responses == [type : DOMAIN Code, body : Seq(Words) \cup {NULL}]

LEMMA CodeIs ==
  /\ DOMAIN Code = {"GETRESP", "SUCCESS", "ERROR", "VOTE", "ACK"}
  /\ \A t \in DOMAIN Code : Code[t] \in Words
  /\ \A t, u \in DOMAIN Code : Code[t] = Code[u] => t = u
<1>1. DOMAIN Code = {"GETRESP", "SUCCESS", "ERROR", "VOTE", "ACK"}
  BY DEF Code
<1>2. /\ Code["GETRESP"] = "200" /\ Code["SUCCESS"] = "201" /\ Code["ERROR"] = "500"
      /\ Code["VOTE"] = "202" /\ Code["ACK"] = "204"
  BY DEF Code
<1> DEFINE f == Code
<1>3. DOMAIN f = {"GETRESP", "SUCCESS", "ERROR", "VOTE", "ACK"}
  BY <1>1
<1>4. /\ f["GETRESP"] = "200" /\ f["SUCCESS"] = "201" /\ f["ERROR"] = "500"
      /\ f["VOTE"] = "202" /\ f["ACK"] = "204"
  BY <1>2
<1> HIDE DEF f
<1>5. \A t \in DOMAIN f : f[t] \in Words
  <2>1. {"200", "201", "500", "202", "204"} \subseteq Words
    BY MessageAssumption DEF Marks
  <2> QED
    BY <1>3, <1>4, <2>1
<1>6. \A t, u \in DOMAIN f : f[t] = f[u] => t = u
  BY <1>3, <1>4
<1> QED
  BY <1>1, <1>5, <1>6 DEF f

(* The text of a response, word by word.                                   *)
LEMMA ResponseText ==
  ASSUME NEW r \in Responses
  PROVE  /\ kvresponse_send(r) \in Seq(Words)
         /\ NoBody(r.body) \in Seq(Words)
         /\ Len(kvresponse_send(r)) = 11 + Len(NoBody(r.body))
         /\ kvresponse_send(r)[3] = Code[r.type]
         /\ \A i \in {6, 10, 11} : kvresponse_send(r)[i] = "\r\n"
         /\ \A i \in {1, 2, 4, 5, 7, 8, 9} : kvresponse_send(r)[i] # "\r\n"
         /\ \A i \in 1 .. Len(NoBody(r.body)) : kvresponse_send(r)[11 + i] = NoBody(r.body)[i]
<1> DEFINE code == Code[r.type]
           body == NoBody(r.body)
           head == <<"HTTP/1.1", "SP", code, "SP", "status", "\r\n",
                     "Content-Length", ":", "length", "\r\n", "\r\n">>
<1>1. code \in Words
  BY CodeIs DEF Responses
<1>2. body \in Seq(Words) /\ Len(body) \in Nat
  <2>1. << >> \in Seq(Words)
    BY EmptySeq
  <2>2. r.body \in Seq(Words) \cup {NULL}
    BY DEF Responses
  <2>3. body \in Seq(Words)
    BY <2>1, <2>2 DEF NoBody
  <2> QED
    BY <2>3, LenProperties
<1>3. kvresponse_send(r) = head \o body
  BY DEF kvresponse_send
<1> HIDE DEF code, body
<1>4. /\ head \in Seq(Words) /\ Len(head) = 11 /\ head[3] = code
      /\ \A i \in {6, 10, 11} : head[i] = "\r\n"
      /\ \A i \in {1, 2, 4, 5, 7, 8, 9} : head[i] # "\r\n"
  <2>1. head \in Seq(Words)
    <3>1. /\ "HTTP/1.1" \in Words /\ "SP" \in Words /\ "status" \in Words
          /\ "\r\n" \in Words /\ "Content-Length" \in Words /\ ":" \in Words
          /\ "length" \in Words
      BY MessageAssumption DEF Marks
    <3>2. \A a, b, c, d, e, f, g, h \in Words :
            <<a, b, c, b, d, e, f, g, h, e, e>> \in Seq(Words)
      OBVIOUS
    <3> QED
      BY <1>1, <3>1, <3>2
  <2>2. Len(head) = 11
    OBVIOUS
  <2>3. head[3] = code /\ head[6] = "\r\n" /\ head[10] = "\r\n" /\ head[11] = "\r\n"
    OBVIOUS
  <2>4. head[1] = "HTTP/1.1" /\ head[2] = "SP" /\ head[4] = "SP" /\ head[5] = "status"
    OBVIOUS
  <2>5. head[7] = "Content-Length" /\ head[8] = ":" /\ head[9] = "length"
    OBVIOUS
  <2> HIDE DEF head
  <2> QED
    BY <2>1, <2>2, <2>3, <2>4, <2>5
<1> HIDE DEF head
<1>5. /\ head \o body \in Seq(Words) /\ Len(head \o body) = 11 + Len(body)
      /\ \A i \in 1 .. 11 + Len(body) :
           (head \o body)[i] = IF i <= 11 THEN head[i] ELSE body[i - 11]
  <2>1. head \in Seq(Words) /\ body \in Seq(Words) /\ Len(head) = 11 /\ Len(body) \in Nat
    BY <1>2, <1>4
  <2>2. PICK h \in Seq(Words) : h = head
    BY <2>1
  <2>3. PICK b \in Seq(Words) : b = body
    BY <2>1
  <2>4. /\ h \o b \in Seq(Words) /\ Len(h \o b) = Len(h) + Len(b)
        /\ \A i \in 1 .. Len(h) + Len(b) : (h \o b)[i] = IF i <= Len(h) THEN h[i] ELSE b[i - Len(h)]
    BY JoinIs
  <2> QED
    BY <2>1, <2>2, <2>3, <2>4
<1>6. \A i \in 1 .. 11 : i \in 1 .. 11 + Len(body) /\ (head \o body)[i] = head[i]
  BY <1>2, <1>5
<1>7. \A i \in 1 .. Len(body) : (head \o body)[11 + i] = body[i]
  <2> TAKE i \in 1 .. Len(body)
  <2>1. 11 + i \in 1 .. 11 + Len(body) /\ ~(11 + i <= 11) /\ 11 + i - 11 = i
    BY <1>2
  <2> QED
    BY <1>5, <2>1
<1>8. \A i \in {3, 6, 10, 11, 1, 2, 4, 5, 7, 8, 9} : i \in 1 .. 11
  OBVIOUS
<1>9. \A i \in {3, 6, 10, 11, 1, 2, 4, 5, 7, 8, 9} : (head \o body)[i] = head[i]
  BY ONLY <1>6, <1>8
<1>10. /\ (head \o body)[3] = code
       /\ \A i \in {6, 10, 11} : (head \o body)[i] = "\r\n"
       /\ \A i \in {1, 2, 4, 5, 7, 8, 9} : (head \o body)[i] # "\r\n"
  BY ONLY <1>4, <1>9
<1> QED
  BY ONLY <1>2, <1>3, <1>5, <1>7, <1>10 DEF code, body

(* However much of a response has come, it is refused or read with its     *)
(* type and with a part of its body.                                       *)
LEMMA ResponseRead ==
  ASSUME NEW r \in Responses, NEW text \in Seq(Words), IsPrefix(text, kvresponse_send(r)),
         kvresponse_recieve(text) # NULL
  PROVE  /\ kvresponse_recieve(text) \in Responses
         /\ kvresponse_recieve(text).type = r.type
         /\ kvresponse_recieve(text).body \in Seq(Words)
         /\ IsPrefix(kvresponse_recieve(text).body, NoBody(r.body))
<1> DEFINE full == kvresponse_send(r)
           body == NoBody(r.body)
           ends == {i \in 2 .. Len(text) : text[i] = "\r\n" /\ text[i - 1] = "\r\n"}
           rest == From(text, 12)
<1>1. /\ full \in Seq(Words) /\ body \in Seq(Words) /\ Len(full) = 11 + Len(body)
      /\ full[3] = Code[r.type]
      /\ \A i \in {6, 10, 11} : full[i] = "\r\n"
      /\ \A i \in {1, 2, 4, 5, 7, 8, 9} : full[i] # "\r\n"
      /\ \A i \in 1 .. Len(body) : full[11 + i] = body[i]
  BY ResponseText
<1>2. Len(text) \in Nat /\ Len(body) \in Nat
  BY <1>1
<1>3. Len(text) <= Len(full) /\ \A i \in 1 .. Len(text) : text[i] = full[i]
  BY <1>1, PrefixByWords
<1>4. Headers(text) # 0
  BY DEF kvresponse_recieve
<1>5. Headers(text) = IF ends = {} THEN 0 ELSE CHOOSE i \in ends : \A j \in ends : i <= j
  BY DEF Headers
<1> HIDE DEF full, body
<1>6. \A i \in ends : i >= 11
  <2> SUFFICES ASSUME NEW i \in 2 .. Len(text), i < 11, text[i] = "\r\n", text[i - 1] = "\r\n"
               PROVE  FALSE
    BY <1>2
  <2>1. i - 1 \in 1 .. Len(text) /\ i \in 1 .. Len(text)
    BY <1>2
  <2>2. full[i] = "\r\n" /\ full[i - 1] = "\r\n"
    BY <1>3, <2>1
  <2>3. i \in {2, 3, 4, 5, 6, 7, 8, 9, 10}
    BY <1>2
  <2>4. \/ i \in {2, 4, 5, 7, 8, 9} \/ i - 1 \in {2, 5, 9}
    BY <2>3
  <2> QED
    BY <1>1, <2>2, <2>4
<1>7. ends # {} /\ Len(text) >= 11
  <2>1. ends # {}
    BY <1>4, <1>5
  <2> QED
    BY <1>2, <1>6, <2>1
<1>8. 11 \in ends
  <2>1. {10, 11} \subseteq 1 .. Len(text) /\ 11 \in 2 .. Len(text) /\ 11 - 1 = 10
    BY <1>2, <1>7
  <2> QED
    BY <1>1, <1>3, <2>1
<1>9. Headers(text) = 11
  <2>1. ends \subseteq Nat
    BY <1>2
  <2> HIDE DEF ends
  <2>2. \A i \in ends : (\A j \in ends : i <= j) => i = 11
    BY <1>6, <1>8, <2>1
  <2> QED
    BY <1>5, <1>6, <1>7, <1>8, <2>1, <2>2
<1>10. kvresponse_recieve(text)
         = kvresponse(CHOOSE t \in DOMAIN Code : Code[t] = text[3], rest)
  BY <1>9 DEF kvresponse_recieve
<1>11. (CHOOSE t \in DOMAIN Code : Code[t] = text[3]) = r.type
  <2>1. 3 \in 1 .. Len(text)
    BY <1>2, <1>7
  <2>2. text[3] = Code[r.type] /\ r.type \in DOMAIN Code
    BY <1>1, <1>3, <2>1 DEF Responses
  <2> QED
    BY <2>2, CodeIs
<1>12. /\ rest \in Seq(Words) /\ Len(rest) = Len(text) - 11
       /\ \A j \in 1 .. Len(text) - 11 : rest[j] = text[12 + j - 1]
  <2>1. 12 \in 1 .. Len(text) + 1 /\ Len(text) + 1 - 12 = Len(text) - 11
    BY <1>2, <1>7
  <2> QED
    BY <2>1, FromIs
<1> HIDE DEF rest
<1>13. IsPrefix(rest, body)
  <2>1. Len(rest) <= Len(body)
    BY <1>1, <1>2, <1>3, <1>12
  <2>2. ASSUME NEW j \in 1 .. Len(rest)
        PROVE  rest[j] = body[j]
    <3>1. /\ j \in 1 .. Len(text) - 11 /\ 12 + j - 1 = 11 + j
          /\ 11 + j \in 1 .. Len(text) /\ j \in 1 .. Len(body)
      BY <1>2, <1>7, <1>12, <2>1
    <3> QED
      BY <1>1, <1>3, <1>12, <3>1
  <2> QED
    BY <1>1, <1>12, <2>1, <2>2, PrefixByWords
<1>14. kvresponse_recieve(text) = [type |-> r.type, body |-> rest]
  BY <1>10, <1>11 DEF kvresponse
<1> QED
  BY <1>12, <1>13, <1>14 DEF Responses, body

-----------------------------------------------------------------------------
(* Requests.                                                               *)
LEMMA JoinParts ==
  ASSUME NEW s \in Seq(Words), NEW t \in Seq(Words)
  PROVE  /\ s \o t \in Seq(Words) /\ Len(s \o t) = Len(s) + Len(t)
         /\ \A i \in 1 .. Len(s) : (s \o t)[i] = s[i]
         /\ \A i \in 1 .. Len(t) : (s \o t)[Len(s) + i] = t[i]
<1>1. Len(s) \in Nat /\ Len(t) \in Nat
  OBVIOUS
<1>2. \A i \in 1 .. Len(s) : (s \o t)[i] = s[i]
  BY <1>1, JoinIs
<1>3. ASSUME NEW i \in 1 .. Len(t)
      PROVE  (s \o t)[Len(s) + i] = t[i]
  <2>1. Len(s) + i \in 1 .. Len(s) + Len(t) /\ ~(Len(s) + i <= Len(s)) /\ Len(s) + i - Len(s) = i
    BY <1>1
  <2> QED
    BY <2>1, JoinIs
<1> QED
  BY <1>2, <1>3, JoinIs

(* The parameter of a query that starts at i, has its first "=" at e, and  *)
(* ends before a.                                                          *)
ParamFrom(q, i, e, a) ==
  /\ q[e] = "=" /\ \A j \in i .. e - 1 : q[j] # "="
  /\ a <= Len(q) => q[a] = "&"
  /\ \A j \in i .. a - 1 : q[j] # "&"

LEMMA ParamIs ==
  ASSUME NEW q \in Seq(Words), NEW i \in 1 .. Len(q), NEW e \in i .. Len(q),
         NEW a \in i .. Len(q) + 1, ParamFrom(q, i, e, a)
  PROVE  Name(q, i) = SubSeq(q, i, e - 1) /\ Value(q, i) = SubSeq(q, e + 1, a - 1)
<1> DEFINE s == From(q, i)
<1>1. Len(q) \in Nat /\ i \in Nat /\ e \in Nat /\ a \in Nat /\ i <= e /\ e <= Len(q)
      /\ i <= Len(q) /\ 1 <= i /\ i <= a /\ a <= Len(q) + 1
  OBVIOUS
<1>2. /\ s \in Seq(Words) /\ Len(s) = Len(q) + 1 - i
      /\ \A j \in 1 .. Len(q) + 1 - i : s[j] = q[i + j - 1]
  <2>1. i \in 1 .. Len(q) + 1
    BY <1>1
  <2> QED
    BY ONLY q \in Seq(Words), <2>1, FromIs
<1>3. Find(s, {"="}) = e + 1 - i
  <2>1. PICK n \in 1 .. Len(s) : n = e + 1 - i
    BY <1>1, <1>2
  <2>2. s[n] \in {"="}
    <3>1. i + n - 1 = e /\ n \in 1 .. Len(q) + 1 - i
      BY <1>1, <2>1
    <3> QED
      BY <3>1, <1>2 DEF ParamFrom
  <2>3. ASSUME NEW j \in 1 .. n - 1
        PROVE  s[j] \notin {"="}
    <3>1. j \in 1 .. Len(q) + 1 - i /\ i + j - 1 \in i .. e - 1
      BY <1>1, <2>1
    <3> QED
      BY <1>2, <3>1 DEF ParamFrom
  <2> HIDE DEF s
  <2>4. Find(s, {"="}) = n
    BY <1>2, <2>2, <2>3, FindFirst
  <2> QED
    BY <2>1, <2>4
<1>4. Name(q, i) = SubSeq(q, i, e - 1)
  <2>1. e + 1 - i # 0 /\ i + (e + 1 - i) - 2 = e - 1
    BY <1>1
  <2> QED
    BY <1>3, <2>1 DEF Name
<1>5. CASE a <= Len(q)
  <2>1. Find(s, {"&"}) = a + 1 - i
    <3>1. PICK n \in 1 .. Len(s) : n = a + 1 - i
      BY <1>1, <1>2, <1>5
    <3>2. s[n] \in {"&"}
      <4>1. i + n - 1 = a /\ n \in 1 .. Len(q) + 1 - i
        BY <1>1, <1>5, <3>1
      <4> QED
        BY <4>1, <1>2, <1>5 DEF ParamFrom
    <3>3. ASSUME NEW j \in 1 .. n - 1
          PROVE  s[j] \notin {"&"}
      <4>1. j \in 1 .. Len(q) + 1 - i /\ i + j - 1 \in i .. a - 1
        BY <1>1, <1>5, <3>1
      <4> QED
        BY <1>2, <4>1 DEF ParamFrom
    <3> HIDE DEF s
    <3>4. Find(s, {"&"}) = n
      BY <1>2, <3>2, <3>3, FindFirst
    <3> QED
      BY <3>1, <3>4
  <2>2. a + 1 - i # 0 /\ i + (a + 1 - i) - 2 = a - 1 /\ i + (e + 1 - i) = e + 1
    BY <1>1
  <2>3. Value(q, i) = SubSeq(q, e + 1, a - 1)
    BY <1>3, <2>1, <2>2 DEF Value
  <2> QED
    BY <1>4, <2>3
<1>6. CASE a = Len(q) + 1
  <2>1. Find(s, {"&"}) = 0
    <3>1. ASSUME NEW j \in 1 .. Len(s)
          PROVE  s[j] \notin {"&"}
      <4>1. j \in 1 .. Len(q) + 1 - i /\ i + j - 1 \in i .. a - 1
        BY <1>1, <1>2, <1>6
      <4> QED
        BY <1>2, <4>1 DEF ParamFrom
    <3> HIDE DEF s
    <3> QED
      BY <1>2, <3>1, FindNone
  <2>2. Len(q) = a - 1 /\ i + (e + 1 - i) = e + 1
    BY <1>1, <1>6
  <2>3. Value(q, i) = SubSeq(q, e + 1, a - 1)
    BY <1>3, <2>1, <2>2 DEF Value
  <2> QED
    BY <1>4, <2>3
<1> QED
  BY <1>1, <1>5, <1>6

LEMMA OneWord ==
  ASSUME NEW s \in Seq(Words), Len(s) = 1
  PROVE  s = <<s[1]>>
<1>1. s[1] \in Words
  BY ElementOfSeq
<1> DEFINE t == <<s[1]>>
<1>2. t \in Seq(Words) /\ Len(t) = 1 /\ t[1] = s[1]
  BY <1>1
<1> HIDE DEF t
<1>3. s = t
  BY <1>2, SeqEqual
<1> QED
  BY <1>3 DEF t

(* The query that url_encode writes for a key and perhaps a value.         *)
QueryOf(q, key, val) ==
  /\ q \in Seq(Words)
  /\ q[1] = "key" /\ q[2] = "=" /\ \A i \in 1 .. Len(key) : q[2 + i] = key[i]
  /\ IF val = NULL THEN Len(q) = Len(key) + 2
     ELSE /\ Len(q) = Len(key) + Len(val) + 5
          /\ q[Len(key) + 3] = "&" /\ q[Len(key) + 4] = "val" /\ q[Len(key) + 5] = "="
          /\ \A i \in 1 .. Len(val) : q[Len(key) + 5 + i] = val[i]

(* Its parameters.                                                         *)
LEMMA QueryParts ==
  ASSUME NEW q, NEW key, NEW val, QueryOf(q, key, val), IsParam(key), val = NULL \/ IsParam(val)
  PROVE  /\ Name(q, 1) = <<"key">> /\ Value(q, 1) = key
         /\ \A i \in 1 .. Len(q) :
              (i = 1 \/ q[i - 1] = "&") <=> (i = 1 \/ (val # NULL /\ i = Len(key) + 4))
         /\ val # NULL =>
              /\ Len(key) + 4 \in 1 .. Len(q)
              /\ Name(q, Len(key) + 4) = <<"val">> /\ Value(q, Len(key) + 4) = val
<1>1. /\ q \in Seq(Words) /\ key \in Seq(Words) /\ Len(key) \in Nat /\ Len(q) \in Nat
      /\ val # NULL => val \in Seq(Words) /\ Len(val) \in Nat
  <2>1. q \in Seq(Words) /\ key \in Seq(Words) /\ (val # NULL => val \in Seq(Words))
    BY DEF QueryOf, IsParam
  <2> QED
    BY <2>1, LenProperties
<1>2. PICK k \in Nat : k = Len(key)
  BY <1>1
<1>3. /\ q[1] = "key" /\ q[2] = "=" /\ \A i \in 1 .. k : q[2 + i] = key[i]
      /\ val = NULL => Len(q) = k + 2
      /\ val # NULL => /\ Len(q) = k + Len(val) + 5
                       /\ q[k + 3] = "&" /\ q[k + 4] = "val" /\ q[k + 5] = "="
                       /\ \A i \in 1 .. Len(val) : q[k + 5 + i] = val[i]
  BY <1>2 DEF QueryOf
<1>4. \A i \in 1 .. k : key[i] # "&"
  BY <1>2 DEF IsParam
<1>5. val # NULL => \A i \in 1 .. Len(val) : val[i] # "&"
  BY DEF IsParam
<1>6. \A j \in 1 .. k + 2 : q[j] # "&"
  <2> TAKE j \in 1 .. k + 2
  <2>1. CASE j \in {1, 2}
    BY <1>3, <2>1
  <2>2. CASE j \notin {1, 2}
    <3>1. j - 2 \in 1 .. k /\ 2 + (j - 2) = j
      BY <2>2
    <3> QED
      BY <1>3, <1>4, <3>1
  <2> QED
    BY <2>1, <2>2
<1>7. Name(q, 1) = <<"key">> /\ Value(q, 1) = key
  <2>1. PICK a \in 1 .. Len(q) + 1 : a = k + 3
    BY <1>1, <1>3
  <2>2. a <= Len(q) => q[a] = "&"
    BY <1>1, <1>3, <2>1
  <2>3. ParamFrom(q, 1, 2, a)
    <3>1. \A j \in 1 .. 2 - 1 : q[j] # "="
      BY <1>3
    <3>2. \A j \in 1 .. a - 1 : q[j] # "&"
      BY <1>6, <2>1
    <3> QED
      BY <1>3, <2>2, <3>1, <3>2 DEF ParamFrom
  <2>4. 1 \in 1 .. Len(q) /\ 2 \in 1 .. Len(q) /\ Len(q) >= k + 2
    BY <1>1, <1>3
  <2>5. Name(q, 1) = SubSeq(q, 1, 2 - 1) /\ Value(q, 1) = SubSeq(q, 2 + 1, a - 1)
    BY <1>1, <2>1, <2>3, <2>4, ParamIs
  <2>6. SubSeq(q, 1, 1) = <<"key">>
    <3>1. /\ SubSeq(q, 1, 1) \in Seq(Words) /\ Len(SubSeq(q, 1, 1)) = 1
          /\ SubSeq(q, 1, 1)[1] = q[1]
      BY <1>1, <2>4, PartIs
    <3> QED
      BY <1>3, <3>1, OneWord
  <2>7. SubSeq(q, 3, k + 2) = key
    <3>1. 3 \in 1 .. Len(q) + 1 /\ k + 2 \in 3 - 1 .. Len(q) /\ k + 2 + 1 - 3 = k
      BY <1>1, <2>4
    <3>2. /\ SubSeq(q, 3, k + 2) \in Seq(Words) /\ Len(SubSeq(q, 3, k + 2)) = k
          /\ \A i \in 1 .. k : SubSeq(q, 3, k + 2)[i] = q[3 + i - 1]
      BY <1>1, <3>1, PartIs
    <3>3. \A i \in 1 .. k : SubSeq(q, 3, k + 2)[i] = key[i]
      <4> TAKE i \in 1 .. k
      <4>1. 3 + i - 1 = 2 + i
        OBVIOUS
      <4> QED
        BY <1>3, <3>2, <4>1
    <3> QED
      BY <1>1, <1>2, <3>2, <3>3, SeqEqual
  <2>8. 2 - 1 = 1 /\ 2 + 1 = 3 /\ a - 1 = k + 2
    BY <2>1
  <2> QED
    BY <2>5, <2>6, <2>7, <2>8
<1>8. ASSUME val # NULL
      PROVE  /\ k + 4 \in 1 .. Len(q)
             /\ Name(q, k + 4) = <<"val">> /\ Value(q, k + 4) = val
             /\ \A j \in k + 4 .. Len(q) : q[j] # "&"
  <2>1. PICK v \in Nat : v = Len(val)
    BY <1>1, <1>8
  <2>2. /\ Len(q) = k + v + 5 /\ q[k + 4] = "val" /\ q[k + 5] = "="
        /\ \A i \in 1 .. v : q[k + 5 + i] = val[i] /\ val[i] # "&"
    BY <1>3, <1>5, <1>8, <2>1
  <2>3. \A j \in k + 4 .. Len(q) : q[j] # "&"
    <3> TAKE j \in k + 4 .. Len(q)
    <3>1. CASE j \in {k + 4, k + 5}
      BY <2>2, <3>1
    <3>2. CASE j \notin {k + 4, k + 5}
      <4>1. j - (k + 5) \in 1 .. v /\ k + 5 + (j - (k + 5)) = j
        BY <2>2, <3>2
      <4> QED
        BY <2>2, <4>1
    <3> QED
      BY <3>1, <3>2
  <2>4. PICK i \in 1 .. Len(q) : i = k + 4
    BY <1>1, <2>2
  <2>5. PICK e \in i .. Len(q) : e = k + 5
    BY <1>1, <2>2, <2>4
  <2>6. PICK a \in i .. Len(q) + 1 : a = k + v + 6
    BY <1>1, <2>2, <2>4
  <2>7. ParamFrom(q, i, e, a)
    <3>1. \A j \in i .. e - 1 : q[j] # "="
      BY <2>2, <2>4, <2>5
    <3>2. ~(a <= Len(q)) /\ a - 1 = Len(q)
      BY <1>1, <2>2, <2>6
    <3> QED
      BY <2>2, <2>3, <2>4, <2>5, <3>1, <3>2 DEF ParamFrom
  <2>8. Name(q, i) = SubSeq(q, i, e - 1) /\ Value(q, i) = SubSeq(q, e + 1, a - 1)
    BY <1>1, <2>7, ParamIs
  <2>9. SubSeq(q, i, i) = <<"val">>
    <3>1. i \in 1 .. Len(q) + 1 /\ i \in i - 1 .. Len(q) /\ i + 1 - i = 1 /\ i + 1 - 1 = i
      BY <1>1
    <3>2. /\ SubSeq(q, i, i) \in Seq(Words) /\ Len(SubSeq(q, i, i)) = 1
          /\ SubSeq(q, i, i)[1] = q[i]
      BY <1>1, <3>1, PartIs
    <3> QED
      BY <2>2, <2>4, <3>2, OneWord
  <2>10. SubSeq(q, e + 1, a - 1) = val
    <3>1. /\ e + 1 \in 1 .. Len(q) + 1 /\ a - 1 \in e + 1 - 1 .. Len(q)
          /\ a - 1 + 1 - (e + 1) = v
      BY <1>1, <2>2, <2>5, <2>6
    <3>2. /\ SubSeq(q, e + 1, a - 1) \in Seq(Words) /\ Len(SubSeq(q, e + 1, a - 1)) = v
          /\ \A m \in 1 .. v : SubSeq(q, e + 1, a - 1)[m] = q[e + 1 + m - 1]
      BY <1>1, <3>1, PartIs
    <3>3. \A m \in 1 .. v : SubSeq(q, e + 1, a - 1)[m] = val[m]
      <4> TAKE m \in 1 .. v
      <4>1. e + 1 + m - 1 = k + 5 + m
        BY <2>5
      <4> QED
        BY <2>2, <3>2, <4>1
    <3> QED
      BY <1>1, <1>8, <2>1, <3>2, <3>3, SeqEqual
  <2>11. e - 1 = i
    BY <2>4, <2>5
  <2> QED
    BY <2>3, <2>4, <2>8, <2>9, <2>10, <2>11
<1>9. ASSUME NEW i \in 1 .. Len(q)
      PROVE  (i = 1 \/ q[i - 1] = "&") <=> (i = 1 \/ (val # NULL /\ i = k + 4))
  <2>1. CASE i = 1
    BY <2>1
  <2>2. CASE i # 1 /\ i - 1 \in 1 .. k + 2
    <3>1. q[i - 1] # "&" /\ i # k + 4
      BY <1>6, <2>2
    <3> QED
      BY <2>2, <3>1
  <2>3. CASE i - 1 = k + 3
    <3>1. val # NULL
      BY <1>1, <1>3, <2>3
    <3> QED
      BY <1>3, <2>3, <3>1
  <2>4. CASE i - 1 > k + 3
    <3>1. val # NULL
      BY <1>1, <1>3, <2>4
    <3>2. i - 1 \in k + 4 .. Len(q) /\ i # 1 /\ i # k + 4
      BY <1>1, <2>4
    <3> QED
      BY <1>8, <3>1, <3>2
  <2> QED
    BY <1>1, <2>1, <2>2, <2>3, <2>4
<1> QED
  BY <1>2, <1>7, <1>8, <1>9

LEMMA QueryRead ==
  ASSUME NEW q, NEW key, NEW val, QueryOf(q, key, val), IsParam(key), val = NULL \/ IsParam(val)
  PROVE  Param(q, {<< >>, <<"key">>}) = key /\ Param(q, {<<"val">>}) = val
<1> DEFINE starts(names) ==
             {i \in 1 .. Len(q) : (i = 1 \/ q[i - 1] = "&") /\ Name(q, i) \in names}
           last(names) == CHOOSE i \in starts(names) : \A j \in starts(names) : j <= i
<1>1. \A names : Param(q, names) = IF starts(names) = {} THEN NULL ELSE Value(q, last(names))
  BY DEF Param
<1>2. /\ Name(q, 1) = <<"key">> /\ Value(q, 1) = key
      /\ \A i \in 1 .. Len(q) :
           (i = 1 \/ q[i - 1] = "&") <=> (i = 1 \/ (val # NULL /\ i = Len(key) + 4))
      /\ val # NULL =>
           /\ Len(key) + 4 \in 1 .. Len(q)
           /\ Name(q, Len(key) + 4) = <<"val">> /\ Value(q, Len(key) + 4) = val
  BY QueryParts
<1>3. q \in Seq(Words) /\ Len(q) \in Nat /\ key \in Seq(Words) /\ Len(key) \in Nat /\ q[1] = "key"
  <2>1. q \in Seq(Words) /\ key \in Seq(Words) /\ q[1] = "key"
    BY DEF QueryOf, IsParam
  <2> QED
    BY <2>1, LenProperties
<1>4. 1 \in 1 .. Len(q)
  <2>1. Len(q) >= 1
    <3>1. val # NULL => Len(val) \in Nat
      BY LenProperties DEF IsParam
    <3> QED
      BY <1>3, <3>1 DEF QueryOf
  <2> QED
    BY <1>3, <2>1
<1>5. <<"key">> # << >> /\ <<"val">> # << >> /\ <<"key">> # <<"val">>
  OBVIOUS
<1>6. starts({<< >>, <<"key">>}) = {1}
  BY <1>2, <1>4, <1>5
<1>7. starts({<<"val">>}) = IF val = NULL THEN {} ELSE {Len(key) + 4}
  BY <1>2, <1>4, <1>5
<1> HIDE DEF starts
<1>8. last({<< >>, <<"key">>}) = 1
  BY <1>6
<1>9. val # NULL => last({<<"val">>}) = Len(key) + 4
  BY <1>3, <1>7
<1> HIDE DEF last
<1>10. Param(q, {<< >>, <<"key">>}) = key
  BY <1>1, <1>2, <1>6, <1>8
<1>11. Param(q, {<<"val">>}) = val
  BY <1>1, <1>2, <1>7, <1>9
<1> QED
  BY <1>10, <1>11

(* What url_encode writes of one parameter.                                *)
LEMMA ParamText ==
  ASSUME NEW x \in Words, NEW y \in Words, NEW z \in Words, NEW s \in Seq(Words)
  PROVE  /\ <<x, y>> \o s \o <<z>> \in Seq(Words)
         /\ Len(<<x, y>> \o s \o <<z>>) = Len(s) + 3
         /\ (<<x, y>> \o s \o <<z>>)[1] = x /\ (<<x, y>> \o s \o <<z>>)[2] = y
         /\ \A i \in 1 .. Len(s) : (<<x, y>> \o s \o <<z>>)[2 + i] = s[i]
         /\ (<<x, y>> \o s \o <<z>>)[Len(s) + 3] = z
<1> DEFINE t == <<x, y>>
           u == <<z>>
<1>1. t \in Seq(Words) /\ Len(t) = 2 /\ t[1] = x /\ t[2] = y
  OBVIOUS
<1>2. u \in Seq(Words) /\ Len(u) = 1 /\ u[1] = z
  OBVIOUS
<1>3. Len(s) \in Nat
  OBVIOUS
<1> HIDE DEF t, u
<1>4. /\ t \o s \in Seq(Words) /\ Len(t \o s) = Len(t) + Len(s)
      /\ \A i \in 1 .. Len(t) : (t \o s)[i] = t[i]
      /\ \A i \in 1 .. Len(s) : (t \o s)[Len(t) + i] = s[i]
  BY <1>1, JoinParts
<1> DEFINE v == t \o s
<1> HIDE DEF v
<1>5. v \in Seq(Words) /\ Len(v) = Len(s) + 2 /\ v[1] = x /\ v[2] = y
      /\ \A i \in 1 .. Len(s) : v[2 + i] = s[i]
  BY <1>1, <1>3, <1>4 DEF v
<1>6. /\ v \o u \in Seq(Words) /\ Len(v \o u) = Len(v) + Len(u)
      /\ \A i \in 1 .. Len(v) : (v \o u)[i] = v[i]
      /\ \A i \in 1 .. Len(u) : (v \o u)[Len(v) + i] = u[i]
  BY <1>2, <1>5, JoinParts
<1> DEFINE w == v \o u
<1> HIDE DEF w
<1>7. w \in Seq(Words) /\ Len(w) = Len(s) + 3 /\ w[1] = x /\ w[2] = y /\ w[Len(s) + 3] = z
  <2>1. Len(v) + 1 = Len(s) + 3 /\ 1 \in 1 .. Len(u) /\ 1 \in 1 .. Len(v) /\ 2 \in 1 .. Len(v)
    BY <1>2, <1>3, <1>5
  <2> QED
    BY <1>2, <1>3, <1>5, <1>6, <2>1 DEF w
<1>8. ASSUME NEW i \in 1 .. Len(s)
      PROVE  w[2 + i] = s[i]
  <2>1. 2 + i \in 1 .. Len(v)
    BY <1>3, <1>5
  <2> QED
    BY <1>5, <1>6, <2>1 DEF w
<1>9. w = <<x, y>> \o s \o <<z>>
  BY DEF t, u, v, w
<1> QED
  BY <1>7, <1>8, <1>9

(* The URL of a request: of one without a key, and of one with a key.      *)
UrlOf(u, path, key, val) ==
  /\ u \in Seq(Words)
  /\ u[1] = "/" /\ \A i \in 1 .. Len(path) : u[1 + i] = path[i]
  /\ IF key = NULL THEN Len(u) = Len(path) + 1
     ELSE /\ Len(u) > Len(path) + 2 /\ u[Len(path) + 2] = "?"
          /\ QueryOf(From(u, Len(path) + 3), key, val)

LEMMA AllButLast ==
  ASSUME NEW s \in Seq(Words), s # << >>
  PROVE  /\ Front(s) \in Seq(Words) /\ Len(Front(s)) = Len(s) - 1
         /\ \A i \in 1 .. Len(s) - 1 : Front(s)[i] = s[i]
<1>1. Len(s) \in Nat /\ Len(s) # 0
  BY EmptySeq
<1>2. 1 \in 1 .. Len(s) + 1 /\ Len(s) - 1 \in 1 - 1 .. Len(s) /\ Len(s) - 1 + 1 - 1 = Len(s) - 1
  BY <1>1
<1>3. /\ SubSeq(s, 1, Len(s) - 1) \in Seq(Words)
      /\ Len(SubSeq(s, 1, Len(s) - 1)) = Len(s) - 1 + 1 - 1
      /\ \A k \in 1 .. Len(s) - 1 + 1 - 1 : SubSeq(s, 1, Len(s) - 1)[k] = s[1 + k - 1]
  BY <1>1, <1>2, PartIs
<1>4. \A k \in 1 .. Len(s) - 1 : SubSeq(s, 1, Len(s) - 1)[k] = s[k]
  <2> TAKE k \in 1 .. Len(s) - 1
  <2>1. 1 + k - 1 = k
    OBVIOUS
  <2> QED
    BY <1>2, <1>3, <2>1
<1> QED
  BY <1>2, <1>3, <1>4 DEF Front

LEMMA UrlEncoded ==
  ASSUME NEW path \in Seq(Words), NEW key, NEW val,
         \/ key = NULL /\ val = NULL
         \/ IsParam(key) /\ (val = NULL \/ IsParam(val))
  PROVE  UrlOf(url_encode(path, key, val), path, key, val)
<1> DEFINE root == <<"/">>
           mark == <<"?">>
           front == root \o path \o mark
           kk == IF key = NULL THEN << >> ELSE <<"key", "=">> \o key \o <<"&">>
           vv == IF val = NULL THEN << >> ELSE <<"val", "=">> \o val \o <<"&">>
           query == kk \o vv
           all == front \o query
           u == url_encode(path, key, val)
<1>1. /\ "/" \in Words /\ "?" \in Words /\ "key" \in Words /\ "val" \in Words
      /\ "=" \in Words /\ "&" \in Words
  BY MessageAssumption DEF Marks
<1>2. PICK p \in Nat : p = Len(path)
  BY LenProperties
<1>3. /\ root \in Seq(Words) /\ Len(root) = 1 /\ root[1] = "/"
      /\ mark \in Seq(Words) /\ Len(mark) = 1 /\ mark[1] = "?"
  BY <1>1
<1>4. kk \in Seq(Words) /\ vv \in Seq(Words)
  <2>1. key # NULL => key \in Seq(Words)
    BY DEF IsParam
  <2>2. val # NULL => val \in Seq(Words)
    BY DEF IsParam
  <2>3. key # NULL => <<"key", "=">> \o key \o <<"&">> \in Seq(Words)
    BY <1>1, <2>1, ParamText
  <2>4. val # NULL => <<"val", "=">> \o val \o <<"&">> \in Seq(Words)
    BY <1>1, <2>2, ParamText
  <2>5. << >> \in Seq(Words)
    BY EmptySeq
  <2> QED
    BY <2>3, <2>4, <2>5
<1>5. front \in Seq(Words) /\ Len(front) = p + 2 /\ front[1] = "/" /\ front[p + 2] = "?"
      /\ \A i \in 1 .. p : front[1 + i] = path[i]
  <2> HIDE DEF root, mark
  <2>1. /\ root \o path \in Seq(Words) /\ Len(root \o path) = Len(root) + Len(path)
        /\ \A i \in 1 .. Len(root) : (root \o path)[i] = root[i]
        /\ \A i \in 1 .. Len(path) : (root \o path)[Len(root) + i] = path[i]
    BY <1>3, JoinParts
  <2> DEFINE w == root \o path
  <2> HIDE DEF w
  <2>2. w \in Seq(Words) /\ Len(w) = p + 1 /\ w[1] = "/" /\ \A i \in 1 .. p : w[1 + i] = path[i]
    BY <1>2, <1>3, <2>1 DEF w
  <2>3. /\ w \o mark \in Seq(Words) /\ Len(w \o mark) = Len(w) + Len(mark)
        /\ \A i \in 1 .. Len(w) : (w \o mark)[i] = w[i]
        /\ \A i \in 1 .. Len(mark) : (w \o mark)[Len(w) + i] = mark[i]
    BY <1>3, <2>2, JoinParts
  <2>4. 1 \in 1 .. Len(w) /\ 1 \in 1 .. Len(mark) /\ Len(w) + 1 = p + 2
        /\ \A i \in 1 .. p : 1 + i \in 1 .. Len(w)
    BY <1>2, <1>3, <2>2
  <2>5. front = w \o mark
    BY DEF w
  <2> HIDE DEF front
  <2> QED
    BY <1>2, <1>3, <2>2, <2>3, <2>4, <2>5
<1>6. u = Front(all)
  <2>1. u = Front(front \o kk \o vv)
    BY DEF url_encode
  <2> HIDE DEF front, kk, vv
  <2> QED
    BY <1>4, <1>5, <2>1, JoinsAre
<1>7. query \in Seq(Words) /\ Len(query) \in Nat
  <2> HIDE DEF kk, vv
  <2>1. query \in Seq(Words)
    BY <1>4, JoinParts
  <2> QED
    BY <2>1, LenProperties
<1>8. /\ all \in Seq(Words) /\ Len(all) = p + 2 + Len(query)
      /\ \A i \in 1 .. p + 2 : all[i] = front[i]
      /\ \A i \in 1 .. Len(query) : all[p + 2 + i] = query[i]
  <2> HIDE DEF front, query
  <2>1. /\ front \o query \in Seq(Words) /\ Len(front \o query) = Len(front) + Len(query)
        /\ \A i \in 1 .. Len(front) : (front \o query)[i] = front[i]
        /\ \A i \in 1 .. Len(query) : (front \o query)[Len(front) + i] = query[i]
    BY <1>5, <1>7, JoinParts
  <2> QED
    BY <1>2, <1>5, <1>7, <2>1
<1> HIDE DEF u, all, front, query
<1>9. all # << >>
  <2>1. Len(all) # 0
    BY <1>7, <1>8
  <2> QED
    BY <2>1, <1>8, EmptySeq
<1>10. /\ u \in Seq(Words) /\ Len(u) = p + 1 + Len(query)
       /\ \A i \in 1 .. p + 1 + Len(query) : u[i] = all[i]
  <2>1. /\ Front(all) \in Seq(Words) /\ Len(Front(all)) = Len(all) - 1
        /\ \A i \in 1 .. Len(all) - 1 : Front(all)[i] = all[i]
    BY <1>8, <1>9, AllButLast
  <2>2. Len(all) - 1 = p + 1 + Len(query)
    BY <1>7, <1>8
  <2> QED
    BY <1>6, <2>1, <2>2
<1>11. u[1] = "/" /\ \A i \in 1 .. p : u[1 + i] = path[i]
  <2>1. 1 \in 1 .. p + 2 /\ 1 \in 1 .. p + 1 + Len(query)
    BY <1>7
  <2>2. \A i \in 1 .. p : 1 + i \in 1 .. p + 2 /\ 1 + i \in 1 .. p + 1 + Len(query)
    BY <1>7
  <2> QED
    BY <1>5, <1>8, <1>10, <2>1, <2>2
<1>12. CASE key = NULL
  <2>1. query = << >> /\ Len(query) = 0
    <3>1. kk = << >> /\ vv = << >>
      BY <1>12, MessageAssumption DEF IsParam
    <3>2. << >> \o << >> = << >>
      BY EmptySeq, ConcatEmptySeq
    <3> QED
      BY <3>1, <3>2, EmptySeq DEF query
  <2>2. Len(u) = p + 1
    BY <1>10, <2>1
  <2> QED
    BY <1>2, <1>10, <1>11, <1>12, <2>2 DEF UrlOf, u
<1>13. CASE key # NULL
  <2>1. IsParam(key) /\ (val = NULL \/ IsParam(val))
    BY <1>13
  <2>2. /\ key \in Seq(Words) /\ Len(key) \in Nat
        /\ val # NULL => val \in Seq(Words) /\ Len(val) \in Nat
    <3>1. key \in Seq(Words) /\ (val # NULL => val \in Seq(Words))
      BY <2>1 DEF IsParam
    <3> QED
      BY <3>1, LenProperties
  <2>3. PICK k \in Nat : k = Len(key)
    BY <2>2
  <2>4. /\ Len(kk) = k + 3 /\ kk[1] = "key" /\ kk[2] = "=" /\ kk[k + 3] = "&"
        /\ \A i \in 1 .. k : kk[2 + i] = key[i]
    BY <1>1, <1>13, <2>2, <2>3, ParamText
  <2>5. /\ val = NULL => Len(vv) = 0
        /\ val # NULL => /\ Len(vv) = Len(val) + 3 /\ vv[1] = "val" /\ vv[2] = "="
                         /\ \A i \in 1 .. Len(val) : vv[2 + i] = val[i]
    <3>1. val = NULL => Len(vv) = 0
      BY EmptySeq
    <3>2. val # NULL => /\ Len(vv) = Len(val) + 3 /\ vv[1] = "val" /\ vv[2] = "="
                        /\ \A i \in 1 .. Len(val) : vv[2 + i] = val[i]
      BY <1>1, <2>2, ParamText
    <3> QED
      BY <3>1, <3>2
  <2> HIDE DEF kk, vv
  <2>6. /\ Len(query) = Len(kk) + Len(vv)
        /\ \A i \in 1 .. Len(kk) : query[i] = kk[i]
        /\ \A i \in 1 .. Len(vv) : query[Len(kk) + i] = vv[i]
    BY <1>4, JoinParts DEF query
  <2>7. PICK n \in Nat : n = Len(query)
    BY <1>7
  <2>8. /\ n = k + 3 + Len(vv) /\ Len(vv) \in Nat
        /\ \A i \in 1 .. k + 3 : query[i] = kk[i]
        /\ \A i \in 1 .. Len(vv) : query[k + 3 + i] = vv[i]
    <3>1. Len(vv) \in Nat
      BY <1>4, LenProperties
    <3> QED
      BY <2>4, <2>6, <2>7, <3>1
  <2> DEFINE q == From(u, p + 3)
  <2>9. /\ q \in Seq(Words) /\ Len(q) = n - 1
        /\ \A j \in 1 .. n - 1 : q[j] = query[j]
    <3>1. p + 3 \in 1 .. Len(u) + 1 /\ Len(u) + 1 - (p + 3) = n - 1
      BY <1>10, <2>7, <2>8
    <3>2. /\ q \in Seq(Words) /\ Len(q) = n - 1
          /\ \A j \in 1 .. n - 1 : q[j] = u[p + 3 + j - 1]
      <4>1. PICK v \in Seq(Words) : v = u
        BY <1>10
      <4>2. PICK k0 : k0 = p + 3
        OBVIOUS
      <4>3. PICK m : m = n - 1
        OBVIOUS
      <4>4. k0 \in 1 .. Len(v) + 1 /\ Len(v) + 1 - k0 = m
        BY <3>1, <4>1, <4>2, <4>3
      <4>5. /\ From(v, k0) \in Seq(Words) /\ Len(From(v, k0)) = m
            /\ \A j \in 1 .. m : From(v, k0)[j] = v[k0 + j - 1]
        BY ONLY v \in Seq(Words), <4>4, FromIs
      <4> QED
        BY ONLY <4>1, <4>2, <4>3, <4>5 DEF q
    <3>3. ASSUME NEW j \in 1 .. n - 1
          PROVE  q[j] = query[j]
      <4>1. p + 3 + j - 1 = p + 2 + j /\ p + 2 + j \in 1 .. p + 1 + n /\ j \in 1 .. n
        BY <2>7
      <4>2. u[p + 2 + j] = all[p + 2 + j]
        BY <1>10, <2>7, <4>1
      <4>3. all[p + 2 + j] = query[j]
        BY <1>8, <2>7, <4>1
      <4> QED
        BY <3>2, <4>1, <4>2, <4>3
    <3> QED
      BY <3>2, <3>3
  <2> HIDE DEF q
  <2>10. \A j \in 1 .. k + 2 : q[j] = kk[j]
    <3>1. \A j \in 1 .. k + 2 : j \in 1 .. n - 1 /\ j \in 1 .. k + 3
      BY <2>8
    <3> QED
      BY <2>8, <2>9, <3>1
  <2>11. q[1] = "key" /\ q[2] = "=" /\ \A i \in 1 .. k : q[2 + i] = key[i]
    <3>1. 1 \in 1 .. k + 2 /\ 2 \in 1 .. k + 2 /\ \A i \in 1 .. k : 2 + i \in 1 .. k + 2
      OBVIOUS
    <3> QED
      BY <2>4, <2>10, <3>1
  <2>12. ASSUME val = NULL
         PROVE  QueryOf(q, key, val)
    <3>1. Len(q) = Len(key) + 2
      BY <2>3, <2>5, <2>8, <2>9, <2>12
    <3>2. \A i \in 1 .. Len(key) : q[2 + i] = key[i]
      BY <2>3, <2>11
    <3> QED
      BY <2>9, <2>11, <2>12, <3>1, <3>2 DEF QueryOf
  <2>13. ASSUME val # NULL
         PROVE  QueryOf(q, key, val)
    <3>1. PICK v \in Nat : v = Len(val)
      BY <2>2, <2>13
    <3>2. /\ Len(vv) = v + 3 /\ vv[1] = "val" /\ vv[2] = "="
          /\ \A i \in 1 .. v : vv[2 + i] = val[i]
      BY <2>5, <2>13, <3>1
    <3>3. n = k + v + 6
      BY <2>8, <3>2
    <3>4. \A j \in 1 .. v + 2 : q[k + 3 + j] = vv[j]
      <4> TAKE j \in 1 .. v + 2
      <4>1. k + 3 + j \in 1 .. n - 1 /\ j \in 1 .. Len(vv)
        BY <3>2, <3>3
      <4> QED
        BY <2>8, <2>9, <4>1
    <3>5. q[k + 3] = "&"
      <4>1. k + 3 \in 1 .. n - 1 /\ k + 3 \in 1 .. k + 3
        BY <3>3
      <4> QED
        BY <2>4, <2>8, <2>9, <4>1
    <3>6. q[k + 4] = "val" /\ q[k + 5] = "="
      <4>1. 1 \in 1 .. v + 2 /\ 2 \in 1 .. v + 2 /\ k + 3 + 1 = k + 4 /\ k + 3 + 2 = k + 5
        OBVIOUS
      <4>2. q[k + 3 + 1] = vv[1] /\ q[k + 3 + 2] = vv[2]
        BY <3>4, <4>1
      <4> QED
        BY <3>2, <4>1, <4>2
    <3>7. \A i \in 1 .. v : q[k + 5 + i] = val[i]
      <4> TAKE i \in 1 .. v
      <4>1. 2 + i \in 1 .. v + 2 /\ k + 3 + (2 + i) = k + 5 + i
        OBVIOUS
      <4>2. q[k + 3 + (2 + i)] = vv[2 + i]
        BY <3>4, <4>1
      <4> QED
        BY <3>2, <4>1, <4>2
    <3>8. Len(q) = Len(key) + Len(val) + 5
      BY <2>3, <2>9, <3>1, <3>3
    <3>9. /\ q[Len(key) + 3] = "&" /\ q[Len(key) + 4] = "val" /\ q[Len(key) + 5] = "="
          /\ \A i \in 1 .. Len(val) : q[Len(key) + 5 + i] = val[i]
          /\ \A i \in 1 .. Len(key) : q[2 + i] = key[i]
      BY <2>3, <2>11, <3>1, <3>5, <3>6, <3>7
    <3> QED
      BY <2>9, <2>11, <2>13, <3>8, <3>9 DEF QueryOf
  <2>14. QueryOf(q, key, val)
    BY <2>12, <2>13
  <2>15. u[p + 2] = "?" /\ Len(u) > p + 2
    <3>1. p + 2 \in 1 .. p + 2 /\ p + 2 \in 1 .. p + 1 + Len(query) /\ Len(u) > p + 2
      BY <1>10, <2>7, <2>8
    <3> QED
      BY <1>5, <1>8, <1>10, <3>1
  <2>16. QueryOf(From(u, Len(path) + 3), key, val)
    BY <1>2, <2>14 DEF q
  <2>17. /\ u[Len(path) + 2] = "?" /\ Len(u) > Len(path) + 2
         /\ \A i \in 1 .. Len(path) : u[1 + i] = path[i]
    BY <1>2, <1>11, <2>15
  <2>18. UrlOf(u, path, key, val)
    BY <1>10, <1>11, <1>13, <2>16, <2>17 DEF UrlOf
  <2> QED
    BY <2>18 DEF u
<1> QED
  BY <1>12, <1>13

LEMMA NoParam == \A names : Param(<< >>, names) = NULL
<1>1. Len(<< >>) = 0
  BY EmptySeq
<1>2. 1 .. 0 = {}
  OBVIOUS
<1> QED
  BY <1>1, <1>2 DEF Param

(* url_decode takes apart what url_encode has put together.                *)
LEMMA UrlDecoded ==
  ASSUME NEW u, NEW path \in Seq(Words), NEW key, NEW val,
         \A i \in 1 .. Len(path) : path[i] # "?",
         \/ key = NULL /\ val = NULL
         \/ IsParam(key) /\ (val = NULL \/ IsParam(val)),
         UrlOf(u, path, key, val)
  PROVE  url_decode(u) = [path |-> path, key |-> key, val |-> val]
<1>1. u \in Seq(Words) /\ u[1] = "/" /\ \A i \in 1 .. Len(path) : u[1 + i] = path[i]
  BY DEF UrlOf
<1>2. PICK p \in Nat : p = Len(path)
  BY LenProperties
<1>3. Len(u) \in Nat /\ "/" # "?"
  BY <1>1, LenProperties
<1>4. ASSUME p + 1 <= Len(u)
      PROVE  /\ \A j \in 1 .. p + 1 : u[j] # "?"
             /\ SubSeq(u, 2, p + 1) = path
  <2>1. ASSUME NEW j \in 1 .. p + 1
        PROVE  u[j] # "?"
    <3>1. CASE j = 1
      BY <1>1, <3>1
    <3>2. CASE j # 1
      <4>1. j - 1 \in 1 .. p /\ 1 + (j - 1) = j
        BY <3>2
      <4> QED
        BY <1>1, <1>2, <4>1
    <3> QED
      BY <3>1, <3>2
  <2>2. 2 \in 1 .. Len(u) + 1 /\ p + 1 \in 2 - 1 .. Len(u) /\ p + 1 + 1 - 2 = p
    BY <1>3, <1>4
  <2>3. /\ SubSeq(u, 2, p + 1) \in Seq(Words) /\ Len(SubSeq(u, 2, p + 1)) = p
        /\ \A i \in 1 .. p : SubSeq(u, 2, p + 1)[i] = u[2 + i - 1]
    BY <1>1, <2>2, PartIs
  <2>4. \A i \in 1 .. p : SubSeq(u, 2, p + 1)[i] = path[i]
    <3> TAKE i \in 1 .. p
    <3>1. 2 + i - 1 = 1 + i
      OBVIOUS
    <3> QED
      BY <1>1, <1>2, <2>3, <3>1
  <2>5. SubSeq(u, 2, p + 1) = path
    BY <1>2, <2>3, <2>4, SeqEqual
  <2> QED
    BY <2>1, <2>5
<1>5. CASE key = NULL
  <2>1. val = NULL
    BY <1>5, MessageAssumption DEF IsParam
  <2>2. Len(u) = p + 1
    BY <1>2, <1>5 DEF UrlOf
  <2>3. Find(u, {"?"}) = 0
    <3>1. \A j \in 1 .. Len(u) : u[j] \notin {"?"}
      BY <1>4, <2>2
    <3> QED
      BY <1>1, <3>1, FindNone
  <2>4. SubSeq(u, 2, Len(u)) = path
    BY <1>4, <2>2
  <2> QED
    BY <1>5, <2>1, <2>3, <2>4, NoParam DEF url_decode
<1>6. CASE key # NULL
  <2>1. /\ IsParam(key) /\ (val = NULL \/ IsParam(val))
        /\ Len(u) > p + 2 /\ u[p + 2] = "?" /\ QueryOf(From(u, p + 3), key, val)
    BY <1>2, <1>6 DEF UrlOf
  <2>2. PICK n \in 1 .. Len(u) : n = p + 2
    BY <1>3, <2>1
  <2>3. \A j \in 1 .. n - 1 : u[j] \notin {"?"}
    <3>1. \A j \in 1 .. n - 1 : j \in 1 .. p + 1
      BY <2>2
    <3> QED
      BY <1>3, <1>4, <2>1, <3>1
  <2>4. Find(u, {"?"}) = n
    <3>1. u[n] \in {"?"}
      BY <2>1, <2>2
    <3> QED
      BY <1>1, <2>2, <2>3, <3>1, FindFirst
  <2>5. n # 0 /\ n - 1 = p + 1 /\ n + 1 = p + 3
    BY <2>2
  <2>6. SubSeq(u, 2, n - 1) = path
    BY <1>3, <1>4, <2>1, <2>5
  <2>7. /\ Param(From(u, n + 1), {<< >>, <<"key">>}) = key
        /\ Param(From(u, n + 1), {<<"val">>}) = val
    BY <2>1, <2>5, QueryRead
  <2> QED
    BY <2>4, <2>5, <2>6, <2>7 DEF url_decode
<1> QED
  BY <1>5, <1>6

(* It has no space and no newline in it.                                   *)
Breaks == {"SP", "\n", "\r\n"}

LEMMA UrlUnbroken ==
  ASSUME NEW u, NEW path \in Seq(Words), NEW key, NEW val,
         \A i \in 1 .. Len(path) : path[i] \notin Breaks,
         \/ key = NULL /\ val = NULL
         \/ IsParam(key) /\ (val = NULL \/ IsParam(val)),
         UrlOf(u, path, key, val)
  PROVE  \A i \in 1 .. Len(u) : u[i] \notin Breaks
<1>1. u \in Seq(Words) /\ u[1] = "/" /\ \A i \in 1 .. Len(path) : u[1 + i] = path[i]
  BY DEF UrlOf
<1>2. PICK p \in Nat : p = Len(path)
  BY LenProperties
<1>3. Len(u) \in Nat
  BY <1>1, LenProperties
<1>4. \A i \in 1 .. p + 1 : u[i] \notin Breaks
  <2> TAKE i \in 1 .. p + 1
  <2>1. CASE i = 1
    BY <1>1, <2>1 DEF Breaks
  <2>2. CASE i # 1
    <3>1. i - 1 \in 1 .. p /\ 1 + (i - 1) = i
      BY <2>2
    <3>2. u[i] = path[i - 1]
      BY <1>1, <1>2, <3>1
    <3> QED
      BY <1>2, <3>1, <3>2
  <2> QED
    BY <2>1, <2>2
<1>5. CASE key = NULL
  <2>1. Len(u) = p + 1
    BY <1>2, <1>5 DEF UrlOf
  <2> QED
    BY <1>4, <2>1
<1>6. CASE key # NULL
  <2> DEFINE q == From(u, p + 3)
  <2>1. /\ IsParam(key) /\ (val = NULL \/ IsParam(val))
        /\ Len(u) > p + 2 /\ u[p + 2] = "?" /\ QueryOf(q, key, val)
    BY <1>2, <1>6 DEF UrlOf
  <2>2. /\ q \in Seq(Words) /\ Len(q) = Len(u) - p - 2
        /\ \A j \in 1 .. Len(u) - p - 2 : q[j] = u[p + 3 + j - 1]
    <3>1. p + 3 \in 1 .. Len(u) + 1 /\ Len(u) + 1 - (p + 3) = Len(u) - p - 2
      BY <1>3, <2>1
    <3> QED
      <4>1. PICK k0 : k0 = p + 3
        OBVIOUS
      <4>2. PICK m : m = Len(u) - p - 2
        OBVIOUS
      <4>3. k0 \in 1 .. Len(u) + 1 /\ Len(u) + 1 - k0 = m
        BY <3>1, <4>1, <4>2
      <4>4. /\ From(u, k0) \in Seq(Words) /\ Len(From(u, k0)) = m
            /\ \A j \in 1 .. m : From(u, k0)[j] = u[k0 + j - 1]
        BY ONLY <1>1, <4>3, FromIs
      <4> QED
        BY ONLY <4>1, <4>2, <4>4 DEF q
  <2> HIDE DEF q
  <2>3. \A j \in 1 .. Len(q) : q[j] \notin Breaks
    <3>1. /\ key \in Seq(Words) /\ \A i \in 1 .. Len(key) : key[i] \notin Breaks
          /\ val # NULL => val \in Seq(Words) /\ \A i \in 1 .. Len(val) : val[i] \notin Breaks
      BY <2>1 DEF IsParam, Breaks
    <3>2. PICK k \in Nat : k = Len(key)
      BY <3>1, LenProperties
    <3>3. /\ q[1] = "key" /\ q[2] = "=" /\ \A i \in 1 .. k : q[2 + i] = key[i]
          /\ val = NULL => Len(q) = k + 2
          /\ val # NULL => /\ Len(q) = k + Len(val) + 5
                           /\ q[k + 3] = "&" /\ q[k + 4] = "val" /\ q[k + 5] = "="
                           /\ \A i \in 1 .. Len(val) : q[k + 5 + i] = val[i]
      BY <2>1, <3>2 DEF QueryOf
    <3>4. \A j \in 1 .. k + 2 : q[j] \notin Breaks
      <4> TAKE j \in 1 .. k + 2
      <4>1. CASE j \in {1, 2}
        BY <3>3, <4>1 DEF Breaks
      <4>2. CASE j \notin {1, 2}
        <5>1. j - 2 \in 1 .. k /\ 2 + (j - 2) = j
          BY <4>2
        <5>2. q[j] = key[j - 2]
          BY <3>3, <5>1
        <5> QED
          BY <3>1, <3>2, <5>1, <5>2
      <4> QED
        BY <4>1, <4>2
    <3>5. CASE val = NULL
      BY <3>3, <3>4, <3>5
    <3>6. CASE val # NULL
      <4>1. PICK v \in Nat : v = Len(val)
        BY <3>1, <3>6, LenProperties
      <4>2. \A i \in 1 .. v : q[k + 5 + i] = val[i]
        BY <3>3, <3>6, <4>1
      <4>3. q[k + 3] = "&" /\ q[k + 4] = "val" /\ q[k + 5] = "=" /\ Len(q) = k + v + 5
        BY <3>3, <3>6, <4>1
      <4> SUFFICES ASSUME NEW j \in 1 .. k + v + 5
                   PROVE  q[j] \notin Breaks
        BY <4>3
      <4>4. CASE j <= k + 2
        BY <3>4, <4>4
      <4>5. CASE j \in {k + 3, k + 4, k + 5}
        BY <4>3, <4>5 DEF Breaks
      <4>6. CASE j > k + 5
        <5>1. j - (k + 5) \in 1 .. v /\ k + 5 + (j - (k + 5)) = j
          BY <4>6
        <5>2. q[j] = val[j - (k + 5)]
          BY <4>2, <5>1
        <5> QED
          BY <3>1, <3>6, <4>1, <5>1, <5>2
      <4>7. j <= k + 2 \/ j \in {k + 3, k + 4, k + 5} \/ j > k + 5
        <5>1. j \in Int /\ k \in Int
          OBVIOUS
        <5> QED
          BY ONLY <5>1
      <4> QED
        BY <4>4, <4>5, <4>6, <4>7
    <3> QED
      BY <3>5, <3>6
  <2> TAKE i \in 1 .. Len(u)
  <2>4. CASE i <= p + 1
    BY <1>4, <2>4
  <2>5. CASE i = p + 2
    BY <2>1, <2>5 DEF Breaks
  <2>6. CASE i > p + 2
    <3>1. i - p - 2 \in 1 .. Len(u) - p - 2 /\ p + 3 + (i - p - 2) - 1 = i
      BY <1>3, <2>6
    <3>2. q[i - p - 2] = u[i] /\ i - p - 2 \in 1 .. Len(q)
      BY <2>2, <3>1
    <3> QED
      BY <2>3, <3>2
  <2> QED
    BY <2>4, <2>5, <2>6
<1> QED
  BY <1>5, <1>6

(* A request line around a URL.                                            *)
RequestOf(t, m, u) ==
  /\ t \in Seq(Words) /\ Len(t) = Len(u) + 6
  /\ t[1] = m /\ t[2] = "SP" /\ t[Len(u) + 3] = "SP"
  /\ \A i \in 1 .. Len(u) : t[2 + i] = u[i]

LEMMA RequestText ==
  ASSUME NEW m \in Words, NEW u \in Seq(Words)
  PROVE  RequestOf(<<m, "SP">> \o u \o <<"SP", "HTTP/1.1", "\r\n", "\r\n">>, m, u)
<1> DEFINE s == <<m, "SP">>
           z == <<"SP", "HTTP/1.1", "\r\n", "\r\n">>
           v == s \o u
           t == v \o z
<1>1. "SP" \in Words /\ "HTTP/1.1" \in Words /\ "\r\n" \in Words
  BY MessageAssumption DEF Marks
<1>2. s \in Seq(Words) /\ Len(s) = 2 /\ s[1] = m /\ s[2] = "SP"
  BY <1>1
<1>3. z \in Seq(Words) /\ Len(z) = 4 /\ z[1] = "SP"
  BY <1>1
<1>4. PICK n \in Nat : n = Len(u)
  BY LenProperties
<1> HIDE DEF s, z
<1>5. /\ v \in Seq(Words) /\ Len(v) = Len(s) + Len(u)
      /\ \A i \in 1 .. Len(s) : v[i] = s[i]
      /\ \A i \in 1 .. Len(u) : v[Len(s) + i] = u[i]
  BY <1>2, JoinParts
<1> HIDE DEF v
<1>6. v \in Seq(Words) /\ Len(v) = n + 2 /\ v[1] = m /\ v[2] = "SP"
      /\ \A i \in 1 .. n : v[2 + i] = u[i]
  BY <1>2, <1>4, <1>5
<1>7. /\ t \in Seq(Words) /\ Len(t) = Len(v) + Len(z)
      /\ \A i \in 1 .. Len(v) : t[i] = v[i]
      /\ \A i \in 1 .. Len(z) : t[Len(v) + i] = z[i]
  BY <1>3, <1>6, JoinParts
<1> HIDE DEF t
<1>8. t[1] = m /\ t[2] = "SP" /\ t[n + 3] = "SP" /\ Len(t) = n + 6
  <2>1. 1 \in 1 .. Len(v) /\ 2 \in 1 .. Len(v) /\ 1 \in 1 .. Len(z) /\ Len(v) + 1 = n + 3
    BY <1>3, <1>6
  <2> QED
    BY <1>3, <1>6, <1>7, <2>1
<1>9. \A i \in 1 .. n : t[2 + i] = u[i]
  <2>1. \A i \in 1 .. n : 2 + i \in 1 .. Len(v)
    BY <1>6
  <2> QED
    BY <1>6, <1>7, <2>1
<1>10. RequestOf(t, m, u)
  BY <1>4, <1>7, <1>8, <1>9 DEF RequestOf
<1> QED
  BY <1>10 DEF s, z, v, t

(* A path is read whole, up to the space that ends it, or not at all.      *)
LEMMA UrlRead ==
  ASSUME NEW t, NEW m, NEW u \in Seq(Words), RequestOf(t, m, u), m # "SP",
         \A i \in 1 .. Len(u) : u[i] \notin Breaks,
         NEW text \in Seq(Words), IsPrefix(text, t)
  PROVE  Url(text) \in {<< >>, u}
<1> DEFINE start == Find(text, {"SP"}) + 1
           rest == From(text, start)
           end == Find(rest, {"SP", "\n", "\r\n"})
<1>1. Url(text) = IF start = 1 \/ start > Len(text) \/ end = 0 THEN << >>
                  ELSE SubSeq(text, start, start + end - 2)
  BY DEF Url
<1>2. PICK n \in Nat : n = Len(u)
  BY LenProperties
<1>3. /\ t \in Seq(Words) /\ Len(t) = n + 6 /\ t[1] = m /\ t[2] = "SP" /\ t[n + 3] = "SP"
      /\ \A i \in 1 .. n : t[2 + i] = u[i]
  BY <1>2 DEF RequestOf
<1>4. Len(text) \in Nat /\ Len(text) <= n + 6 /\ \A i \in 1 .. Len(text) : text[i] = t[i]
  BY <1>3, PrefixByWords
<1> HIDE DEF start, rest, end
<1>5. CASE Len(text) < 3
  <2>1. CASE Len(text) = 2
    <3>1. text[1] \notin {"SP"} /\ text[2] \in {"SP"} /\ 2 \in 1 .. Len(text) /\ 1 \in 1 .. Len(text)
      BY <1>3, <1>4, <2>1
    <3>2. \A i \in 1 .. 2 - 1 : text[i] \notin {"SP"}
      BY <3>1
    <3>3. Find(text, {"SP"}) = 2
      BY <3>1, <3>2, FindFirst
    <3> QED
      BY <1>1, <2>1, <3>3 DEF start
  <2>2. CASE Len(text) < 2
    <3>1. \A i \in 1 .. Len(text) : text[i] \notin {"SP"}
      BY <1>3, <1>4, <2>2
    <3>2. Find(text, {"SP"}) = 0
      BY <3>1, FindNone
    <3> QED
      BY <1>1, <3>2 DEF start
  <2> QED
    <3>1. Len(text) = 2 \/ Len(text) < 2
      <4>1. PICK l \in Nat : l = Len(text)
        BY <1>4
      <4>2. l = 2 \/ l < 2
        BY <1>5, <4>1
      <4> QED
        BY <4>1, <4>2
    <3> QED
      BY <2>1, <2>2, <3>1
<1>6. CASE Len(text) >= 3
  <2>1. start = 3
    <3>1. text[1] \notin {"SP"} /\ text[2] \in {"SP"} /\ 2 \in 1 .. Len(text) /\ 1 \in 1 .. Len(text)
      BY <1>3, <1>4, <1>6
    <3>2. \A i \in 1 .. 2 - 1 : text[i] \notin {"SP"}
      BY <3>1
    <3>3. Find(text, {"SP"}) = 2
      BY <3>1, <3>2, FindFirst
    <3> QED
      BY <3>3 DEF start
  <2>2. /\ rest \in Seq(Words) /\ Len(rest) = Len(text) - 2
        /\ \A j \in 1 .. Len(text) - 2 : rest[j] = text[3 + j - 1]
    <3>1. 3 \in 1 .. Len(text) + 1 /\ Len(text) + 1 - 3 = Len(text) - 2
      BY <1>4, <1>6
    <3> QED
      BY <2>1, <3>1, FromIs DEF rest
  <2>3. ASSUME NEW j \in 1 .. Len(text) - 2
        PROVE  rest[j] = t[2 + j]
    <3>1. 3 + j - 1 = 2 + j /\ 2 + j \in 1 .. Len(text)
      BY <1>4
    <3> QED
      BY <1>4, <2>2, <3>1
  <2>4. \A j \in 1 .. Len(text) - 2 : j <= n => rest[j] = u[j] /\ rest[j] \notin {"SP", "\n", "\r\n"}
    <3> SUFFICES ASSUME NEW j \in 1 .. Len(text) - 2, j <= n
                 PROVE  rest[j] = u[j] /\ rest[j] \notin {"SP", "\n", "\r\n"}
      OBVIOUS
    <3>1. j \in 1 .. n
      BY <1>4
    <3> QED
      BY <1>2, <1>3, <2>3, <3>1 DEF Breaks
  <2>5. CASE Len(text) < n + 3
    <3>1. \A j \in 1 .. Len(rest) : rest[j] \notin {"SP", "\n", "\r\n"}
      BY <1>4, <2>2, <2>4, <2>5
    <3>2. end = 0
      BY <2>2, <3>1, FindNone DEF end
    <3> QED
      BY <1>1, <3>2
  <2>6. CASE Len(text) >= n + 3
    <3>1. PICK e \in 1 .. Len(rest) : e = n + 1
      BY <1>4, <2>2, <2>6
    <3>2. rest[e] \in {"SP", "\n", "\r\n"}
      <4>1. 2 + e = n + 3 /\ e \in 1 .. Len(text) - 2
        BY <1>4, <2>2, <3>1
      <4> QED
        BY <1>3, <2>3, <4>1
    <3>3. \A j \in 1 .. e - 1 : rest[j] \notin {"SP", "\n", "\r\n"}
      <4>1. \A j \in 1 .. e - 1 : j \in 1 .. Len(text) - 2 /\ j <= n
        BY <1>4, <2>2, <3>1
      <4> QED
        BY <2>4, <4>1
    <3>4. end = e
      BY <2>2, <3>2, <3>3, FindFirst DEF end
    <3>5. SubSeq(text, 3, n + 2) = u
      <4>1. 3 \in 1 .. Len(text) + 1 /\ n + 2 \in 3 - 1 .. Len(text) /\ n + 2 + 1 - 3 = n
        BY <1>4, <2>6
      <4>2. /\ SubSeq(text, 3, n + 2) \in Seq(Words) /\ Len(SubSeq(text, 3, n + 2)) = n
            /\ \A k \in 1 .. n : SubSeq(text, 3, n + 2)[k] = text[3 + k - 1]
        BY <4>1, PartIs
      <4>3. \A k \in 1 .. n : SubSeq(text, 3, n + 2)[k] = u[k]
        <5> TAKE k \in 1 .. n
        <5>1. k \in 1 .. Len(text) - 2 /\ k <= n
          BY <1>4, <2>6
        <5> QED
          BY <2>2, <2>4, <4>2, <5>1
      <4> QED
        BY <1>2, <4>2, <4>3, SeqEqual
    <3>6. start + end - 2 = n + 2
      BY <2>1, <3>1, <3>4
    <3> QED
      BY <1>1, <2>1, <3>5, <3>6
  <2> QED
    BY <1>4, <2>5, <2>6
<1> QED
  BY <1>4, <1>5, <1>6

(* The requests that are sent: by clients, by the leader on their behalf,  *)
(* and the leader's decisions.                                             *)
Sendable(r) ==
  /\ r = kvrequest(r.type, r.key, r.val)
  /\ \/ /\ r.type \in {"GETREQ", "PUTREQ", "DELREQ", "REGISTER"}
        /\ IsParam(r.key) /\ (r.val = NULL \/ IsParam(r.val))
     \/ r.type \in {"COMMIT", "ABORT"} /\ r.key = NULL /\ r.val = NULL

(* The text of a request, and what url_decode makes of its URL.            *)
LEMMA RequestIs ==
  ASSUME NEW r, Sendable(r), NEW u, u = url_encode(Path(r.type), r.key, r.val)
  PROVE  /\ u \in Seq(Words) /\ u[1] = "/" /\ Len(u) # 0
         /\ \A i \in 1 .. Len(u) : u[i] \notin Breaks
         /\ Method[r.type] # "SP" /\ RequestOf(kvrequest_send(r), Method[r.type], u)
         /\ url_decode(u) = [path |-> Path(r.type), key |-> r.key, val |-> r.val]
<1> DEFINE path == Path(r.type)
           m == Method[r.type]
           t == kvrequest_send(r)
<1>1. r.type \in {"GETREQ", "PUTREQ", "DELREQ", "REGISTER", "COMMIT", "ABORT"}
  BY DEF Sendable
<1>2. /\ r.type = "GETREQ" => m = "GET" /\ path = << >>
      /\ r.type = "PUTREQ" => m = "PUT" /\ path = << >>
      /\ r.type = "DELREQ" => m = "DELETE" /\ path = << >>
      /\ r.type = "REGISTER" => m = "POST" /\ path = <<"register">>
      /\ r.type = "COMMIT" => m = "POST" /\ path = <<"commit">>
      /\ r.type = "ABORT" => m = "POST" /\ path = <<"abort">>
  BY DEF Method, Path
<1>3. m \in Words /\ m # "SP"
  BY <1>1, <1>2, MessageAssumption DEF Marks
<1>4. /\ path \in Seq(Words)
      /\ \A i \in 1 .. Len(path) : path[i] # "?" /\ path[i] \notin Breaks
  <2>1. CASE path = << >>
    BY <2>1, EmptySeq
  <2>2. ASSUME NEW w \in {"register", "commit", "abort"}, path = <<w>>
        PROVE  /\ path \in Seq(Words)
               /\ \A i \in 1 .. Len(path) : path[i] # "?" /\ path[i] \notin Breaks
    <3>1. w \in Words
      BY MessageAssumption DEF Marks
    <3>2. <<w>> \in Seq(Words) /\ Len(<<w>>) = 1 /\ <<w>>[1] = w
      BY <3>1
    <3>3. w # "?" /\ w \notin Breaks
      BY DEF Breaks
    <3> HIDE DEF path
    <3>4. \A i \in 1 .. Len(path) : path[i] = w
      BY <2>2, <3>2
    <3> QED
      BY <2>2, <3>2, <3>3, <3>4
  <2> QED
    BY <1>1, <1>2, <2>1, <2>2
<1>5. \/ r.key = NULL /\ r.val = NULL
      \/ IsParam(r.key) /\ (r.val = NULL \/ IsParam(r.val))
  BY DEF Sendable
<1>6. UrlOf(u, path, r.key, r.val)
  <2> HIDE DEF path
  <2>1. UrlOf(url_encode(path, r.key, r.val), path, r.key, r.val)
    BY <1>4, <1>5, UrlEncoded
  <2> QED
    BY <2>1 DEF path
<1> HIDE DEF path, m
<1>7. /\ u \in Seq(Words) /\ u[1] = "/" /\ Len(u) # 0
      /\ \A i \in 1 .. Len(u) : u[i] \notin Breaks
  <2>1. u \in Seq(Words) /\ u[1] = "/"
    BY <1>6 DEF UrlOf
  <2>2. Len(u) # 0
    <3>1. Len(path) \in Nat /\ Len(u) \in Nat
      BY <1>4, <2>1, LenProperties
    <3> QED
      BY <1>6, <3>1 DEF UrlOf
  <2> QED
    BY <1>4, <1>5, <1>6, <2>1, <2>2, UrlUnbroken
<1>8. RequestOf(t, m, u)
  <2>1. t = <<m, "SP">> \o u \o <<"SP", "HTTP/1.1", "\r\n", "\r\n">>
    BY DEF kvrequest_send, m, path
  <2> QED
    BY <1>3, <1>7, <2>1, RequestText
<1>9. url_decode(u) = [path |-> path, key |-> r.key, val |-> r.val]
  BY <1>4, <1>5, <1>6, UrlDecoded
<1> QED
  BY <1>3, <1>7, <1>8, <1>9 DEF m, path

(* However much of a request has come, it is refused or read as it was     *)
(* meant: the prefix of an encoded request is never another request.       *)
LEMMA RequestRead ==
  ASSUME NEW r, Sendable(r), NEW text \in Seq(Words), text # << >>,
         IsPrefix(text, kvrequest_send(r))
  PROVE  kvrequest_recieve(text) \in {NULL, r}
<1> DEFINE path == Path(r.type)
           u == url_encode(path, r.key, r.val)
           m == Method[r.type]
           t == kvrequest_send(r)
<1>1. r.type \in {"GETREQ", "PUTREQ", "DELREQ", "REGISTER", "COMMIT", "ABORT"}
  BY DEF Sendable
<1>2. /\ r.type = "GETREQ" => m = "GET"
      /\ r.type = "PUTREQ" => m = "PUT"
      /\ r.type = "DELREQ" => m = "DELETE"
      /\ r.type = "REGISTER" => m = "POST" /\ path = <<"register">>
      /\ r.type = "COMMIT" => m = "POST" /\ path = <<"commit">>
      /\ r.type = "ABORT" => m = "POST" /\ path = <<"abort">>
  BY DEF Method, Path
<1>3. /\ u \in Seq(Words) /\ u[1] = "/" /\ Len(u) # 0
      /\ \A i \in 1 .. Len(u) : u[i] \notin Breaks
      /\ m # "SP" /\ RequestOf(t, m, u)
      /\ url_decode(u) = [path |-> path, key |-> r.key, val |-> r.val]
  BY RequestIs
<1> HIDE DEF path, m, u
<1>4. Url(text) \in {<< >>, u}
  BY <1>3, UrlRead
<1>5. text[1] = m
  <2>1. t \in Seq(Words) /\ t[1] = m
    BY <1>3 DEF RequestOf
  <2>2. 1 \in 1 .. Len(text)
    <3>1. Len(text) \in Nat /\ Len(text) # 0
      BY EmptySeq
    <3> QED
      BY <3>1
  <2>3. text[1] = t[1]
    BY <2>1, <2>2, PrefixByWords
  <2> QED
    BY <2>1, <2>3
<1>6. url_decode(u) = [path |-> path, key |-> r.key, val |-> r.val]
  BY <1>3
<1> DEFINE p == url_decode(Url(text))
           type == CASE text[1] = "GET" /\ p.key = NULL                           -> "INDEX"
                     [] text[1] = "GET" /\ p.key # NULL                           -> "GETREQ"
                     [] text[1] = "PUT" /\ p.key # NULL /\ p.val # NULL           -> "PUTREQ"
                     [] text[1] = "DELETE" /\ p.key # NULL                        -> "DELREQ"
                     [] text[1] = "POST" /\ p.path = <<"register">>
                          /\ p.key # NULL /\ p.val # NULL                         -> "REGISTER"
                     [] text[1] = "POST" /\ p.path = <<"commit">>                 -> "COMMIT"
                     [] text[1] = "POST" /\ p.path = <<"abort">>                  -> "ABORT"
                     [] OTHER                                                     -> "EMPTY"
<1>7. kvrequest_recieve(text)
         = IF Url(text) = << >> \/ Head(Url(text)) # "/" \/ type = "EMPTY" THEN NULL
           ELSE kvrequest(type, p.key, p.val)
  BY DEF kvrequest_recieve
<1>8. CASE Url(text) = << >>
  BY <1>7, <1>8
<1>9. CASE Url(text) = u
  <2>1. p.path = path /\ p.key = r.key /\ p.val = r.val
    BY <1>6, <1>9
  <2>2. type \in {r.type, "EMPTY"}
    <3> HIDE DEF p
    <3>1. \A k \in {r.key, r.val} : IsParam(k) => k # NULL
      BY MessageAssumption DEF IsParam
    <3>2. <<"register">> # <<"commit">> /\ <<"register">> # <<"abort">> /\ <<"commit">> # <<"abort">>
      OBVIOUS
    <3>3. CASE r.type = "GETREQ"
      <4>1. text[1] = "GET" /\ p.key # NULL
        BY <1>2, <1>5, <2>1, <3>1, <3>3 DEF Sendable
      <4> QED
        BY <3>3, <4>1
    <3>4. CASE r.type = "PUTREQ"
      <4>1. text[1] = "PUT" /\ p.key # NULL
        BY <1>2, <1>5, <2>1, <3>1, <3>4 DEF Sendable
      <4> QED
        BY <3>4, <4>1
    <3>5. CASE r.type = "DELREQ"
      <4>1. text[1] = "DELETE" /\ p.key # NULL
        BY <1>2, <1>5, <2>1, <3>1, <3>5 DEF Sendable
      <4> QED
        BY <3>5, <4>1
    <3>6. CASE r.type = "REGISTER"
      <4>1. text[1] = "POST" /\ p.path = <<"register">>
        BY <1>2, <1>5, <2>1, <3>6
      <4> QED
        BY <3>2, <3>6, <4>1
    <3>7. CASE r.type = "COMMIT"
      <4>1. text[1] = "POST" /\ p.path = <<"commit">>
        BY <1>2, <1>5, <2>1, <3>7
      <4> QED
        BY <3>2, <3>7, <4>1
    <3>8. CASE r.type = "ABORT"
      <4>1. text[1] = "POST" /\ p.path = <<"abort">>
        BY <1>2, <1>5, <2>1, <3>8
      <4> QED
        BY <3>2, <3>8, <4>1
    <3> QED
      BY <1>1, <3>3, <3>4, <3>5, <3>6, <3>7, <3>8
  <2> HIDE DEF type, p
  <2>3. kvrequest_recieve(text) \in {NULL, kvrequest(r.type, r.key, r.val)}
    BY <1>7, <2>1, <2>2
  <2> QED
    BY <2>3 DEF Sendable
<1> QED
  BY <1>4, <1>8, <1>9

LEMMA GreatestNatural ==
  ASSUME NEW n \in Nat, NEW T \in SUBSET (0 .. n), T # {}
  PROVE  \E g \in T : \A m \in T : m <= g
<1> DEFINE U == {n - m : m \in T}
<1>1. U \in SUBSET Nat /\ U # {}
  <2>1. \A m \in T : m \in 0 .. n
    OBVIOUS
  <2>2. \A m \in T : n - m \in Nat
    BY <2>1
  <2>3. \A l \in U : l \in Nat
    BY <2>2
  <2>4. U # {}
    OBVIOUS
  <2> HIDE DEF U
  <2> QED
    BY <2>3, <2>4
<1>2. PICK l \in U : \A m \in U : l <= m
  <2> HIDE DEF U
  <2> QED
    BY <1>1, LeastNatural
<1>3. PICK g \in T : l = n - g
  OBVIOUS
<1>4. ASSUME NEW m \in T
      PROVE  m <= g
  <2>1. n - g <= n - m
    BY <1>2, <1>3
  <2>2. m \in Nat /\ g \in Nat
    OBVIOUS
  <2> QED
    BY <2>1, <2>2
<1> QED
  BY <1>4

(* Whatever a query says, a value is a part of it without an "&".          *)
LEMMA ValueIs ==
  ASSUME NEW q \in Seq(Words), NEW i \in 1 .. Len(q), \A j \in 1 .. Len(q) : q[j] \notin Breaks,
         Find(From(q, i), {"="}) # 0
  PROVE  IsParam(Value(q, i))
<1> DEFINE s == From(q, i)
           f == Find(s, {"="})
           amp == Find(s, {"&"})
           last == IF amp = 0 THEN Len(q) ELSE i + amp - 2
           v == SubSeq(q, i + f, last)
<1>1. Len(q) \in Nat /\ i \in Nat /\ 1 <= i /\ i <= Len(q)
  OBVIOUS
<1>2. /\ s \in Seq(Words) /\ Len(s) = Len(q) + 1 - i
      /\ \A j \in 1 .. Len(q) + 1 - i : s[j] = q[i + j - 1]
  BY <1>1, FromIs
<1>3. Value(q, i) = v
  BY DEF Value
<1> HIDE DEF s
<1>4. f \in 1 .. Len(s)
  <2>1. f \in 0 .. Len(s) /\ f # 0
    BY <1>2, FindIs DEF s
  <2> QED
    BY <1>1, <1>2, <2>1
<1>5. /\ amp \in 0 .. Len(s)
      /\ amp = 0 => \A j \in 1 .. Len(s) : s[j] \notin {"&"}
      /\ amp # 0 => \A j \in 1 .. Len(s) : j < amp => s[j] \notin {"&"}
  BY <1>2, FindIs
<1> HIDE DEF f, amp
<1>6. /\ last \in Int /\ last <= Len(q) /\ i + f \in Int /\ i + f >= 1
      /\ \A j \in i + f .. last : j \in 1 .. Len(q) /\ q[j] # "&"
  <2>1. last \in Int /\ last <= Len(q) /\ i + f \in Int /\ i + f >= 1
    BY <1>1, <1>2, <1>4, <1>5
  <2>2. ASSUME NEW j \in i + f .. last
        PROVE  j \in 1 .. Len(q) /\ q[j] # "&"
    <3>1. j \in Int /\ i + f <= j /\ j <= last
      BY <2>1
    <3>2. j \in 1 .. Len(q) /\ j - i + 1 \in 1 .. Len(s) /\ i + (j - i + 1) - 1 = j
      BY <1>1, <1>2, <1>4, <2>1, <3>1
    <3>3. amp # 0 => j - i + 1 < amp
      BY <1>1, <1>4, <1>5, <3>1
    <3>4. s[j - i + 1] \notin {"&"}
      BY <1>5, <3>2, <3>3
    <3>5. s[j - i + 1] = q[j]
      BY <1>2, <3>2
    <3> QED
      BY <3>2, <3>4, <3>5
  <2> QED
    BY <2>1, <2>2
<1> HIDE DEF last
<1>7. /\ v \in Seq(Words)
      /\ Len(v) = IF i + f <= last THEN last - (i + f) + 1 ELSE 0
      /\ \A k \in 1 .. last - (i + f) + 1 : v[k] = q[i + f + k - 1]
  <2>1. \A j \in i + f .. last : q[j] \in Words
    BY <1>6
  <2> QED
    BY <1>6, <2>1, SubSeqProperties
<1> HIDE DEF v
<1>8. ASSUME NEW k \in 1 .. Len(v)
      PROVE  v[k] \notin {"SP", "\n", "\r\n", "&"}
  <2>1. k \in 1 .. last - (i + f) + 1 /\ i + f + k - 1 \in i + f .. last
    BY <1>6, <1>7
  <2>2. v[k] = q[i + f + k - 1] /\ q[i + f + k - 1] # "&" /\ q[i + f + k - 1] \notin Breaks
    BY <1>6, <1>7, <2>1
  <2> QED
    BY <2>2 DEF Breaks
<1> QED
  BY <1>3, <1>7, <1>8 DEF IsParam

LEMMA ParamRead ==
  ASSUME NEW q \in Seq(Words), \A j \in 1 .. Len(q) : q[j] \notin Breaks,
         NEW names, NULL \notin names, Param(q, names) # NULL
  PROVE  IsParam(Param(q, names))
<1> DEFINE starts == {i \in 1 .. Len(q) : (i = 1 \/ q[i - 1] = "&") /\ Name(q, i) \in names}
           last == CHOOSE i \in starts : \A j \in starts : j <= i
<1>1. starts # {} /\ Param(q, names) = Value(q, last)
  BY DEF Param
<1>2. \A i \in starts : i \in 1 .. Len(q) /\ Name(q, i) # NULL
  <2>1. \A i \in starts : i \in 1 .. Len(q) /\ Name(q, i) \in names
    OBVIOUS
  <2> QED
    BY <2>1
<1>3. Len(q) \in Nat /\ starts \in SUBSET (0 .. Len(q))
  OBVIOUS
<1> HIDE DEF starts
<1>4. last \in starts
  <2>1. PICK g \in starts : \A m \in starts : m <= g
    BY <1>1, <1>3, GreatestNatural
  <2> QED
    BY <2>1
<1> HIDE DEF last
<1>5. Find(From(q, last), {"="}) # 0
  BY <1>2, <1>4 DEF Name
<1> QED
  BY <1>1, <1>2, <1>4, <1>5, ValueIs

(* A URL, whatever has come, has no space and no newline in it.            *)
LEMMA UrlIs ==
  ASSUME NEW text \in Seq(Words)
  PROVE  Url(text) \in Seq(Words) /\ \A i \in 1 .. Len(Url(text)) : Url(text)[i] \notin Breaks
<1> DEFINE start == Find(text, {"SP"}) + 1
           rest == From(text, start)
           end == Find(rest, {"SP", "\n", "\r\n"})
           u == SubSeq(text, start, start + end - 2)
<1>1. Url(text) = IF start = 1 \/ start > Len(text) \/ end = 0 THEN << >> ELSE u
  BY DEF Url
<1>2. Len(text) \in Nat /\ start \in 1 .. Len(text) + 1
  <2>1. Len(text) \in Nat /\ Find(text, {"SP"}) \in 0 .. Len(text)
    BY FindIs
  <2> QED
    BY <2>1
<1> HIDE DEF start
<1>3. CASE Url(text) = << >>
  BY <1>3, EmptySeq
<1>4. CASE Url(text) # << >>
  <2>1. start <= Len(text) /\ end # 0 /\ Url(text) = u
    <3>1. ~(start > Len(text)) /\ end # 0 /\ Url(text) = u
      BY <1>1, <1>4, Zenon
    <3>2. start <= Len(text)
      <4>1. ~(start > Len(text)) /\ start \in Int /\ Len(text) \in Int
        BY <1>2, <3>1
      <4> QED
        BY <4>1
    <3> QED
      BY <3>1, <3>2
  <2>2. /\ rest \in Seq(Words) /\ Len(rest) = Len(text) + 1 - start
        /\ \A j \in 1 .. Len(text) + 1 - start : rest[j] = text[start + j - 1]
    BY <1>2, FromIs
  <2> HIDE DEF rest
  <2>3. end \in 1 .. Len(rest) /\ \A j \in 1 .. Len(rest) : j < end => rest[j] \notin Breaks
    <3>1. /\ end \in 0 .. Len(rest) /\ end # 0 /\ Len(rest) \in Nat
          /\ \A j \in 1 .. Len(rest) : j < end => rest[j] \notin {"SP", "\n", "\r\n"}
      BY <2>1, <2>2, FindIs
    <3> QED
      BY <3>1 DEF Breaks
  <2> HIDE DEF end
  <2>4. start \in 1 .. Len(text) + 1 /\ start + end - 2 \in start - 1 .. Len(text)
        /\ start + end - 2 + 1 - start = end - 1
    BY <1>2, <2>2, <2>3
  <2>5. /\ u \in Seq(Words) /\ Len(u) = end - 1
        /\ \A k \in 1 .. end - 1 : u[k] = text[start + k - 1]
    BY <2>4, PartIs
  <2>6. ASSUME NEW k \in 1 .. end - 1
        PROVE  u[k] \notin Breaks
    <3>1. k \in 1 .. Len(text) + 1 - start /\ k \in 1 .. Len(rest) /\ k < end
      BY <1>2, <2>2, <2>3
    <3> QED
      BY <2>2, <2>3, <2>5, <3>1
  <2> HIDE DEF u
  <2> QED
    BY <2>1, <2>5, <2>6
<1> QED
  BY <1>3, <1>4

(* Whatever a client has typed, what the leader takes for an operation can *)
(* be sent on as it is.                                                    *)
LEMMA AnyRequest ==
  ASSUME NEW text \in Seq(Words), kvrequest_recieve(text) # NULL
  PROVE  kvrequest_recieve(text).type \in {"GETREQ", "PUTREQ", "DELREQ"}
           => Sendable(kvrequest_recieve(text))
<1> DEFINE url == Url(text)
           p == url_decode(url)
           r == kvrequest_recieve(text)
           type == CASE text[1] = "GET" /\ p.key = NULL                           -> "INDEX"
                     [] text[1] = "GET" /\ p.key # NULL                           -> "GETREQ"
                     [] text[1] = "PUT" /\ p.key # NULL /\ p.val # NULL           -> "PUTREQ"
                     [] text[1] = "DELETE" /\ p.key # NULL                        -> "DELREQ"
                     [] text[1] = "POST" /\ p.path = <<"register">>
                          /\ p.key # NULL /\ p.val # NULL                         -> "REGISTER"
                     [] text[1] = "POST" /\ p.path = <<"commit">>                 -> "COMMIT"
                     [] text[1] = "POST" /\ p.path = <<"abort">>                  -> "ABORT"
                     [] OTHER                                                     -> "EMPTY"
           mark == Find(url, {"?"})
           query == IF mark = 0 THEN << >> ELSE From(url, mark + 1)
<1>1. r = kvrequest(type, p.key, p.val)
  BY DEF kvrequest_recieve
<1>2. url \in Seq(Words) /\ \A i \in 1 .. Len(url) : url[i] \notin Breaks
  BY UrlIs
<1> HIDE DEF url
<1>3. query \in Seq(Words) /\ \A i \in 1 .. Len(query) : query[i] \notin Breaks
  <2>1. CASE mark = 0
    BY <2>1, EmptySeq
  <2>2. CASE mark # 0
    <3>1. mark \in 0 .. Len(url) /\ Len(url) \in Nat
      BY <1>2, FindIs
    <3>2. mark + 1 \in 1 .. Len(url) + 1 /\ Len(url) + 1 - (mark + 1) = Len(url) - mark
      BY <3>1
    <3> HIDE DEF mark
    <3>3. /\ query \in Seq(Words) /\ Len(query) = Len(url) - mark
          /\ \A j \in 1 .. Len(url) - mark : query[j] = url[mark + 1 + j - 1]
      BY <1>2, <2>2, <3>2, FromIs
    <3> HIDE DEF query
    <3>4. \A j \in 1 .. Len(url) - mark : mark + 1 + j - 1 \in 1 .. Len(url)
      BY <3>1
    <3> QED
      BY <1>2, <3>3, <3>4
  <2> QED
    BY <2>1, <2>2
<1>4. p.key = Param(query, {<< >>, <<"key">>}) /\ p.val = Param(query, {<<"val">>})
  BY DEF url_decode
<1> HIDE DEF query
<1>5. NULL \notin {<< >>, <<"key">>} /\ NULL \notin {<<"val">>}
  <2>1. << >> \in Seq(Words) /\ <<"key">> \in Seq(Words) /\ <<"val">> \in Seq(Words)
    <3>1. "key" \in Words /\ "val" \in Words
      BY MessageAssumption DEF Marks
    <3> QED
      BY <3>1, EmptySeq
  <2> QED
    BY <2>1, MessageAssumption
<1>6. /\ p.key = NULL \/ IsParam(p.key)
      /\ p.val = NULL \/ IsParam(p.val)
  BY <1>3, <1>4, <1>5, ParamRead
<1> HIDE DEF p
<1>7. type \in {"GETREQ", "PUTREQ", "DELREQ"} => p.key # NULL
  OBVIOUS
<1> HIDE DEF type, r
<1>8. r.type = type /\ r.key = p.key /\ r.val = p.val
  BY <1>1 DEF kvrequest
<1>9. r = kvrequest(r.type, r.key, r.val)
  BY <1>1, <1>8
<1>10. r.type \in {"GETREQ", "PUTREQ", "DELREQ"} => Sendable(r)
  BY <1>6, <1>7, <1>8, <1>9 DEF Sendable
<1> QED
  BY <1>10 DEF r

(* What the sender of a leg has said, when some of it has come.            *)
LEMMA RequestSent ==
  ASSUME NEW r, Sendable(r)
  PROVE  kvrequest_send(r) \in Seq(Words)
<1> DEFINE u == url_encode(Path(r.type), r.key, r.val)
<1>1. RequestOf(kvrequest_send(r), Method[r.type], u)
  BY RequestIs
<1> QED
  BY <1>1 DEF RequestOf

LEMMA CutShort ==
  ASSUME NEW w \in Seq(Words), NEW o \in Seq(Words), NEW t \in Seq(Words), IsPrefix(w \o o, t)
  PROVE  IsPrefix(w, t) /\ IsPrefix(w \o << >>, t)
<1>1. Len(w) \in Nat /\ Len(o) \in Nat /\ Len(t) \in Nat
  BY LenProperties
<1>2. /\ w \o o \in Seq(Words) /\ Len(w \o o) = Len(w) + Len(o)
      /\ \A i \in 1 .. Len(w) : (w \o o)[i] = w[i]
  BY JoinParts
<1>3. Len(w \o o) <= Len(t) /\ \A i \in 1 .. Len(w \o o) : (w \o o)[i] = t[i]
  BY <1>2, PrefixByWords
<1>4. Len(w) <= Len(t) /\ \A i \in 1 .. Len(w) : w[i] = t[i]
  BY <1>1, <1>2, <1>3
<1>5. IsPrefix(w, t)
  BY <1>4, PrefixByWords
<1>6. w \o << >> = w
  BY ConcatEmptySeq
<1> QED
  BY <1>5, <1>6

LEMMA WriteMoves ==
  ASSUME NEW w \in Seq(Words), NEW o \in Seq(Words), NEW n \in 1 .. Len(o)
  PROVE  /\ w \o SubSeq(o, 1, n) \in Seq(Words) /\ From(o, n + 1) \in Seq(Words)
         /\ (w \o SubSeq(o, 1, n)) \o From(o, n + 1) = w \o o
<1>1. Len(o) \in Nat /\ 1 \in 1 .. Len(o) + 1 /\ n \in 1 - 1 .. Len(o) /\ n + 1 \in 1 .. Len(o) + 1
  BY LenProperties
<1>2. SubSeq(o, 1, n) \in Seq(Words) /\ From(o, n + 1) \in Seq(Words)
  BY <1>1, PartIs, FromIs
<1>3. SubSeq(o, 1, n) \o From(o, n + 1) = o
  <2>1. SubSeq(o, 1, n) \o SubSeq(o, n + 1, Len(o)) = SubSeq(o, 1, Len(o))
    BY <1>1, ConcatAdjacentSubSeq
  <2>2. SubSeq(o, 1, Len(o)) = o
    BY SubSeqFull
  <2> QED
    BY <2>1, <2>2 DEF From
<1>4. (w \o SubSeq(o, 1, n)) \o From(o, n + 1) = w \o (SubSeq(o, 1, n) \o From(o, n + 1))
  <2>1. PICK a \in Seq(Words) : a = SubSeq(o, 1, n)
    BY <1>2
  <2>2. PICK b \in Seq(Words) : b = From(o, n + 1)
    BY <1>2
  <2>3. (w \o a) \o b = w \o (a \o b)
    <3>1. w \in Seq(Words) /\ a \in Seq(Words) /\ b \in Seq(Words)
      OBVIOUS
    <3> QED
      BY ONLY <3>1, JoinsAre
  <2> QED
    BY <2>1, <2>2, <2>3
<1>5. w \o SubSeq(o, 1, n) \in Seq(Words)
  BY <1>2, JoinIs
<1> QED
  BY <1>2, <1>3, <1>4, <1>5, Zenon

LEMMA AllToSend ==
  ASSUME NEW t \in Seq(Words)
  PROVE  << >> \in Seq(Words) /\ IsPrefix(<< >> \o t, t)
<1>1. << >> \in Seq(Words) /\ << >> \o t = t
  BY EmptySeq, ConcatEmptySeq
<1>2. Len(t) \in Nat
  BY LenProperties
<1>3. IsPrefix(t, t)
  BY <1>2, PrefixByWords
<1> QED
  BY <1>1, <1>3

(* The two bodies of a vote: no part of a reason is the word to commit.    *)
LEMMA VoteBodies ==
  /\ Agree \in Seq(Words) /\ Reason \in Seq(Words)
  /\ ~IsPrefix(Agree, Reason)
<1>1. Agree \in Seq(Words) /\ Reason \in Seq(Words)
  <2>1. \A a, b \in Words : <<a, b>> \in Seq(Words)
    OBVIOUS
  <2>2. {"com", "mit", "error", "reason"} \subseteq Words
    BY MessageAssumption DEF Marks
  <2> QED
    BY <2>1, <2>2 DEF Agree, Reason
<1>2. Agree[1] = "com" /\ Reason[1] = "error" /\ Len(Agree) = 2
  BY DEF Agree, Reason
<1>3. 1 \in 1 .. Len(Agree)
  BY <1>2
<1>4. Agree[1] # Reason[1]
  BY <1>2
<1> QED
  BY <1>1, <1>3, <1>4, PrefixByWords

LEMMA AnswersAre ==
  ASSUME NEW r,
         r = NULL \/ r.type \in {"GETREQ", "PUTREQ", "DELREQ", "COMMIT", "ABORT"}
  PROVE  /\ Answers(r) \subseteq Responses
         /\ r = NULL \/ r.type \in {"PUTREQ", "DELREQ"} =>
              \A v \in Answers(r) : v = kvresponse("VOTE", Agree) \/ v.body = Reason
<1>1. \A type \in DOMAIN Code : \A body \in Seq(Words) \cup {NULL} :
        /\ kvresponse(type, body) \in Responses
        /\ kvresponse(type, body).body = body
  BY DEF kvresponse, Responses
<1>2. {"GETRESP", "SUCCESS", "ERROR", "VOTE", "ACK"} \subseteq DOMAIN Code
  BY CodeIs
<1>3. Bodies \subseteq Seq(Words)
  BY MessageAssumption
<1>4. /\ kvresponse("ERROR", Reason) \in Responses /\ kvresponse("ERROR", Reason).body = Reason
      /\ kvresponse("VOTE", Agree) \in Responses
      /\ kvresponse("VOTE", Reason) \in Responses /\ kvresponse("VOTE", Reason).body = Reason
      /\ kvresponse("ACK", NULL) \in Responses
      /\ \A b \in Bodies : kvresponse("GETRESP", b) \in Responses
  BY <1>1, <1>2, <1>3, VoteBodies
<1> HIDE DEF kvresponse
<1>5. CASE r = NULL
  BY <1>4, <1>5 DEF Answers
<1>6. CASE r # NULL /\ r.type = "GETREQ"
  BY <1>4, <1>6 DEF Answers
<1>7. CASE r # NULL /\ r.type \in {"PUTREQ", "DELREQ"}
  BY <1>4, <1>7 DEF Answers
<1>8. CASE r # NULL /\ r.type \in {"COMMIT", "ABORT"}
  BY <1>4, <1>8 DEF Answers
<1> QED
  BY <1>5, <1>6, <1>7, <1>8

LEMMA DecisionIs ==
  ASSUME NEW d, d = kvrequest("COMMIT", NULL, NULL) \/ d = kvrequest("ABORT", NULL, NULL)
  PROVE  Sendable(d) /\ d.type \in {"COMMIT", "ABORT"}
BY DEF Sendable, kvrequest

(* A request that a client means can be sent, and read by the leader.      *)
LEMMA MeantIs ==
  ASSUME NEW r \in Meant
  PROVE  Sendable(r)
BY MessageAssumption DEF Sendable

-----------------------------------------------------------------------------
(* The invariant.  What is on the wire and what is still to be sent are,   *)
(* in this order, the text of the leg or, when it was cut, a part of it.   *)
OnTheWire ==
  /\ wire \in Seq(Words) /\ out \in Seq(Words)
  /\ leg = "request" /\ meant # NULL => IsPrefix(wire \o out, kvrequest_send(meant))
  /\ leg = "op" => IsPrefix(wire \o out, kvrequest_send(lreq))
  /\ leg = "decision" => IsPrefix(wire \o out, kvrequest_send(Decision))
  /\ leg \in {"vote", "ack", "answer"} =>
       sent \in Responses /\ IsPrefix(wire \o out, kvresponse_send(sent))

(* What has been decoded, answered and decided when a leg begins.          *)
SoFar ==
  /\ meant = NULL \/ meant \in Meant
  /\ is_commit \in BOOLEAN
  /\ leg = "request" => lreq = NULL /\ freq = NULL /\ sent = NULL /\ rcvd = NULL
  /\ leg \in {"request", "op", "vote"} => ~is_commit
  /\ leg \in {"op", "vote"} => Sendable(lreq) /\ lreq.type \in {"GETREQ", "PUTREQ", "DELREQ"}
  /\ leg = "vote" => vote = sent /\ sent \in Answers(freq)

MessageInv == OnTheWire /\ SoFar /\ RequestIntact /\ CommitWasVoted /\ ResponseIsPrefix

LEMMA MessageInit == Init => MessageInv
<1> SUFFICES ASSUME Init PROVE MessageInv
  OBVIOUS
<1>1. /\ leg = "request" /\ wire = << >> /\ lreq = NULL /\ freq = NULL
      /\ sent = NULL /\ rcvd = NULL /\ vote = NULL /\ is_commit = FALSE
  BY DEF Init
<1>2. OnTheWire
  <2>1. CASE meant \in Meant /\ out = kvrequest_send(meant)
    <3>1. PICK t : t = kvrequest_send(meant) /\ out = t
      BY <2>1
    <3>2. t \in Seq(Words)
      BY <2>1, <3>1, MeantIs, RequestSent
    <3>3. << >> \in Seq(Words) /\ IsPrefix(<< >> \o t, t)
      BY <3>2, AllToSend
    <3> QED
      BY <1>1, <3>1, <3>2, <3>3 DEF OnTheWire
  <2>2. CASE meant = NULL /\ out \in Typed
    BY <1>1, <2>2, EmptySeq, MessageAssumption DEF OnTheWire
  <2> QED
    BY <2>1, <2>2 DEF Init
<1>3. SoFar
  BY <1>1 DEF SoFar, Init
<1>4. RequestIntact /\ CommitWasVoted /\ ResponseIsPrefix
  BY <1>1 DEF RequestIntact, CommitWasVoted, ResponseIsPrefix
<1> QED
  BY <1>2, <1>3, <1>4 DEF MessageInv

(* Writing, and being cut off, leave on the wire a part of what was said.  *)
LEMMA WireInv ==
  ASSUME MessageInv, Write \/ Cut
  PROVE  MessageInv'
<1>1. UNCHANGED <<leg, meant, lreq, freq, sent, rcvd, vote, is_commit>>
  BY DEF Write, Cut
<1>2. wire \in Seq(Words) /\ out \in Seq(Words)
  BY DEF MessageInv, OnTheWire
<1>3. /\ wire' \in Seq(Words) /\ out' \in Seq(Words)
      /\ \A t \in Seq(Words) : IsPrefix(wire \o out, t) => IsPrefix(wire' \o out', t)
  <2>1. PICK w \in Seq(Words) : w = wire
    BY <1>2
  <2>2. PICK o \in Seq(Words) : o = out
    BY <1>2
  <2>3. CASE Write
    <3>1. PICK n \in 1 .. Len(out) : wire' = wire \o SubSeq(out, 1, n) /\ out' = From(out, n + 1)
      BY <2>3 DEF Write
    <3>2. PICK v : v = w \o SubSeq(o, 1, n)
      OBVIOUS
    <3>3. PICK p : p = From(o, n + 1)
      OBVIOUS
    <3>4. n \in 1 .. Len(o) /\ wire' = v /\ out' = p
      BY <2>1, <2>2, <3>1, <3>2, <3>3
    <3>5. v \in Seq(Words) /\ p \in Seq(Words) /\ v \o p = w \o o
      BY <3>2, <3>3, <3>4, WriteMoves
    <3> QED
      BY <2>1, <2>2, <3>4, <3>5
  <2>4. CASE Cut
    <3>1. wire' = w /\ out' = << >>
      BY <2>1, <2>4 DEF Cut
    <3>2. << >> \in Seq(Words)
      BY EmptySeq
    <3>3. ASSUME NEW t \in Seq(Words), IsPrefix(w \o o, t)
          PROVE  IsPrefix(w \o << >>, t)
      BY <3>3, CutShort
    <3> QED
      BY <2>1, <2>2, <3>1, <3>2, <3>3
  <2> QED
    BY <2>3, <2>4
<1>4. /\ meant # NULL => kvrequest_send(meant) \in Seq(Words)
      /\ leg = "op" => kvrequest_send(lreq) \in Seq(Words)
      /\ kvrequest_send(Decision) \in Seq(Words)
      /\ sent \in Responses => kvresponse_send(sent) \in Seq(Words)
  <2>1. meant # NULL => Sendable(meant)
    BY MeantIs DEF MessageInv, SoFar
  <2>2. leg = "op" => Sendable(lreq)
    BY DEF MessageInv, SoFar
  <2>3. Sendable(Decision)
    BY DecisionIs DEF Decision
  <2> QED
    BY <2>1, <2>2, <2>3, RequestSent, ResponseText
<1>5. Decision' = Decision
  BY <1>1 DEF Decision
<1>6. OnTheWire'
  BY <1>1, <1>3, <1>4, <1>5 DEF MessageInv, OnTheWire
<1>7. SoFar' /\ RequestIntact' /\ CommitWasVoted' /\ ResponseIsPrefix'
  BY <1>1, <1>5 DEF MessageInv, SoFar, RequestIntact, CommitWasVoted, ResponseIsPrefix
<1> QED
  BY <1>6, <1>7 DEF MessageInv

(* What a reader finds on the wire is a part of what was said on the leg.  *)
LEMMA Heard ==
  ASSUME MessageInv
  PROVE  /\ wire \in Seq(Words)
         /\ leg = "request" /\ meant # NULL => IsPrefix(wire, kvrequest_send(meant))
         /\ leg = "op" => IsPrefix(wire, kvrequest_send(lreq))
         /\ leg = "decision" => IsPrefix(wire, kvrequest_send(Decision))
         /\ leg \in {"vote", "ack", "answer"} =>
              sent \in Responses /\ IsPrefix(wire, kvresponse_send(sent))
<1>1. wire \in Seq(Words) /\ out \in Seq(Words)
  BY DEF MessageInv, OnTheWire
<1>2. PICK w \in Seq(Words) : w = wire
  BY <1>1
<1>3. PICK o \in Seq(Words) : o = out
  BY <1>1
<1>4. \A t \in Seq(Words) : IsPrefix(w \o o, t) => IsPrefix(w, t)
  BY CutShort
<1>5. \A t \in Seq(Words) : IsPrefix(wire \o out, t) => IsPrefix(wire, t)
  BY <1>2, <1>3, <1>4
<1>6. /\ meant # NULL => kvrequest_send(meant) \in Seq(Words)
      /\ leg = "op" => kvrequest_send(lreq) \in Seq(Words)
      /\ kvrequest_send(Decision) \in Seq(Words)
      /\ sent \in Responses => kvresponse_send(sent) \in Seq(Words)
  <2>1. meant # NULL => Sendable(meant)
    BY MeantIs DEF MessageInv, SoFar
  <2>2. leg = "op" => Sendable(lreq)
    BY DEF MessageInv, SoFar
  <2>3. Sendable(Decision)
    BY DecisionIs DEF Decision
  <2> QED
    BY <2>1, <2>2, <2>3, RequestSent, ResponseText
<1> QED
  BY <1>1, <1>5, <1>6 DEF MessageInv, OnTheWire

(* The next leg begins with all of its text to send.                       *)
LEMMA RequestLeg ==
  ASSUME NEW r, Sendable(r), NEW l, Send(l, kvrequest_send(r))
  PROVE  /\ leg' = l /\ wire' \in Seq(Words) /\ out' \in Seq(Words)
         /\ IsPrefix(wire' \o out', kvrequest_send(r))
<1>1. kvrequest_send(r) \in Seq(Words)
  BY RequestSent
<1> QED
  BY <1>1, AllToSend DEF Send

LEMMA ResponseLeg ==
  ASSUME NEW r \in Responses, NEW l, Send(l, kvresponse_send(r))
  PROVE  /\ leg' = l /\ wire' \in Seq(Words) /\ out' \in Seq(Words)
         /\ IsPrefix(wire' \o out', kvresponse_send(r))
<1>1. kvresponse_send(r) \in Seq(Words)
  BY ResponseText
<1> QED
  BY <1>1, AllToSend DEF Send

LEMMA NoLeg ==
  ASSUME NEW l, Stop(l)
  PROVE  leg' = l /\ wire' \in Seq(Words) /\ out' \in Seq(Words)
BY EmptySeq DEF Stop

(* tpcleader_handle reads the request as it was meant, and what it passes  *)
(* on, meant or typed, the follower can read as the leader has read it.    *)
LEMMA LeaderReadsInv ==
  ASSUME MessageInv, LeaderReads
  PROVE  MessageInv'
<1>1. /\ leg = "request" /\ wire \in Seq(Words)
      /\ lreq' = (IF wire = << >> THEN NULL ELSE kvrequest_recieve(wire))
      /\ freq = NULL /\ sent = NULL /\ rcvd = NULL /\ ~is_commit
      /\ UNCHANGED <<meant, freq, rcvd, vote, is_commit>>
  BY DEF MessageInv, OnTheWire, SoFar, LeaderReads, Arrived
<1>2. meant # NULL => lreq' \in {NULL, meant}
  <2>1. meant # NULL => Sendable(meant) /\ IsPrefix(wire, kvrequest_send(meant))
    BY <1>1, MeantIs, Heard DEF MessageInv, SoFar
  <2>2. PICK w \in Seq(Words) : w = wire
    BY <1>1
  <2>3. PICK r : r = meant
    OBVIOUS
  <2>4. r # NULL /\ w # << >> => kvrequest_recieve(w) \in {NULL, r}
    BY <2>1, <2>2, <2>3, RequestRead
  <2> QED
    BY <1>1, <2>2, <2>3, <2>4
<1>3. lreq' # NULL /\ lreq'.type \in {"GETREQ", "PUTREQ", "DELREQ"} => Sendable(lreq')
  <2>1. PICK w \in Seq(Words) : w = wire
    BY <1>1
  <2>2. PICK r : r = kvrequest_recieve(w)
    OBVIOUS
  <2>3. r # NULL /\ r.type \in {"GETREQ", "PUTREQ", "DELREQ"} => Sendable(r)
    BY <2>2, AnyRequest
  <2>4. lreq' \in {NULL, r}
    BY <1>1, <2>1, <2>2
  <2> QED
    BY <2>3, <2>4
<1>4. ASSUME Stop("dead") \/ Stop("done"), UNCHANGED sent
      PROVE  MessageInv'
  <2>1. leg' \in {"dead", "done"} /\ wire' \in Seq(Words) /\ out' \in Seq(Words)
    BY <1>4, NoLeg
  <2>2. OnTheWire'
    BY <2>1 DEF OnTheWire
  <2>3. SoFar'
    BY <1>1, <2>1 DEF MessageInv, SoFar
  <2>4. RequestIntact' /\ CommitWasVoted' /\ ResponseIsPrefix'
    BY <1>1, <1>2, <1>4, <2>1 DEF RequestIntact, CommitWasVoted, ResponseIsPrefix
  <2> QED
    BY <2>2, <2>3, <2>4 DEF MessageInv
<1>5. ASSUME sent' \in {kvresponse("ERROR", Reason), kvresponse("SUCCESS", NULL)},
             Send("answer", kvresponse_send(sent'))
      PROVE  MessageInv'
  <2>1. PICK r : r = sent'
    OBVIOUS
  <2>2. r \in Responses
    BY <1>5, <2>1, CodeIs, VoteBodies DEF Responses, kvresponse
  <2>3. Send("answer", kvresponse_send(r))
    BY <1>5, <2>1
  <2>4. /\ leg' = "answer" /\ wire' \in Seq(Words) /\ out' \in Seq(Words)
        /\ IsPrefix(wire' \o out', kvresponse_send(r))
    BY <2>2, <2>3, ResponseLeg
  <2>5. OnTheWire'
    BY <2>1, <2>2, <2>4 DEF OnTheWire
  <2>6. SoFar'
    BY <1>1, <2>4 DEF MessageInv, SoFar
  <2>7. RequestIntact' /\ CommitWasVoted' /\ ResponseIsPrefix'
    BY <1>1, <1>2, <2>4 DEF RequestIntact, CommitWasVoted, ResponseIsPrefix
  <2> QED
    BY <2>5, <2>6, <2>7 DEF MessageInv
<1>6. ASSUME lreq' # NULL, lreq'.type \in {"GETREQ", "PUTREQ", "DELREQ"},
             Send("op", kvrequest_send(lreq')), UNCHANGED sent
      PROVE  MessageInv'
  <2>1. PICK r : r = lreq'
    OBVIOUS
  <2>2. Sendable(r) /\ Send("op", kvrequest_send(r))
    BY <1>3, <1>6, <2>1
  <2>3. /\ leg' = "op" /\ wire' \in Seq(Words) /\ out' \in Seq(Words)
        /\ IsPrefix(wire' \o out', kvrequest_send(r))
    BY <2>2, RequestLeg
  <2>4. OnTheWire'
    BY <2>1, <2>3 DEF OnTheWire
  <2>5. SoFar'
    BY <1>1, <1>3, <1>6, <2>3 DEF MessageInv, SoFar
  <2>6. RequestIntact' /\ CommitWasVoted' /\ ResponseIsPrefix'
    BY <1>1, <1>2, <2>3 DEF RequestIntact, CommitWasVoted, ResponseIsPrefix
  <2> QED
    BY <2>4, <2>5, <2>6 DEF MessageInv
<1>7. \/ (Stop("dead") \/ Stop("done")) /\ UNCHANGED sent
      \/ /\ sent' \in {kvresponse("ERROR", Reason), kvresponse("SUCCESS", NULL)}
         /\ Send("answer", kvresponse_send(sent'))
      \/ /\ lreq' # NULL /\ lreq'.type \in {"GETREQ", "PUTREQ", "DELREQ"}
         /\ Send("op", kvrequest_send(lreq')) /\ UNCHANGED sent
  <2>1. CASE lreq' = NULL /\ Stop("dead") /\ UNCHANGED sent
    BY <2>1
  <2>2. CASE Stop("done") /\ UNCHANGED sent
    BY <2>2
  <2>3. CASE /\ sent' \in {kvresponse("ERROR", Reason)}
                  \cup (IF lreq'.type = "REGISTER" THEN {kvresponse("SUCCESS", NULL)} ELSE {})
             /\ Send("answer", kvresponse_send(sent'))
    BY <2>3
  <2>4. CASE /\ lreq' # NULL /\ lreq'.type \in {"GETREQ", "PUTREQ", "DELREQ"}
             /\ \/ Send("op", kvrequest_send(lreq'))
                \/ Overflows(lreq') /\ Stop("dead")
             /\ UNCHANGED sent
    BY <2>4
  <2> QED
    BY <2>1, <2>2, <2>3, <2>4 DEF LeaderReads
<1> QED
  BY <1>4, <1>5, <1>6, <1>7

(* kvserver_handle reads the request or the decision as it was sent, or    *)
(* nothing, and answers what it has read.                                  *)
LEMMA FollowerReadsInv ==
  ASSUME MessageInv, FollowerReads
  PROVE  MessageInv'
<1>1. /\ leg \in {"op", "decision"} /\ wire \in Seq(Words)
      /\ freq' = (IF wire = << >> THEN NULL ELSE kvrequest_recieve(wire))
      /\ sent' \in Answers(freq')
      /\ vote' = IF leg = "op" THEN sent' ELSE vote
      /\ Send(IF leg = "op" THEN "vote" ELSE "ack", kvresponse_send(sent'))
      /\ UNCHANGED <<meant, lreq, rcvd, is_commit>>
  BY DEF MessageInv, OnTheWire, FollowerReads, Arrived
<1>2. PICK r : r = (IF leg = "op" THEN lreq ELSE Decision)
  OBVIOUS
<1>3. /\ Sendable(r) /\ r.type \in {"GETREQ", "PUTREQ", "DELREQ", "COMMIT", "ABORT"}
      /\ IsPrefix(wire, kvrequest_send(r))
  <2>1. CASE leg = "op"
    BY <1>2, <2>1, Heard DEF MessageInv, SoFar
  <2>2. CASE leg = "decision"
    <3>1. Sendable(Decision) /\ Decision.type \in {"COMMIT", "ABORT"}
      BY DecisionIs DEF Decision
    <3> QED
      BY <1>2, <2>2, <3>1, Heard
  <2> QED
    BY <1>1, <2>1, <2>2
<1>4. freq' \in {NULL, r}
  <2>1. PICK w \in Seq(Words) : w = wire
    BY <1>1
  <2>2. w # << >> => kvrequest_recieve(w) \in {NULL, r}
    BY <1>3, <2>1, RequestRead
  <2> QED
    BY <1>1, <2>1, <2>2
<1>5. PICK s : s = sent'
  OBVIOUS
<1>6. s \in Responses
  <2>1. \A f \in {NULL, r} : Answers(f) \subseteq Responses
    BY <1>3, AnswersAre
  <2> QED
    BY <1>1, <1>4, <1>5, <2>1
<1>7. /\ leg' = IF leg = "op" THEN "vote" ELSE "ack"
      /\ wire' \in Seq(Words) /\ out' \in Seq(Words)
      /\ IsPrefix(wire' \o out', kvresponse_send(s))
  <2>1. PICK l : l = IF leg = "op" THEN "vote" ELSE "ack"
    OBVIOUS
  <2>2. Send(l, kvresponse_send(s))
    BY <1>1, <1>5, <2>1
  <2>3. /\ leg' = l /\ wire' \in Seq(Words) /\ out' \in Seq(Words)
        /\ IsPrefix(wire' \o out', kvresponse_send(s))
    BY <1>6, <2>2, ResponseLeg
  <2> QED
    BY <2>1, <2>3
<1>8. OnTheWire'
  BY <1>1, <1>5, <1>6, <1>7 DEF OnTheWire
<1>9. SoFar'
  <2>1. CASE leg = "op"
    BY <1>1, <1>7, <2>1 DEF MessageInv, SoFar
  <2>2. CASE leg = "decision"
    BY <1>1, <1>7, <2>2 DEF MessageInv, SoFar
  <2> QED
    BY <1>1, <2>1, <2>2
<1>10. RequestIntact'
  <2>1. Decision' = Decision
    BY <1>1 DEF Decision
  <2> QED
    BY <1>1, <1>2, <1>4, <1>7, <2>1 DEF MessageInv, RequestIntact
<1>11. CommitWasVoted' /\ ResponseIsPrefix'
  <2>1. leg = "op" => ~is_commit
    BY DEF MessageInv, SoFar
  <2> QED
    BY <1>1, <1>7, <2>1 DEF MessageInv, CommitWasVoted, ResponseIsPrefix
<1> QED
  BY <1>8, <1>9, <1>10, <1>11 DEF MessageInv

(* What is read of a response says nothing that was not said.              *)
LEMMA ResponseHeard ==
  ASSUME MessageInv, leg \in {"vote", "ack", "answer"}, NEW a, a = kvresponse_recieve(wire),
         a # NULL
  PROVE  /\ a \in Responses /\ a.body \in Seq(Words)
         /\ a.type = sent.type /\ IsPrefix(a.body, NoBody(sent.body))
<1>1. wire \in Seq(Words) /\ sent \in Responses /\ IsPrefix(wire, kvresponse_send(sent))
  BY Heard
<1>2. PICK w \in Seq(Words) : w = wire
  BY <1>1
<1>3. PICK s \in Responses : s = sent
  BY <1>1
<1>4. IsPrefix(w, kvresponse_send(s)) /\ a = kvresponse_recieve(w)
  BY <1>1, <1>2, <1>3
<1>5. /\ a \in Responses /\ a.body \in Seq(Words)
      /\ a.type = s.type /\ IsPrefix(a.body, NoBody(s.body))
  BY <1>4, ResponseRead
<1> QED
  BY <1>3, <1>5

(* A vote that the leader takes for a vote to commit is one.               *)
LEMMA AgreedVote ==
  ASSUME MessageInv, leg = "vote", lreq.type # "GETREQ", Agreed(kvresponse_recieve(wire))
  PROVE  vote = kvresponse("VOTE", Agree)
<1>1. PICK a : a = kvresponse_recieve(wire)
  OBVIOUS
<1>2. a # NULL /\ a.body = Agree
  BY <1>1 DEF Agreed
<1>3. IsPrefix(Agree, NoBody(vote.body)) /\ vote \in Answers(freq)
  <2>1. IsPrefix(a.body, NoBody(sent.body))
    BY <1>1, <1>2, ResponseHeard
  <2>2. vote = sent /\ sent \in Answers(freq)
    BY DEF MessageInv, SoFar
  <2> QED
    BY <1>2, <2>1, <2>2
<1>4. \/ freq = NULL
      \/ Sendable(freq) /\ freq.type \in {"PUTREQ", "DELREQ"}
  BY DEF MessageInv, SoFar, RequestIntact
<1>5. PICK f : f = freq
  OBVIOUS
<1>6. vote = kvresponse("VOTE", Agree) \/ vote.body = Reason
  <2>1. \A v \in Answers(f) : v = kvresponse("VOTE", Agree) \/ v.body = Reason
    BY <1>4, <1>5, AnswersAre
  <2> QED
    BY <1>3, <1>5, <2>1
<1>7. Reason # NULL
  BY VoteBodies, MessageAssumption
<1>8. vote.body # Reason
  BY <1>3, <1>7, VoteBodies DEF NoBody
<1> QED
  BY <1>6, <1>8

(* The leader answers the client, or goes on with the transaction.         *)
LEMMA LeaderHearsInv ==
  ASSUME MessageInv, LeaderHears
  PROVE  MessageInv'
<1>1. /\ leg \in {"vote", "ack"}
      /\ rcvd' = kvresponse_recieve(wire)
      /\ UNCHANGED <<meant, lreq, freq, vote>>
  BY DEF LeaderHears, Arrived
<1>2. PICK a : a = rcvd'
  OBVIOUS
<1>3. a # NULL => /\ a \in Responses /\ a.type = sent.type
                  /\ IsPrefix(a.body, NoBody(sent.body))
  BY <1>1, <1>2, ResponseHeard
<1>4. is_commit' \in BOOLEAN /\ CommitWasVoted'
  <2>1. CASE UNCHANGED is_commit
    BY <1>1, <2>1 DEF MessageInv, SoFar, CommitWasVoted
  <2>2. CASE leg = "vote" /\ lreq.type # "GETREQ" /\ is_commit' = Agreed(rcvd')
    <3>1. is_commit' \in BOOLEAN
      BY <2>2 DEF Agreed
    <3>2. is_commit' => vote = kvresponse("VOTE", Agree)
      BY <1>1, <2>2, AgreedVote
    <3> QED
      BY <1>1, <3>1, <3>2 DEF CommitWasVoted
  <2> QED
    BY <2>1, <2>2 DEF LeaderHears
<1>5. meant # NULL /\ lreq # NULL => lreq = meant
  BY DEF MessageInv, RequestIntact
<1>6. ASSUME Stop("dead")
      PROVE  MessageInv'
  <2>1. leg' = "dead" /\ wire' \in Seq(Words) /\ out' \in Seq(Words)
    BY <1>6, NoLeg
  <2>2. OnTheWire'
    BY <2>1 DEF OnTheWire
  <2>3. SoFar'
    BY <1>1, <1>4, <2>1 DEF MessageInv, SoFar
  <2>4. RequestIntact' /\ ResponseIsPrefix'
    BY <1>1, <1>5, <2>1 DEF RequestIntact, ResponseIsPrefix
  <2> QED
    BY <1>4, <2>2, <2>3, <2>4 DEF MessageInv
<1>7. ASSUME sent' \in Responses, Send("answer", kvresponse_send(sent'))
      PROVE  MessageInv'
  <2>1. PICK s \in Responses : s = sent'
    BY <1>7
  <2>2. Send("answer", kvresponse_send(s))
    BY <1>7, <2>1
  <2>3. /\ leg' = "answer" /\ wire' \in Seq(Words) /\ out' \in Seq(Words)
        /\ IsPrefix(wire' \o out', kvresponse_send(s))
    BY <2>2, ResponseLeg
  <2>4. OnTheWire'
    BY <2>1, <2>3 DEF OnTheWire
  <2>5. SoFar'
    BY <1>1, <1>4, <2>3 DEF MessageInv, SoFar
  <2>6. RequestIntact' /\ ResponseIsPrefix'
    BY <1>1, <1>5, <2>3 DEF RequestIntact, ResponseIsPrefix
  <2> QED
    BY <1>4, <2>4, <2>5, <2>6 DEF MessageInv
<1>8. ASSUME Send("decision", kvrequest_send(Decision')), UNCHANGED sent
      PROVE  MessageInv'
  <2>1. PICK d : d = Decision'
    OBVIOUS
  <2>2. d = kvrequest("COMMIT", NULL, NULL) \/ d = kvrequest("ABORT", NULL, NULL)
    BY <2>1 DEF Decision
  <2>3. Sendable(d) /\ Send("decision", kvrequest_send(d))
    BY <1>8, <2>1, <2>2, DecisionIs
  <2>4. /\ leg' = "decision" /\ wire' \in Seq(Words) /\ out' \in Seq(Words)
        /\ IsPrefix(wire' \o out', kvrequest_send(d))
    BY <2>3, RequestLeg
  <2>5. OnTheWire'
    BY <2>1, <2>4 DEF OnTheWire
  <2>6. SoFar'
    BY <1>1, <1>4, <2>4 DEF MessageInv, SoFar
  <2>7. RequestIntact' /\ ResponseIsPrefix'
    BY <1>1, <1>2, <1>3, <1>5, <1>8, <2>4 DEF RequestIntact, ResponseIsPrefix
  <2> QED
    BY <1>4, <2>5, <2>6, <2>7 DEF MessageInv
<1>9. /\ kvresponse("ERROR", Reason) \in Responses
      /\ kvresponse("SUCCESS", NULL) \in Responses
  BY CodeIs, VoteBodies DEF Responses, kvresponse
<1>10. CASE leg = "vote" /\ lreq.type = "GETREQ"
  <2>1. CASE Stop("dead")
    BY <1>6, <2>1
  <2>2. CASE /\ rcvd' # NULL
             /\ sent' = IF rcvd'.type = "GETRESP" THEN rcvd' ELSE kvresponse("ERROR", Reason)
             /\ Send("answer", kvresponse_send(sent'))
    <3>1. sent' \in Responses
      BY <1>2, <1>3, <1>9, <2>2
    <3> QED
      BY <1>7, <2>2, <3>1
  <2> QED
    BY <1>10, <2>1, <2>2 DEF LeaderHears
<1>11. CASE leg = "vote" /\ lreq.type # "GETREQ"
  BY <1>8, <1>11 DEF LeaderHears
<1>12. CASE leg = "ack"
  <2>1. UNCHANGED is_commit
    BY <1>12 DEF LeaderHears
  <2>2. CASE /\ sent' = IF is_commit THEN kvresponse("SUCCESS", NULL)
                                     ELSE kvresponse("ERROR", Reason)
             /\ Send("answer", kvresponse_send(sent'))
    <3>1. sent' \in Responses
      BY <1>9, <2>2
    <3> QED
      BY <1>7, <2>2, <3>1
  <2>3. CASE Send("decision", kvrequest_send(Decision)) /\ UNCHANGED sent
    <3>1. Decision' = Decision
      BY <2>1 DEF Decision
    <3> QED
      BY <1>8, <2>3, <3>1
  <2> QED
    BY <1>12, <2>2, <2>3 DEF LeaderHears
<1> QED
  BY <1>1, <1>10, <1>11, <1>12

LEMMA ClientHearsInv ==
  ASSUME MessageInv, ClientHears
  PROVE  MessageInv'
<1>1. /\ leg = "answer" /\ rcvd' = kvresponse_recieve(wire) /\ Stop("done")
      /\ UNCHANGED <<meant, lreq, freq, sent, vote, is_commit>>
  BY DEF ClientHears, Arrived
<1>2. leg' = "done" /\ wire' \in Seq(Words) /\ out' \in Seq(Words)
  BY <1>1, NoLeg
<1>3. PICK a : a = rcvd'
  OBVIOUS
<1>4. a # NULL => a.type = sent.type /\ IsPrefix(a.body, NoBody(sent.body))
  BY <1>1, <1>3, ResponseHeard
<1>5. OnTheWire' /\ SoFar'
  BY <1>1, <1>2 DEF MessageInv, OnTheWire, SoFar
<1>6. RequestIntact' /\ CommitWasVoted' /\ ResponseIsPrefix'
  BY <1>1, <1>2, <1>3, <1>4 DEF MessageInv, RequestIntact, CommitWasVoted, ResponseIsPrefix
<1> QED
  BY <1>5, <1>6 DEF MessageInv

LEMMA MessageNext ==
  ASSUME MessageInv, [Next]_vars
  PROVE  MessageInv'
<1>1. CASE UNCHANGED vars
  BY <1>1 DEF vars, MessageInv, OnTheWire, SoFar, RequestIntact, CommitWasVoted,
              ResponseIsPrefix, Decision
<1> QED
  BY <1>1, WireInv, LeaderReadsInv, FollowerReadsInv, LeaderHearsInv, ClientHearsInv DEF Next

LEMMA MessageInvariant == Spec => []MessageInv
BY MessageInit, MessageNext, PTL DEF Spec

-----------------------------------------------------------------------------
(* Wherever a read() cuts the messages, and whatever other clients type,   *)
(* the leader acts on no request but the one that its client means, and a  *)
(* follower on none but the leader's: what kvrequest_recieve makes of a    *)
(* part of the text of kvrequest_send is that request or nothing.          *)
THEOREM NoOtherRequest == Spec => []RequestIntact
<1>1. MessageInv => RequestIntact
  BY DEF MessageInv
<1> QED
  BY <1>1, MessageInvariant, PTL

(* tpcleader_handle_tpc decides to commit only on a vote to commit,        *)
(* although it compares nothing but the body of what it has received: no   *)
(* part of a follower's refusal reads like a vote to commit.               *)
THEOREM NoFalseVote == Spec => []CommitWasVoted
<1>1. MessageInv => CommitWasVoted
  BY DEF MessageInv
<1> QED
  BY <1>1, MessageInvariant, PTL

(* What the leader and the client decode of a response has the type that   *)
(* was sent, and a prefix of its body: http_response_parse, however little *)
(* has come, invents nothing.                                              *)
THEOREM NothingInvented == Spec => []ResponseIsPrefix
<1>1. MessageInv => ResponseIsPrefix
  BY DEF MessageInv
<1> QED
  BY <1>1, MessageInvariant, PTL
=============================================================================
