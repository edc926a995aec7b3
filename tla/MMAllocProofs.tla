---------------------------- MODULE MMAllocProofs ---------------------------
(***************************************************************************)
(* The allocator keeps what the program writes, tiles the memory and       *)
(* wastes none of it, for any size of a header, any memory, any sizes      *)
(* asked for and any foreign use of sbrk.                                  *)
(*                                                                         *)
(* The invariant says what a heap is between two calls: the list is in     *)
(* the order of the addresses and linked both ways, every header is where  *)
(* its slot is, what is free is clear, no two free slots are neighbours,   *)
(* and the slots in use hold what the program put there.  A call is then   *)
(* one insertion into the list (a split, a new slot at the break), or at   *)
(* most two removals (the merges of mm_free), or a change of one slot,     *)
(* each of which keeps the cells of every other slot in use.               *)
(***************************************************************************)
EXTENDS MMAlloc, FiniteSetTheorems, WellFoundedInduction, TLAPS

(* What a cell may hold.                                                   *)
Cells == {Unset, Head, Zero, Alien} \cup Addr

(* The headers, and the heaps made of them.                                *)
SlotRec == [prev : Addr \cup {Nil}, next : Addr \cup {Nil}, isFree : BOOLEAN, size : Int]

Heaps == [isInit : BOOLEAN, brk : 0 .. MaxBrk, tail : Addr \cup {Nil},
          hdr : [Addr -> SlotRec], mem : [Addr -> Cells]]

(* The slots of a heap, those in use, and where a slot ends.               *)
SlotsOf(h) == {a \in Addr : h.hdr[a] # NoSlot}
Used(h)    == {a \in SlotsOf(h) \ {head} : ~h.hdr[a].isFree}
End(h, a)  == a + H + h.hdr[a].size

(* The slot b comes after a, and there is none between them.               *)
Linked(h, a, b, tight) ==
  /\ b \in SlotsOf(h) /\ End(h, a) <= b
  /\ tight => End(h, a) = b
  /\ h.hdr[b].prev = a
  /\ \A c \in SlotsOf(h) : c <= a \/ b <= c

(* The list of the slots, in the order of their addresses from the head    *)
(* to tail, linked both ways; tight: without gaps, up to the break.        *)
Listed(h, tight) ==
  /\ h \in Heaps /\ h.isInit
  /\ head \in SlotsOf(h) /\ h.hdr[head].prev = Nil /\ ~h.hdr[head].isFree /\ h.hdr[head].size = 0
  /\ h.tail \in SlotsOf(h) /\ h.hdr[h.tail].next = Nil
  /\ End(h, h.tail) <= h.brk /\ (tight => End(h, h.tail) = h.brk)
  /\ \A a \in SlotsOf(h) :
       /\ h.hdr[a].size >= 0
       /\ h.hdr[a].next = Nil => a = h.tail /\ \A c \in SlotsOf(h) : c <= a
       /\ h.hdr[a].next # Nil => Linked(h, a, h.hdr[a].next, tight)
  /\ \A a \in SlotsOf(h) \ {head} : h.hdr[a].prev \in SlotsOf(h) /\ h.hdr[h.hdr[a].prev].next = a

(* Every header is where its slot is, and what is free is clear.           *)
Stamped(h) ==
  \A a \in SlotsOf(h), c \in Addr :
    /\ a <= c /\ c < a + H => h.mem[c] = Head
    /\ h.hdr[a].isFree /\ a + H <= c /\ c < End(h, a) => h.mem[c] = Zero

(* Two free neighbours.                                                    *)
Pair(h, a) ==
  a \in SlotsOf(h) /\ h.hdr[a].isFree /\ h.hdr[a].next # Nil /\ h.hdr[h.hdr[a].next].isFree

(* A heap as every call leaves it.                                         *)
Good(h, tight) == Listed(h, tight) /\ Stamped(h) /\ \A a \in Addr : ~Pair(h, a)

(* The data of the slot a is what the program has put there, as far as its *)
(* block goes, and zero behind that.                                       *)
Holds(h, a, block) ==
  \E n \in Nat \ {0} :
    /\ n <= h.hdr[a].size
    /\ block \in [0 .. n - 1 -> Cells]
    /\ \A c \in Addr : a + H <= c /\ c < End(h, a) =>
         h.mem[c] = IF c - (a + H) < n THEN block[c - (a + H)] ELSE Zero

(* The heap before the first call.                                         *)
NoHeap == [isInit |-> FALSE, brk |-> 0, tail |-> Nil,
           hdr |-> [a \in Addr |-> NoSlot], mem |-> [a \in Addr |-> Unset]]

(* The inductive invariant: before the first call there is no heap; after  *)
(* it the heap is good, without gaps as long as nobody else has moved the  *)
(* break, and its slots in use are the blocks the program holds.           *)
AllocInv ==
  /\ ~heap.isInit => heap = NoHeap /\ Held = {} /\ theirs = {}
  /\ heap.isInit => /\ Good(heap, theirs = {})
                    /\ Held = {a + H : a \in Used(heap)}
                    /\ \A a \in Used(heap) : Holds(heap, a, live[a + H])

-----------------------------------------------------------------------------
(* The constants and the addresses are integers; no address is Nil.        *)
LEMMA Numbers ==
  /\ H \in Nat /\ H >= 1 /\ MinData \in Nat /\ MaxBrk \in Nat /\ H <= MaxBrk /\ 0 \in Addr
  /\ \A a \in Addr : a \in Nat /\ a \in Int /\ a < MaxBrk
  /\ \A a \in Int : 0 <= a /\ a < MaxBrk => a \in Addr
  /\ Nil \notin Addr /\ Nil \in Int /\ Nil < 0
  /\ {Unset, Head, Zero, Alien} \cup Addr \subseteq Cells
  BY AllocAssumption DEF Addr, Nil, Cells

(* The header of a cell that has none.                                     *)
LEMMA NoSlotIs ==
  NoSlot \in SlotRec /\ NoSlot.isFree = FALSE /\ NoSlot.next = Nil /\ NoSlot.prev = Nil
  BY Numbers DEF NoSlot, slot, SlotRec

(* The parts of a heap.                                                    *)
LEMMA HeapType ==
  ASSUME NEW h \in Heaps
  PROVE  /\ h.isInit \in BOOLEAN /\ h.brk \in 0 .. MaxBrk /\ h.tail \in Addr \cup {Nil}
         /\ h.hdr \in [Addr -> SlotRec] /\ h.mem \in [Addr -> Cells]
         /\ \A a \in Addr : /\ h.hdr[a] \in SlotRec
                            /\ h.hdr[a].prev \in Addr \cup {Nil} /\ h.hdr[a].next \in Addr \cup {Nil}
                            /\ h.hdr[a].isFree \in BOOLEAN /\ h.hdr[a].size \in Int
  BY DEF Heaps, SlotRec

(* memset, and the operators that are built of it.                         *)
LEMMA FillType ==
  ASSUME NEW mem \in [Addr -> Cells], NEW from \in Int, NEW n \in Int, NEW val \in Cells
  PROVE  /\ Fill(mem, from, n, val) \in [Addr -> Cells]
         /\ \A c \in Addr : Fill(mem, from, n, val)[c] =
                              IF c >= from /\ c < from + n THEN val ELSE mem[c]
  BY DEF Fill

(* The data of a slot is cleared.                                          *)
LEMMA ClearIs ==
  ASSUME NEW h \in Heaps, NEW at \in Addr, NEW g, g = Clear(h, at)
  PROVE  /\ g \in Heaps /\ g.isInit = h.isInit /\ g.brk = h.brk /\ g.tail = h.tail /\ g.hdr = h.hdr
         /\ \A c \in Addr : g.mem[c] = IF at + H <= c /\ c < End(h, at) THEN Zero ELSE h.mem[c]
<1>1. at + H \in Int /\ h.hdr[at].size \in Int /\ Zero \in Cells /\ h.mem \in [Addr -> Cells]
      /\ at \in Int /\ H \in Int
  BY Numbers, HeapType
<1>2. PICK m : m = Fill(h.mem, at + H, h.hdr[at].size, Zero)
  OBVIOUS
<1>3. /\ m \in [Addr -> Cells]
      /\ \A c \in Addr : m[c] = IF c >= at + H /\ c < (at + H) + h.hdr[at].size THEN Zero ELSE h.mem[c]
  BY <1>1, <1>2, FillType
<1>4. g = [h EXCEPT !.mem = m]
  BY <1>2 DEF Clear
<1>5. g \in Heaps /\ g.isInit = h.isInit /\ g.brk = h.brk /\ g.tail = h.tail /\ g.hdr = h.hdr /\ g.mem = m
  BY <1>3, <1>4 DEF Heaps
<1>6. \A c \in Addr : c >= at + H <=> at + H <= c
  BY <1>1, Numbers
<1> QED
  BY <1>1, <1>3, <1>5, <1>6 DEF End

(* A header is written.                                                    *)
LEMMA SetSlotIs ==
  ASSUME NEW h \in Heaps, NEW at \in Addr, NEW s \in SlotRec, NEW g, g = SetSlot(h, at, s)
  PROVE  /\ g \in Heaps /\ g.isInit = h.isInit /\ g.brk = h.brk /\ g.tail = h.tail
         /\ g.hdr = [h.hdr EXCEPT ![at] = s]
         /\ \A c \in Addr : g.mem[c] = IF at <= c /\ c < at + H THEN Head ELSE h.mem[c]
<1>1. at \in Int /\ H \in Int /\ Head \in Cells /\ h.mem \in [Addr -> Cells]
  BY Numbers, HeapType
<1>2. PICK m : m = Fill(h.mem, at, H, Head)
  OBVIOUS
<1>3. /\ m \in [Addr -> Cells]
      /\ \A c \in Addr : m[c] = IF c >= at /\ c < at + H THEN Head ELSE h.mem[c]
  BY ONLY <1>1, <1>2, FillType
<1>4. PICK d : d = [h.hdr EXCEPT ![at] = s]
  OBVIOUS
<1>5. d \in [Addr -> SlotRec]
  BY <1>4, HeapType
<1>6. g = [[h EXCEPT !.hdr = d] EXCEPT !.mem = m]
  BY <1>2, <1>4 DEF SetSlot
<1>7. /\ g \in Heaps /\ g.isInit = h.isInit /\ g.brk = h.brk /\ g.tail = h.tail
      /\ g.hdr = d /\ g.mem = m
  BY <1>3, <1>5, <1>6 DEF Heaps
<1>8. \A c \in Addr : c >= at <=> at <= c
  BY <1>1, Numbers
<1> QED
  BY <1>3, <1>4, <1>7, <1>8

(* The header of the slot a, and its data.                                 *)
InHead(a, c)    == a <= c /\ c < a + H
InData(h, a, c) == a + H <= c /\ c < End(h, a)

(* The two, in these terms.                                                *)
LEMMA ClearData ==
  ASSUME NEW h \in Heaps, NEW at \in Addr, NEW g, g = Clear(h, at)
  PROVE  /\ g \in Heaps /\ g.isInit = h.isInit /\ g.brk = h.brk /\ g.tail = h.tail /\ g.hdr = h.hdr
         /\ \A c \in Addr : g.mem[c] = IF InData(h, at, c) THEN Zero ELSE h.mem[c]
  BY ClearIs DEF InData

LEMMA WriteHead ==
  ASSUME NEW h \in Heaps, NEW at \in Addr, NEW s \in SlotRec, NEW g, g = SetSlot(h, at, s)
  PROVE  /\ g \in Heaps /\ g.isInit = h.isInit /\ g.brk = h.brk /\ g.tail = h.tail
         /\ g.hdr = [h.hdr EXCEPT ![at] = s]
         /\ \A c \in Addr : g.mem[c] = IF InHead(at, c) THEN Head ELSE h.mem[c]
  BY SetSlotIs DEF InHead

(* A set of naturals has a least element, a bounded one a greatest.        *)
LEMMA Least ==
  ASSUME NEW T \in SUBSET Nat, T # {}
  PROVE  \E n \in T : \A m \in T : n <= m
<1>1. PICK n \in T : \A m \in T : ~(<<m, n>> \in OpToRel(<, Nat))
  BY WFMin, NatLessThanWellFounded
<1>2. \A m \in T : ~(m < n)
  BY <1>1 DEF OpToRel
<1> QED
  BY <1>2

LEMMA Greatest ==
  ASSUME NEW T \in SUBSET Addr, T # {}
  PROVE  \E n \in T : \A m \in T : m <= n
<1> DEFINE U == {k \in Nat : \E m \in T : k = MaxBrk - m}
<1>1. \A m \in T : MaxBrk - m \in U
  BY Numbers
<1>2. PICK k \in U : \A l \in U : k <= l
  <2>1. U # {} /\ U \in SUBSET Nat
    BY <1>1
  <2> HIDE DEF U
  <2> QED
    BY <2>1, Least
<1>3. PICK n \in T : k = MaxBrk - n
  BY <1>2
<1>4. \A m \in T : MaxBrk - n <= MaxBrk - m
  BY <1>1, <1>2, <1>3
<1> QED
  BY <1>4, Numbers

(* The slots do not overlap.                                               *)
LEMMA Room ==
  ASSUME NEW h, NEW tight, Listed(h, tight), NEW a \in SlotsOf(h)
  PROVE  /\ a \in Nat /\ End(h, a) \in Int /\ h.hdr[a].size \in Nat
         /\ End(h, a) = a + H + h.hdr[a].size /\ a + H <= End(h, a)
         /\ End(h, a) <= h.brk /\ End(h, a) <= MaxBrk
         /\ \A b \in SlotsOf(h) : a < b => End(h, a) <= b
<1>1. /\ a \in Addr /\ a \in Nat /\ h.hdr[a].size \in Nat /\ h.brk \in Int /\ h.brk <= MaxBrk
      /\ \A b \in SlotsOf(h) : b \in Nat
  <2>1. a \in Addr /\ \A b \in SlotsOf(h) : b \in Nat
    BY Numbers DEF SlotsOf
  <2>2. h.hdr[a].size \in Nat
    BY <2>1, HeapType DEF Listed
  <2>3. h.brk \in 0 .. MaxBrk
    BY HeapType DEF Listed
  <2> QED
    BY <2>1, <2>2, <2>3, Numbers
<1>2. End(h, a) \in Int /\ a + H <= End(h, a) /\ End(h, a) = a + H + h.hdr[a].size
  BY <1>1, Numbers DEF End
<1>3. CASE h.hdr[a].next = Nil
  <2>1. a = h.tail /\ \A c \in SlotsOf(h) : c <= a
    BY <1>3 DEF Listed
  <2>2. End(h, a) <= h.brk
    BY <2>1 DEF Listed
  <2> QED
    BY <1>1, <1>2, <2>1, <2>2, Numbers
<1>4. CASE h.hdr[a].next # Nil
  <2>1. PICK b : b = h.hdr[a].next
    OBVIOUS
  <2>2. b \in SlotsOf(h) /\ End(h, a) <= b /\ \A c \in SlotsOf(h) : c <= a \/ b <= c
    BY <1>4, <2>1 DEF Listed, Linked
  <2>3. h.tail \in SlotsOf(h) /\ (\A c \in SlotsOf(h) : c <= h.tail) /\ End(h, h.tail) <= h.brk
    BY DEF Listed
  <2>4. h.tail <= End(h, h.tail) /\ End(h, h.tail) \in Int
    <3>1. h.tail \in Nat /\ h.hdr[h.tail].size \in Nat
      <4>1. h.tail \in Addr /\ h.hdr[h.tail].size >= 0
        BY <2>3 DEF Listed, SlotsOf
      <4> QED
        BY <4>1, HeapType, Numbers DEF Listed
    <3> QED
      BY <3>1, Numbers DEF End
  <2>5. End(h, a) <= h.brk
    <3>1. b <= h.tail /\ b \in Nat /\ h.tail \in Nat
      BY <1>1, <2>2, <2>3
    <3> QED
      BY <1>1, <1>2, <2>2, <2>3, <2>4, <3>1
  <2> QED
    BY <1>1, <1>2, <2>2, <2>5, Numbers
<1> QED
  BY <1>3, <1>4

-----------------------------------------------------------------------------
(* find_list_elem: what the search returns is a free slot, large enough,   *)
(* and it misses none.                                                     *)
LEMMA FindIs ==
  ASSUME NEW h, NEW tight, Listed(h, tight), NEW size \in Nat, NEW f, f = find_list_elem(h, size)
  PROVE  /\ f = Nil \/ (f \in SlotsOf(h) /\ h.hdr[f].isFree /\ h.hdr[f].size >= size)
         /\ f = Nil => \A a \in SlotsOf(h) : ~(h.hdr[a].isFree /\ h.hdr[a].size >= size)
<1> DEFINE Fits(a) == h.hdr[a].isFree /\ h.hdr[a].size >= size
           Fit(a) == {b \in SlotsOf(h) : b >= a /\ Fits(b)}
           Turn(a, g) == IF a = Nil \/ Fits(a) THEN a ELSE g[h.hdr[a].next]
           Least1(a) == CHOOSE b \in Fit(a) : \A c \in Fit(a) : b <= c
           Solution == [a \in Addr \cup {Nil} |->
                          IF a \in SlotsOf(h) /\ Fit(a) # {} THEN Least1(a) ELSE Nil]
           Is(g) == g = [a \in Addr \cup {Nil} |-> Turn(a, g)]
<1>0. /\ SlotsOf(h) \subseteq Addr /\ Addr \subseteq Nat /\ Nil \notin Addr
      /\ \A a \in Addr : h.hdr[a].next \in Addr \cup {Nil}
      /\ \A a \in Addr : a \notin SlotsOf(h) => h.hdr[a].next = Nil /\ ~h.hdr[a].isFree
  BY Numbers, HeapType, NoSlotIs DEF Listed, SlotsOf
<1>1. \A a \in SlotsOf(h) : Fits(a) => Fit(a) # {} /\ Least1(a) = a
  <2> SUFFICES ASSUME NEW a \in SlotsOf(h), Fits(a)
               PROVE  Fit(a) # {} /\ Least1(a) = a
    OBVIOUS
  <2> HIDE DEF Fits
  <2>1. a \in Nat /\ a >= a
    BY Numbers DEF SlotsOf
  <2>2. a \in Fit(a) /\ \A c \in Fit(a) : c \in Nat /\ c >= a
    BY <1>0, <2>1
  <2> HIDE DEF Fit
  <2>3. \A c \in Fit(a) : a <= c
    BY <2>1, <2>2
  <2>4. \A b \in Fit(a) : (\A c \in Fit(a) : b <= c) => b = a
    BY <2>1, <2>2
  <2> QED
    BY <2>2, <2>3, <2>4
<1>2. \A a \in SlotsOf(h) : ~Fits(a) /\ h.hdr[a].next # Nil =>
         h.hdr[a].next \in SlotsOf(h) /\ Fit(a) = Fit(h.hdr[a].next)
  <2> SUFFICES ASSUME NEW a \in SlotsOf(h), ~Fits(a), h.hdr[a].next # Nil, NEW n, n = h.hdr[a].next
               PROVE  n \in SlotsOf(h) /\ Fit(a) = Fit(n)
    OBVIOUS
  <2>1. n \in SlotsOf(h) /\ End(h, a) <= n /\ \A c \in SlotsOf(h) : c <= a \/ n <= c
    BY DEF Listed, Linked
  <2>2. a < n
    <3>1. a \in Nat /\ a + H <= End(h, a) /\ End(h, a) \in Int /\ n \in Nat
      BY <1>0, <2>1, Room
    <3> QED
      BY <2>1, <3>1, Numbers
  <2>3. \A c \in SlotsOf(h) : Fits(c) => (c >= a <=> c >= n)
    <3> SUFFICES ASSUME NEW c \in SlotsOf(h), Fits(c) PROVE c >= a <=> c >= n
      OBVIOUS
    <3>1. c # a /\ c \in Nat /\ a \in Nat /\ n \in Nat
      BY <1>0, <2>1
    <3>2. c <= a \/ n <= c
      BY <2>1
    <3> QED
      BY <2>2, <3>1, <3>2
  <2> QED
    BY <2>1, <2>3
<1>3. \A a \in SlotsOf(h) : ~Fits(a) /\ h.hdr[a].next = Nil => Fit(a) = {}
  <2> SUFFICES ASSUME NEW a \in SlotsOf(h), ~Fits(a), h.hdr[a].next = Nil, NEW b \in SlotsOf(h),
                      b >= a, Fits(b)
               PROVE  FALSE
    OBVIOUS
  <2>1. b <= a /\ b \in Nat /\ a \in Nat
    BY <1>0 DEF Listed
  <2> QED
    BY <2>1
<1>4. Is(Solution)
  <2> HIDE DEF Fit, Least1, Fits, Turn
  <2>0. /\ Solution = [a \in Addr \cup {Nil} |-> Solution[a]]
        /\ \A b \in Addr \cup {Nil} :
             Solution[b] = IF b \in SlotsOf(h) /\ Fit(b) # {} THEN Least1(b) ELSE Nil
    OBVIOUS
  <2> HIDE DEF Solution
  <2> SUFFICES ASSUME NEW a \in Addr \cup {Nil} PROVE Solution[a] = Turn(a, Solution)
    BY <2>0
  <2> USE DEF Turn
  <2>1. CASE a = Nil
    BY <1>0, <2>0, <2>1
  <2>2. CASE a \in SlotsOf(h) /\ Fits(a)
    BY <1>0, <1>1, <2>0, <2>2
  <2>3. CASE a \in SlotsOf(h) /\ ~Fits(a)
    <3>1. PICK n : n = h.hdr[a].next
      OBVIOUS
    <3>2. n \in Addr \cup {Nil} /\ a # Nil /\ Turn(a, Solution) = Solution[n]
      BY <1>0, <2>3, <3>1
    <3>3. CASE n = Nil
      BY <1>0, <1>3, <2>0, <2>3, <3>1, <3>2, <3>3
    <3>4. CASE n # Nil
      <4>1. n \in SlotsOf(h) /\ Fit(a) = Fit(n)
        BY <1>2, <2>3, <3>1, <3>4
      <4>2. Least1(a) = Least1(n)
        BY <4>1 DEF Least1
      <4> QED
        BY <1>0, <2>0, <2>3, <3>2, <4>1, <4>2
    <3> QED
      BY <3>3, <3>4
  <2>4. CASE a \in Addr /\ a \notin SlotsOf(h)
    BY <1>0, <2>0, <2>4 DEF Fits
  <2> QED
    BY <2>1, <2>2, <2>3, <2>4
<1>5. PICK from : from = (CHOOSE g : Is(g))
  OBVIOUS
<1>6. Is(from)
  <2> HIDE DEF Is, Solution
  <2> QED
    BY <1>4, <1>5
<1>7. f = from[head]
  BY <1>5 DEF find_list_elem
<1>8. \A a \in SlotsOf(h) : IF Fit(a) = {} THEN from[a] = Nil
                            ELSE from[a] \in SlotsOf(h) /\ Fits(from[a])
  <2> DEFINE Found(a) == IF Fit(a) = {} THEN from[a] = Nil
                         ELSE from[a] \in SlotsOf(h) /\ Fits(from[a])
             Bad == {a \in SlotsOf(h) : ~Found(a)}
  <2> HIDE DEF Fits, Fit
  <2> SUFFICES ASSUME Bad # {} PROVE FALSE
    OBVIOUS
  <2>1. PICK a \in Bad : \A c \in Bad : c <= a
    <3>1. Bad \in SUBSET Addr
      BY <1>0
    <3> HIDE DEF Bad
    <3> QED
      BY <3>1, Greatest
  <2>2. a \in SlotsOf(h) /\ a \in Addr /\ a # Nil /\ from[a] = Turn(a, from) /\ from[Nil] = Nil
    BY <1>0, <1>6, <2>1
  <2>3. ~Fits(a) /\ from[a] = from[h.hdr[a].next]
    BY <1>1, <2>1, <2>2
  <2>4. h.hdr[a].next # Nil
    BY <1>3, <2>1, <2>2, <2>3
  <2>5. PICK n : n = h.hdr[a].next
    OBVIOUS
  <2>6. n \in SlotsOf(h) /\ n \in Bad
    BY <1>2, <2>1, <2>2, <2>3, <2>4, <2>5
  <2>7. n <= a /\ n \in Nat /\ a \in Nat
    BY <1>0, <2>1, <2>2, <2>6
  <2>8. End(h, a) <= n /\ a + H <= End(h, a) /\ End(h, a) \in Int
    BY <2>2, <2>4, <2>5, Room DEF Listed, Linked
  <2> QED
    BY <2>7, <2>8, Numbers
<1>9. head \in SlotsOf(h) /\ \A a \in SlotsOf(h) : Fits(a) => a \in Fit(head)
  <2>1. head \in SlotsOf(h) /\ \A a \in SlotsOf(h) : a >= head
    BY Numbers DEF Listed, SlotsOf, head
  <2> HIDE DEF Fits
  <2> QED
    BY <2>1
<1>10. f = Nil => Fit(head) = {}
  <2> HIDE DEF Fits, Fit
  <2>1. Nil \notin SlotsOf(h)
    BY <1>0
  <2> QED
    BY <1>7, <1>8, <1>9, <2>1
<1>11. f = Nil \/ (f \in SlotsOf(h) /\ Fits(f))
  <2> HIDE DEF Fits, Fit
  <2> QED
    BY <1>7, <1>8, <1>9
<1> QED
  BY <1>9, <1>10, <1>11

-----------------------------------------------------------------------------
(* One field of a header is changed.                                       *)
LEMMA NextIs ==
  ASSUME NEW d \in [Addr -> SlotRec], NEW t \in Addr, NEW x \in Addr \cup {Nil},
         NEW e, e = [d EXCEPT ![t].next = x]
  PROVE  /\ e \in [Addr -> SlotRec] /\ \A a \in Addr : a # t => e[a] = d[a]
         /\ e[t].next = x /\ e[t].prev = d[t].prev /\ e[t].isFree = d[t].isFree
         /\ e[t].size = d[t].size
<1>1. PICK s : s = [d[t] EXCEPT !.next = x]
  OBVIOUS
<1>2. d[t] \in SlotRec
  OBVIOUS
<1>3. /\ s \in SlotRec /\ s.next = x /\ s.prev = d[t].prev /\ s.isFree = d[t].isFree
      /\ s.size = d[t].size
  BY <1>1, <1>2 DEF SlotRec
<1>4. e = [d EXCEPT ![t] = s]
  BY <1>1
<1> QED
  BY <1>3, <1>4

(* Its prev.                                                               *)
LEMMA PrevIs ==
  ASSUME NEW d \in [Addr -> SlotRec], NEW t \in Addr, NEW x \in Addr \cup {Nil},
         NEW e, e = [d EXCEPT ![t].prev = x]
  PROVE  /\ e \in [Addr -> SlotRec] /\ \A a \in Addr : a # t => e[a] = d[a]
         /\ e[t].prev = x /\ e[t].next = d[t].next /\ e[t].isFree = d[t].isFree
         /\ e[t].size = d[t].size
<1>1. PICK s : s = [d[t] EXCEPT !.prev = x]
  OBVIOUS
<1>2. d[t] \in SlotRec
  OBVIOUS
<1>3. /\ s \in SlotRec /\ s.prev = x /\ s.next = d[t].next /\ s.isFree = d[t].isFree
      /\ s.size = d[t].size
  BY <1>1, <1>2 DEF SlotRec
<1>4. e = [d EXCEPT ![t] = s]
  BY <1>1
<1> QED
  BY <1>3, <1>4

(* Its size.                                                               *)
LEMMA SizeIs ==
  ASSUME NEW d \in [Addr -> SlotRec], NEW t \in Addr, NEW x \in Int,
         NEW e, e = [d EXCEPT ![t].size = x]
  PROVE  /\ e \in [Addr -> SlotRec] /\ \A a \in Addr : a # t => e[a] = d[a]
         /\ e[t].prev = d[t].prev /\ e[t].next = d[t].next /\ e[t].isFree = d[t].isFree
         /\ e[t].size = x
<1>1. PICK s : s = [d[t] EXCEPT !.size = x]
  OBVIOUS
<1>2. d[t] \in SlotRec
  OBVIOUS
<1>3. /\ s \in SlotRec /\ s.size = x /\ s.next = d[t].next /\ s.isFree = d[t].isFree
      /\ s.prev = d[t].prev
  BY <1>1, <1>2 DEF SlotRec
<1>4. e = [d EXCEPT ![t] = s]
  BY <1>1
<1> QED
  BY <1>3, <1>4

(* It becomes free.                                                        *)
LEMMA FreeIs ==
  ASSUME NEW d \in [Addr -> SlotRec], NEW t \in Addr, NEW e, e = [d EXCEPT ![t].isFree = TRUE]
  PROVE  /\ e \in [Addr -> SlotRec] /\ \A a \in Addr : a # t => e[a] = d[a]
         /\ e[t].prev = d[t].prev /\ e[t].next = d[t].next /\ e[t].isFree
         /\ e[t].size = d[t].size
<1>1. PICK s : s = [d[t] EXCEPT !.isFree = TRUE]
  OBVIOUS
<1>2. d[t] \in SlotRec
  OBVIOUS
<1>3. /\ s \in SlotRec /\ s.size = d[t].size /\ s.next = d[t].next /\ s.isFree
      /\ s.prev = d[t].prev
  BY <1>1, <1>2 DEF SlotRec
<1>4. e = [d EXCEPT ![t] = s]
  BY <1>1
<1> QED
  BY <1>3, <1>4

(* It is taken.                                                            *)
LEMMA BusyIs ==
  ASSUME NEW d \in [Addr -> SlotRec], NEW t \in Addr, NEW e, e = [d EXCEPT ![t].isFree = FALSE]
  PROVE  /\ e \in [Addr -> SlotRec] /\ \A a \in Addr : a # t => e[a] = d[a]
         /\ e[t].prev = d[t].prev /\ e[t].next = d[t].next /\ ~e[t].isFree
         /\ e[t].size = d[t].size
<1>1. PICK s : s = [d[t] EXCEPT !.isFree = FALSE]
  OBVIOUS
<1>2. d[t] \in SlotRec
  OBVIOUS
<1>3. /\ s \in SlotRec /\ s.size = d[t].size /\ s.next = d[t].next /\ ~s.isFree
      /\ s.prev = d[t].prev
  BY <1>1, <1>2 DEF SlotRec
<1>4. e = [d EXCEPT ![t] = s]
  BY <1>1
<1> QED
  BY <1>3, <1>4

(* A header with a size is one of a slot.                                  *)
LEMMA SlotIs ==
  ASSUME NEW h \in Heaps, NEW a \in Addr, h.hdr[a].size >= 0
  PROVE  a \in SlotsOf(h)
<1>1. NoSlot.size = Nil
  BY DEF NoSlot, slot
<1> QED
  BY <1>1, HeapType, Numbers DEF SlotsOf

(* The order of the slots is in their headers, not in what these say about *)
(* their use.                                                              *)
LEMMA SameList ==
  ASSUME NEW h, NEW tight, Listed(h, tight), NEW g \in Heaps,
         g.isInit = h.isInit, g.brk = h.brk, g.tail = h.tail,
         \A a \in Addr : /\ g.hdr[a].prev = h.hdr[a].prev /\ g.hdr[a].next = h.hdr[a].next
                         /\ g.hdr[a].size = h.hdr[a].size,
         \A a \in Addr : a \in SlotsOf(h) \/ g.hdr[a] = h.hdr[a],
         g.hdr[head] = h.hdr[head]
  PROVE  Listed(g, tight) /\ SlotsOf(g) = SlotsOf(h) /\ \A a \in Addr : End(g, a) = End(h, a)
<1>1. SlotsOf(g) = SlotsOf(h)
  <2>1. \A a \in SlotsOf(h) : a \in SlotsOf(g)
    <3> SUFFICES ASSUME NEW a \in SlotsOf(h) PROVE a \in SlotsOf(g)
      OBVIOUS
    <3>1. a \in Addr /\ g.hdr[a].size >= 0
      BY DEF SlotsOf, Listed
    <3> QED
      BY <3>1, SlotIs
  <2>2. \A a \in SlotsOf(g) : a \in SlotsOf(h)
    BY DEF SlotsOf
  <2> QED
    BY <2>1, <2>2
<1>2. \A a \in Addr : End(g, a) = End(h, a)
  BY DEF End
<1>3. \A a \in SlotsOf(h) : a \in Addr
  BY DEF SlotsOf
<1>4. \A a, b \in SlotsOf(h) : Linked(h, a, b, tight) => Linked(g, a, b, tight)
  BY <1>1, <1>2, <1>3 DEF Linked
<1>5. \A a \in SlotsOf(h) : h.hdr[a].next # Nil => Linked(g, a, g.hdr[a].next, tight)
  <2> SUFFICES ASSUME NEW a \in SlotsOf(h), h.hdr[a].next # Nil PROVE Linked(g, a, g.hdr[a].next, tight)
    OBVIOUS
  <2>1. Linked(h, a, h.hdr[a].next, tight) /\ h.hdr[a].next \in SlotsOf(h)
    BY DEF Listed, Linked
  <2> QED
    BY <1>3, <1>4, <2>1
<1>6. \A a \in SlotsOf(h) \ {head} : g.hdr[a].prev \in SlotsOf(h) /\ g.hdr[g.hdr[a].prev].next = a
  BY <1>3 DEF Listed
<1>7. /\ g.hdr[head].prev = Nil /\ ~g.hdr[head].isFree /\ g.hdr[head].size = 0 /\ head \in SlotsOf(h)
      /\ g.tail \in SlotsOf(h) /\ g.hdr[g.tail].next = Nil /\ g.isInit
      /\ End(g, g.tail) <= g.brk /\ (tight => End(g, g.tail) = g.brk)
  BY <1>2, <1>3 DEF Listed
<1>8. \A a \in SlotsOf(h) : g.hdr[a].size >= 0
                            /\ (g.hdr[a].next = Nil => a = g.tail /\ \A c \in SlotsOf(h) : c <= a)
  BY <1>3 DEF Listed
<1> QED
  BY <1>1, <1>2, <1>3, <1>5, <1>6, <1>7, <1>8 DEF Listed

(* A slot is marked free: the list stays.                                  *)
LEMMA SetFree ==
  ASSUME NEW h, NEW tight, Listed(h, tight), NEW at \in SlotsOf(h) \ {head},
         NEW g, g = [h EXCEPT !.hdr[at].isFree = TRUE]
  PROVE  /\ Listed(g, tight) /\ SlotsOf(g) = SlotsOf(h) /\ \A a \in Addr : End(g, a) = End(h, a)
         /\ g.mem = h.mem /\ g.hdr[at].isFree
         /\ \A a \in Addr : /\ a # at => g.hdr[a] = h.hdr[a]
                            /\ g.hdr[a].next = h.hdr[a].next /\ g.hdr[a].size = h.hdr[a].size
<1>1. PICK d : d = [h.hdr EXCEPT ![at].isFree = TRUE]
  OBVIOUS
<1>2. h \in Heaps /\ h.hdr \in [Addr -> SlotRec] /\ at \in Addr /\ head \in Addr
  BY HeapType, Numbers DEF Listed, SlotsOf
<1>3. /\ d \in [Addr -> SlotRec] /\ d[at].isFree
      /\ \A a \in Addr : /\ a # at => d[a] = h.hdr[a]
                         /\ d[a].next = h.hdr[a].next /\ d[a].size = h.hdr[a].size
                         /\ d[a].prev = h.hdr[a].prev
  <2>1. h.hdr \in [Addr -> SlotRec] /\ at \in Addr /\ d = [h.hdr EXCEPT ![at].isFree = TRUE]
    BY <1>1, <1>2
  <2>2. d \in [Addr -> SlotRec] /\ \A a \in Addr : a # at => d[a] = h.hdr[a]
    BY <2>1, FreeIs
  <2>3. d[at].isFree
    BY <2>1, FreeIs
  <2>4. d[at].prev = h.hdr[at].prev /\ d[at].next = h.hdr[at].next /\ d[at].size = h.hdr[at].size
    BY <2>1, FreeIs
  <2> QED
    BY <2>2, <2>3, <2>4
<1>4. g = [h EXCEPT !.hdr = d]
  BY <1>1
<1>5. /\ g \in Heaps /\ g.isInit = h.isInit /\ g.brk = h.brk /\ g.tail = h.tail
      /\ g.hdr = d /\ g.mem = h.mem
  BY <1>2, <1>3, <1>4 DEF Heaps
<1>6. Listed(g, tight) /\ SlotsOf(g) = SlotsOf(h) /\ \A a \in Addr : End(g, a) = End(h, a)
  <2>1. \A a \in Addr : a \in SlotsOf(h) \/ g.hdr[a] = h.hdr[a]
    BY <1>3, <1>5
  <2>2. g.hdr[head] = h.hdr[head]
    BY <1>2, <1>3, <1>5
  <2> QED
    <3>1. \A a \in Addr : /\ g.hdr[a].prev = h.hdr[a].prev /\ g.hdr[a].next = h.hdr[a].next
                          /\ g.hdr[a].size = h.hdr[a].size
      BY <1>3, <1>5
    <3> QED
      BY <1>5, <2>1, <2>2, <3>1, SameList
<1> QED
  BY <1>3, <1>5, <1>6

-----------------------------------------------------------------------------
(* What a call leaves alone: the blocks in use, but for the one at at.     *)
Keeps(h, g, at) ==
  \A a \in Used(h) \ {at} :
    /\ a \in Used(g) /\ g.hdr[a].size = h.hdr[a].size
    /\ \A c \in Addr : a + H <= c /\ c < End(h, a) => g.mem[c] = h.mem[c]

(* What two steps keep, both keep.                                         *)
LEMMA KeepsMore ==
  ASSUME NEW h, NEW g, NEW k, NEW at, Keeps(h, g, at), Keeps(g, k, at)
  PROVE  Keeps(h, k, at)
  BY DEF Keeps, End

(* The data of the slot at is zero.                                        *)
Blank(h, at) == \A c \in Addr : at + H <= c /\ c < End(h, at) => h.mem[c] = Zero

(* What mm_malloc does when it finds memory.                               *)
Taken(h, g, tight, at, size) ==
  /\ Good(g, tight)
  /\ at \in Addr /\ at \notin Used(h) /\ Used(g) = Used(h) \cup {at}
  /\ g.hdr[at].size >= size
  /\ Blank(g, at)
  /\ Keeps(h, g, Nil)

(* The free tail that grows.                                               *)
LEMMA ExtendTailIs ==
  ASSUME NEW h, NEW tight, Good(h, tight), NEW size \in Nat,
         h.hdr[h.tail].isFree, ~(h.hdr[h.tail].size >= size),
         NEW r, r = ExtendTail(h, size)
  PROVE  \/ r = result(h, Nil)
         \/ r = result(r.heap, h.tail + H) /\ Taken(h, r.heap, tight, h.tail, size)
<1>1. PICK at, more : at = h.tail /\ more = size - h.hdr[h.tail].size
  OBVIOUS
<1>2. /\ Listed(h, tight) /\ Stamped(h) /\ h \in Heaps
      /\ at \in SlotsOf(h) /\ at \in Addr /\ at \in Nat /\ at # head
      /\ h.hdr[at].size \in Nat /\ more \in Nat /\ h.hdr[at].size + more = size
      /\ h.hdr \in [Addr -> SlotRec] /\ h.brk \in 0 .. MaxBrk /\ h.brk \in Nat
      /\ End(h, at) <= h.brk /\ (tight => End(h, at) = h.brk) /\ End(h, at) = at + H + h.hdr[at].size
  <2>1. Listed(h, tight) /\ Stamped(h) /\ h \in Heaps /\ at \in SlotsOf(h) /\ at # head
        /\ End(h, at) <= h.brk /\ (tight => End(h, at) = h.brk)
    BY <1>1 DEF Good, Listed
  <2>2. h.hdr \in [Addr -> SlotRec] /\ h.brk \in 0 .. MaxBrk
    BY <2>1, HeapType
  <2>3. at \in Addr /\ at \in Nat /\ h.hdr[at].size \in Nat /\ End(h, at) = at + H + h.hdr[at].size
    BY <2>1, Room DEF SlotsOf
  <2>4. more \in Nat /\ h.hdr[at].size + more = size
    BY <1>1, <2>3
  <2> QED
    BY <2>1, <2>2, <2>3, <2>4, Numbers
<1>3. CASE h.brk + more > MaxBrk
  BY <1>1, <1>3 DEF ExtendTail
<1>4. CASE ~(h.brk + more > MaxBrk)
  <2>1. PICK d, e : d = [h.hdr EXCEPT ![at].size = size] /\ e = [d EXCEPT ![at].isFree = FALSE]
    OBVIOUS
  <2>2. /\ e \in [Addr -> SlotRec] /\ \A a \in Addr : a # at => e[a] = h.hdr[a]
        /\ e[at].prev = h.hdr[at].prev /\ e[at].next = h.hdr[at].next /\ ~e[at].isFree
        /\ e[at].size = size
    <3>1. /\ d \in [Addr -> SlotRec] /\ \A a \in Addr : a # at => d[a] = h.hdr[a]
          /\ d[at].prev = h.hdr[at].prev /\ d[at].next = h.hdr[at].next /\ d[at].size = size
      <4>1. size \in Int /\ at \in Addr /\ h.hdr \in [Addr -> SlotRec] /\ d = [h.hdr EXCEPT ![at].size = size]
        BY <1>2, <2>1
      <4> QED
        BY <4>1, SizeIs
    <3>2. /\ e \in [Addr -> SlotRec] /\ \A a \in Addr : a # at => e[a] = d[a]
          /\ e[at].prev = d[at].prev /\ e[at].next = d[at].next /\ ~e[at].isFree
          /\ e[at].size = d[at].size
      <4>1. d \in [Addr -> SlotRec]
        BY <3>1
      <4>2. at \in Addr
        BY <1>2
      <4>3. e = [d EXCEPT ![at].isFree = FALSE]
        BY <2>1
      <4>4. ~e[at].isFree
        BY <4>1, <4>2, <4>3, BusyIs
      <4>5. e \in [Addr -> SlotRec] /\ \A a \in Addr : a # at => e[a] = d[a]
        BY <4>1, <4>2, <4>3, BusyIs
      <4>6. e[at].prev = d[at].prev /\ e[at].next = d[at].next /\ e[at].size = d[at].size
        BY <4>1, <4>2, <4>3, BusyIs
      <4> QED
        BY <4>4, <4>5, <4>6
    <3> QED
      BY <3>1, <3>2
  <2>3. PICK u : u = [[h EXCEPT !.brk = h.brk + more] EXCEPT !.hdr = e]
    OBVIOUS
  <2>4. /\ u \in Heaps /\ u.isInit = h.isInit /\ u.brk = h.brk + more /\ u.tail = h.tail
        /\ u.hdr = e /\ u.mem = h.mem
    <3>1. h.brk + more \in 0 .. MaxBrk
      BY <1>2, <1>4, Numbers
    <3> QED
      BY <1>2, <2>2, <2>3, <3>1 DEF Heaps
  <2>5. PICK g : g = Clear(u, at)
    OBVIOUS
  <2>6. r = result(g, at + H)
    <3>1. u = [[[h EXCEPT !.brk = h.brk + more] EXCEPT !.hdr = d] EXCEPT !.hdr = e]
      BY <1>2, <2>3 DEF Heaps
    <3>2. u = [h EXCEPT !.brk = @ + more, !.hdr[at].size = size, !.hdr[at].isFree = FALSE]
      BY <1>2, <2>1, <3>1 DEF Heaps
    <3> QED
      BY <1>1, <1>4, <2>5, <3>2 DEF ExtendTail
  <2>7. /\ g \in Heaps /\ g.isInit = h.isInit /\ g.brk = h.brk + more /\ g.tail = at /\ g.hdr = e
        /\ \A c \in Addr : g.mem[c] = IF at + H <= c /\ c < End(u, at) THEN Zero ELSE h.mem[c]
    BY <1>1, <1>2, <2>4, <2>5, ClearIs
  <2>8. /\ End(u, at) = End(h, at) + more /\ End(g, at) = End(h, at) + more
        /\ \A a \in Addr : a # at => End(g, a) = End(h, a)
    <3>1. End(u, at) = at + H + size /\ End(g, at) = at + H + size
      BY <2>2, <2>4, <2>7 DEF End
    <3>2. at + H + size = End(h, at) + more
      BY <1>2, Numbers
    <3> QED
      BY <2>2, <2>7, <3>1, <3>2 DEF End
  <2>9. SlotsOf(g) = SlotsOf(h)
    <3>1. at \in SlotsOf(g)
      BY <1>2, <2>2, <2>7, SlotIs
    <3> QED
      BY <1>2, <2>2, <2>7, <3>1 DEF SlotsOf
  <2>10. \A a \in SlotsOf(h) : a \in Addr /\ a \in Nat /\ a <= at /\ (a # at => End(h, a) <= at)
                              /\ End(h, a) \in Int /\ a + H <= End(h, a)
    <3> SUFFICES ASSUME NEW a \in SlotsOf(h)
                 PROVE  a \in Addr /\ a \in Nat /\ a <= at /\ (a # at => End(h, a) <= at)
                        /\ End(h, a) \in Int /\ a + H <= End(h, a)
      OBVIOUS
    <3>1. a \in Addr /\ a <= at
      BY <1>1, <1>2 DEF SlotsOf, Listed
    <3>2. a \in Nat /\ (a < at => End(h, a) <= at) /\ End(h, a) \in Int /\ a + H <= End(h, a)
      BY <1>2, Room
    <3>3. a # at => a < at
      BY <1>2, <3>1, <3>2
    <3> QED
      BY <3>1, <3>2, <3>3
  <2>11. Listed(g, tight)
    <3>1. \A a \in SlotsOf(h) : h.hdr[a].next # Nil => Linked(g, a, g.hdr[a].next, tight)
      <4> SUFFICES ASSUME NEW a \in SlotsOf(h), h.hdr[a].next # Nil, NEW b, b = h.hdr[a].next
                   PROVE  Linked(g, a, b, tight)
        BY <2>2, <2>7, <2>10
      <4>1. Linked(h, a, b, tight) /\ a # at /\ b \in Addr
        BY <1>1, <1>2 DEF Listed, Linked, SlotsOf
      <4>2. g.hdr[b].prev = h.hdr[b].prev /\ End(g, a) = End(h, a)
        BY <2>2, <2>7, <2>8, <2>10, <4>1
      <4> QED
        BY <2>9, <4>1, <4>2 DEF Linked
    <3>2. \A a \in SlotsOf(h) : /\ g.hdr[a].size >= 0
                                /\ g.hdr[a].next = h.hdr[a].next /\ g.hdr[a].prev = h.hdr[a].prev
      <4>1. size >= 0
        OBVIOUS
      <4> QED
        BY <1>2, <2>2, <2>7, <2>10, <4>1 DEF Listed
    <3>3. \A a \in SlotsOf(h) \ {head} : g.hdr[a].prev \in SlotsOf(h) /\ g.hdr[g.hdr[a].prev].next = a
      <4> SUFFICES ASSUME NEW a \in SlotsOf(h) \ {head}, NEW p, p = h.hdr[a].prev
                   PROVE  p \in SlotsOf(h) /\ g.hdr[a].prev = p /\ g.hdr[p].next = a
        OBVIOUS
      <4>1. p \in SlotsOf(h) /\ h.hdr[p].next = a
        BY <1>2 DEF Listed
      <4> QED
        BY <3>2, <4>1
    <3>4. g.hdr[head] = h.hdr[head]
      BY <1>2, <2>2, <2>7, Numbers DEF head
    <3>5. End(g, at) <= g.brk /\ (tight => End(g, at) = g.brk)
      <4>1. End(h, at) \in Int /\ h.brk \in Int /\ more \in Int
        BY <1>2, <2>10
      <4> QED
        BY <1>2, <2>7, <2>8, <4>1
    <3>6. \A a \in SlotsOf(h) : h.hdr[a].next = Nil => a = at /\ \A c \in SlotsOf(h) : c <= a
      BY <1>1, <1>2 DEF Listed
    <3>7. /\ head \in SlotsOf(h) /\ h.hdr[head].prev = Nil /\ ~h.hdr[head].isFree
          /\ h.hdr[head].size = 0 /\ h.hdr[at].next = Nil /\ h.isInit
      BY <1>1, <1>2 DEF Listed
    <3> QED
      BY <1>2, <2>7, <2>9, <3>1, <3>2, <3>3, <3>4, <3>5, <3>6, <3>7 DEF Listed
  <2>12. \A a \in SlotsOf(h) \ {at} : \A c \in Addr : c < End(h, a) => g.mem[c] = h.mem[c]
    <3> SUFFICES ASSUME NEW a \in SlotsOf(h) \ {at}, NEW c \in Addr, c < End(h, a)
                 PROVE  ~(at + H <= c)
      BY <2>7
    <3>1. End(h, a) <= at /\ End(h, a) \in Int /\ c \in Int /\ at \in Int /\ c < End(h, a)
      BY <1>2, <2>10, Numbers
    <3>2. H \in Int /\ H >= 1
      BY Numbers
    <3> QED
      BY <3>1, <3>2
  <2>13. Stamped(g)
    <3> SUFFICES ASSUME NEW a \in SlotsOf(h), NEW c \in Addr
                 PROVE  /\ a <= c /\ c < a + H => g.mem[c] = Head
                        /\ g.hdr[a].isFree /\ a + H <= c /\ c < End(g, a) => g.mem[c] = Zero
      BY <2>9 DEF Stamped
    <3>1. CASE a = at
      <4>1. a <= c /\ c < a + H => ~(at + H <= c)
        <5>1. a \in Int /\ c \in Int /\ H \in Int
          BY <1>2, <3>1, Numbers
        <5> QED
          BY <3>1, <5>1
      <4> QED
        BY <1>2, <2>2, <2>7, <3>1, <4>1 DEF Stamped
    <3>2. CASE a # at
      <4>1. g.hdr[a] = h.hdr[a] /\ End(g, a) = End(h, a) /\ (c < a + H => c < End(h, a))
        <5>1. a + H <= End(h, a) /\ End(h, a) \in Int /\ a \in Nat /\ c \in Nat
          BY <2>10, Numbers
        <5> QED
          BY <2>2, <2>7, <2>8, <2>10, <3>2, <5>1, Numbers
      <4>2. c < End(h, a) => g.mem[c] = h.mem[c]
        BY <2>12, <3>2
      <4> QED
        BY <1>2, <4>1, <4>2 DEF Stamped
    <3> QED
      BY <3>1, <3>2
  <2>14. \A a \in Addr : ~Pair(g, a)
    <3> SUFFICES ASSUME NEW a \in Addr, Pair(g, a) PROVE FALSE
      OBVIOUS
    <3>1. a \in SlotsOf(h) /\ a # at /\ h.hdr[a].isFree /\ h.hdr[a].next # Nil
      BY <2>2, <2>7, <2>9 DEF Pair
    <3>2. h.hdr[a].next \in SlotsOf(h) /\ h.hdr[a].next \in Addr
      BY <1>2, <3>1 DEF Listed, Linked, SlotsOf
    <3>3. h.hdr[h.hdr[a].next].isFree
      BY <2>2, <2>7, <3>1, <3>2 DEF Pair
    <3> QED
      BY <3>1, <3>3 DEF Good, Pair
  <2>15. /\ at \notin Used(h) /\ Used(g) = Used(h) \cup {at}
    BY <1>1, <1>2, <2>2, <2>7, <2>9 DEF Used, SlotsOf
  <2>16. Keeps(h, g, Nil)
    <3>1. \A a \in Used(h) : a \in SlotsOf(h) \ {at} /\ a \in Addr
      BY <2>15 DEF Used, SlotsOf
    <3> QED
      BY <2>2, <2>7, <2>12, <2>15, <3>1 DEF Keeps
  <2>17. g.hdr[at].size >= size /\ \A c \in Addr : at + H <= c /\ c < End(g, at) => g.mem[c] = Zero
    BY <2>2, <2>7, <2>8
  <2>18. Taken(h, g, tight, at, size)
    BY <1>2, <2>11, <2>13, <2>14, <2>15, <2>16, <2>17 DEF Taken, Good, Blank
  <2> QED
    BY <1>1, <2>6, <2>18 DEF result
<1> QED
  BY <1>3, <1>4

-----------------------------------------------------------------------------
(* The slot behind a slot.                                                 *)
LEMMA After ==
  ASSUME NEW h, NEW tight, Listed(h, tight), NEW a \in SlotsOf(h), NEW n, n = h.hdr[a].next
  PROVE  /\ a \in Addr /\ a \in Nat /\ n \in Addr \cup {Nil}
         /\ n = Nil => a = h.tail /\ \A c \in SlotsOf(h) : c <= a
         /\ n # Nil => /\ n \in SlotsOf(h) /\ n \in Addr /\ n \in Nat /\ n # head /\ a < n
                       /\ End(h, a) <= n /\ (tight => End(h, a) = n) /\ h.hdr[n].prev = a
                       /\ \A c \in SlotsOf(h) : c <= a \/ n <= c
<1>1. a \in Addr /\ a \in Nat /\ n \in Addr \cup {Nil} /\ a # Nil
  BY HeapType, Numbers DEF Listed, SlotsOf
<1>2. n = Nil => a = h.tail /\ \A c \in SlotsOf(h) : c <= a
  BY DEF Listed
<1>3. ASSUME n # Nil
      PROVE  /\ n \in SlotsOf(h) /\ n \in Addr /\ n \in Nat /\ n # head /\ a < n
             /\ End(h, a) <= n /\ (tight => End(h, a) = n) /\ h.hdr[n].prev = a
             /\ \A c \in SlotsOf(h) : c <= a \/ n <= c
  <2>1. Linked(h, a, n, tight)
    BY <1>3 DEF Listed
  <2>2. n \in Addr /\ n \in Nat
    BY <1>1, <1>3, Numbers
  <2>3. a < n
    <3>1. End(h, a) \in Int /\ a + H <= End(h, a) /\ End(h, a) <= n
      BY <2>1, Room DEF Linked
    <3>2. H \in Int /\ H >= 1
      BY Numbers
    <3> QED
      BY <1>1, <2>2, <3>1, <3>2
  <2>4. n # head
    BY <1>1, <2>1 DEF Listed, Linked
  <2> QED
    BY <2>1, <2>2, <2>3, <2>4 DEF Linked
<1> QED
  BY <1>1, <1>2, <1>3

(* A slot new is put behind at (split_slot, mm_malloc).                    *)
LEMMA InsertIs ==
  ASSUME NEW h, NEW tight, Listed(h, tight), NEW at \in SlotsOf(h), NEW nx, nx = h.hdr[at].next,
         NEW new \in Addr, new \notin SlotsOf(h), NEW g \in Heaps, g.isInit = h.isInit,
         new \in SlotsOf(g), \A a \in SlotsOf(h) : a \in SlotsOf(g),
         \A a \in SlotsOf(g) : a = new \/ a \in SlotsOf(h),
         g.hdr[at].next = new /\ g.hdr[at].prev = h.hdr[at].prev /\ g.hdr[at].size >= 0,
         End(g, at) <= new /\ (tight => End(g, at) = new),
         at = head => g.hdr[at].size = 0 /\ ~g.hdr[at].isFree,
         g.hdr[new].prev = at /\ g.hdr[new].next = nx /\ g.hdr[new].size >= 0,
         nx = Nil => g.tail = new /\ End(g, new) <= g.brk /\ (tight => End(g, new) = g.brk),
         nx # Nil => /\ g.tail = h.tail /\ g.brk = h.brk
                     /\ End(g, new) <= nx /\ (tight => End(g, new) = nx)
                     /\ g.hdr[nx].prev = new /\ g.hdr[nx].next = h.hdr[nx].next
                     /\ g.hdr[nx].size = h.hdr[nx].size,
         \A a \in SlotsOf(h) \ {at, nx} : g.hdr[a] = h.hdr[a]
  PROVE  Listed(g, tight)
<1>1. /\ at \in Addr /\ at \in Nat /\ nx \in Addr \cup {Nil} /\ new \in Nat
      /\ nx = Nil => at = h.tail /\ \A c \in SlotsOf(h) : c <= at
      /\ nx # Nil => /\ nx \in SlotsOf(h) /\ nx \in Addr /\ nx \in Nat /\ nx # head /\ at < nx
                     /\ h.hdr[nx].prev = at /\ \A c \in SlotsOf(h) : c <= at \/ nx <= c
  BY After, Numbers
<1>2. \A a \in SlotsOf(h) : a \in Addr /\ a \in Nat
  BY Numbers DEF SlotsOf
<1>3. at < new /\ (nx # Nil => new < nx)
  <2>1. End(g, at) = at + H + g.hdr[at].size /\ End(g, new) = new + H + g.hdr[new].size
    BY DEF End
  <2>2. g.hdr[at].size \in Int /\ g.hdr[new].size \in Int /\ H \in Int /\ H >= 1
    BY <1>1, HeapType, Numbers
  <2> QED
    BY <1>1, <2>1, <2>2
<1>4. \A c \in SlotsOf(h) : c <= at \/ (nx # Nil /\ nx <= c /\ new < c)
  <2> SUFFICES ASSUME NEW c \in SlotsOf(h), ~(c <= at)
               PROVE  nx # Nil /\ nx <= c /\ new < c
    OBVIOUS
  <2>1. nx # Nil /\ nx \in Nat /\ nx <= c /\ new < nx
    BY <1>1, <1>3
  <2>2. c \in Nat /\ new \in Nat
    BY <1>1, <1>2
  <2> QED
    BY ONLY <2>1, <2>2
<1>5. \A a \in SlotsOf(h) \ {at} : /\ g.hdr[a].next = h.hdr[a].next /\ g.hdr[a].size = h.hdr[a].size
                                   /\ End(g, a) = End(h, a)
                                   /\ a # nx => g.hdr[a].prev = h.hdr[a].prev
  <2> SUFFICES ASSUME NEW a \in SlotsOf(h) \ {at}
               PROVE  /\ g.hdr[a].next = h.hdr[a].next /\ g.hdr[a].size = h.hdr[a].size
                      /\ a # nx => g.hdr[a].prev = h.hdr[a].prev
    BY DEF End
  <2>1. CASE a = nx
    BY <1>1, <1>2, <2>1, Numbers
  <2>2. CASE a # nx
    BY <2>2
  <2> QED
    BY <2>1, <2>2
<1>6. Linked(g, at, new, tight) /\ (nx # Nil => Linked(g, new, nx, tight))
  <2>1. \A c \in SlotsOf(g) : c <= at \/ new <= c
    BY <1>1, <1>2, <1>4
  <2>2. nx # Nil => \A c \in SlotsOf(g) : c <= new \/ nx <= c
    BY <1>1, <1>2, <1>3, <1>4
  <2> QED
    BY <1>1, <2>1, <2>2 DEF Linked
<1>7. ASSUME NEW a \in SlotsOf(h) \ {at}, NEW b, b = h.hdr[a].next
      PROVE  /\ b = Nil => a = g.tail /\ \A c \in SlotsOf(g) : c <= a
             /\ b # Nil => Linked(g, a, b, tight)
  <2>1. /\ b = Nil => a = h.tail /\ \A c \in SlotsOf(h) : c <= a
        /\ b # Nil => /\ b \in SlotsOf(h) /\ b \in Nat /\ End(h, a) <= b /\ (tight => End(h, a) = b)
                      /\ h.hdr[b].prev = a /\ \A c \in SlotsOf(h) : c <= a \/ b <= c
    BY <1>7, After
  <2>2. a \in Nat /\ (a <= at \/ (nx # Nil /\ nx <= a /\ new < a))
    BY <1>2, <1>4
  <2>3. ASSUME b = Nil PROVE a = g.tail /\ \A c \in SlotsOf(g) : c <= a
    <3>1. at <= a /\ a # at
      BY <2>1, <2>3
    <3>2. nx # Nil /\ new < a
      BY <1>1, <2>2, <3>1
    <3> QED
      BY <1>1, <2>1, <2>2, <2>3, <3>2
  <2>4. ASSUME b # Nil PROVE Linked(g, a, b, tight)
    <3>1. b # nx
      BY <1>1, <2>1, <2>4
    <3>2. g.hdr[b].prev = a
      BY <1>5, <2>1, <2>4, <3>1
    <3>3. new <= a \/ b <= new
      <4>1. CASE a <= at
        <5>1. b <= at
          BY <1>1, <2>1, <2>2, <2>4, <4>1
        <5> QED
          BY <1>1, <1>3, <2>1, <2>4, <5>1
      <4>2. CASE new < a
        BY <1>1, <2>2, <4>2
      <4> QED
        BY <2>2, <4>1, <4>2
    <3>4. \A c \in SlotsOf(g) : c <= a \/ b <= c
      BY <2>1, <2>4, <3>3
    <3>5. End(g, a) = End(h, a) /\ b \in SlotsOf(g) /\ End(h, a) <= b /\ (tight => End(h, a) = b)
      BY <1>5, <2>1, <2>4
    <3> QED
      BY <3>2, <3>4, <3>5 DEF Linked
  <2> QED
    BY <2>3, <2>4
<1>8. \A a \in SlotsOf(g) : /\ g.hdr[a].size >= 0
                            /\ g.hdr[a].next = Nil => a = g.tail /\ \A c \in SlotsOf(g) : c <= a
                            /\ g.hdr[a].next # Nil => Linked(g, a, g.hdr[a].next, tight)
  <2> SUFFICES ASSUME NEW a \in SlotsOf(g)
               PROVE  /\ g.hdr[a].size >= 0
                      /\ g.hdr[a].next = Nil => a = g.tail /\ \A c \in SlotsOf(g) : c <= a
                      /\ g.hdr[a].next # Nil => Linked(g, a, g.hdr[a].next, tight)
    OBVIOUS
  <2>1. CASE a = at
    BY <1>1, <1>6, <2>1, Numbers
  <2>2. CASE a = new
    <3>1. nx = Nil => \A c \in SlotsOf(g) : c <= new
      BY <1>1, <1>2, <1>3
    <3> QED
      BY <1>6, <2>2, <3>1
  <2>3. CASE a \in SlotsOf(h) \ {at}
    <3>1. h.hdr[a].size >= 0
      BY <2>3 DEF Listed
    <3> QED
      BY <1>5, <1>7, <2>3, <3>1
  <2> QED
    BY <2>1, <2>2, <2>3
<1>9. \A a \in SlotsOf(g) \ {head} : g.hdr[a].prev \in SlotsOf(g) /\ g.hdr[g.hdr[a].prev].next = a
  <2> SUFFICES ASSUME NEW a \in SlotsOf(g) \ {head}, NEW p, p = g.hdr[a].prev
               PROVE  p \in SlotsOf(g) /\ g.hdr[p].next = a
    OBVIOUS
  <2>1. CASE a = new
    BY <1>1, <2>1
  <2>3. CASE a = nx /\ a # new
    <3>1. a \in SlotsOf(h) /\ nx # Nil
      BY <1>2, <2>3, Numbers
    <3> QED
      BY <2>3, <3>1
  <2>2. CASE a \in SlotsOf(h) \ {nx}
    <3>1. p = h.hdr[a].prev
      BY <1>5, <2>2
    <3>2. p \in SlotsOf(h) /\ h.hdr[p].next = a
      BY <2>2, <3>1 DEF Listed
    <3>3. p # at
      BY <2>2, <3>2
    <3> QED
      BY <1>5, <3>2, <3>3
  <2> QED
    BY <2>1, <2>2, <2>3
<1>10. /\ head \in SlotsOf(g) /\ g.hdr[head].prev = Nil /\ ~g.hdr[head].isFree
       /\ g.hdr[head].size = 0
  <2>1. head \in SlotsOf(h) /\ h.hdr[head].prev = Nil /\ ~h.hdr[head].isFree /\ h.hdr[head].size = 0
    BY DEF Listed
  <2>2. head # nx /\ head # Nil
    BY <1>1, <1>2, <2>1, Numbers
  <2>3. CASE head = at
    BY <1>1, <2>1, <2>3
  <2>4. CASE head # at
    BY <2>1, <2>2, <2>4
  <2> QED
    BY <2>3, <2>4
<1>11. /\ g.tail \in SlotsOf(g) /\ g.hdr[g.tail].next = Nil
       /\ End(g, g.tail) <= g.brk /\ (tight => End(g, g.tail) = g.brk)
  <2>1. CASE nx = Nil
    BY <2>1
  <2>2. CASE nx # Nil
    <3>1. /\ h.tail \in SlotsOf(h) /\ h.hdr[h.tail].next = Nil
          /\ End(h, h.tail) <= h.brk /\ (tight => End(h, h.tail) = h.brk)
      BY DEF Listed
    <3> QED
      BY <1>5, <2>2, <3>1
  <2> QED
    BY <2>1, <2>2
<1> QED
  BY <1>8, <1>9, <1>10, <1>11 DEF Listed

(* The slot n is behind a.                                                 *)
Behind(h, a, n) == n # Nil /\ h.hdr[a].next = n

(* In g the slot n behind a has become a part of it, the next one is nx.    *)
Removed(h, g, tight, a, n, nx) ==
  /\ g \in Heaps /\ g.isInit = h.isInit /\ g.brk = h.brk
  /\ n \notin SlotsOf(g)
  /\ \A c \in SlotsOf(h) \ {n} : c \in SlotsOf(g)
  /\ \A c \in SlotsOf(g) : c \in SlotsOf(h)
  /\ g.hdr[a].next = nx /\ g.hdr[a].prev = h.hdr[a].prev /\ g.hdr[a].size >= 0
  /\ End(g, a) <= End(h, n) /\ (tight => End(g, a) = End(h, n))
  /\ nx = Nil => g.tail = a
  /\ nx # Nil => /\ g.tail = h.tail
                 /\ g.hdr[nx].prev = a /\ g.hdr[nx].next = h.hdr[nx].next
                 /\ g.hdr[nx].size = h.hdr[nx].size
  /\ \A c \in SlotsOf(h) \ {a, n, nx} : g.hdr[c] = h.hdr[c]

(* A slot n is taken out of the list: the slot a in front of it ends       *)
(* where n ended (merge_free_space).                                       *)
LEMMA RemoveList ==
  ASSUME NEW h, NEW tight, Listed(h, tight), NEW a \in SlotsOf(h) \ {head},
         NEW n, Behind(h, a, n), NEW nx, nx = h.hdr[n].next,
         NEW g \in Heaps, g.isInit = h.isInit, g.brk = h.brk,
         n \notin SlotsOf(g), \A c \in SlotsOf(h) \ {n} : c \in SlotsOf(g),
         \A c \in SlotsOf(g) : c \in SlotsOf(h),
         g.hdr[a].next = nx /\ g.hdr[a].prev = h.hdr[a].prev /\ g.hdr[a].size >= 0,
         End(g, a) <= End(h, n) /\ (tight => End(g, a) = End(h, n)),
         nx = Nil => g.tail = a,
         nx # Nil => /\ g.tail = h.tail
                     /\ g.hdr[nx].prev = a /\ g.hdr[nx].next = h.hdr[nx].next
                     /\ g.hdr[nx].size = h.hdr[nx].size,
         \A c \in SlotsOf(h) \ {a, n, nx} : g.hdr[c] = h.hdr[c]
  PROVE  Listed(g, tight)
<1>1. /\ a \in Addr /\ a \in Nat /\ n \in SlotsOf(h) /\ n \in Addr /\ n \in Nat /\ n # head /\ a < n
      /\ h.hdr[n].prev = a /\ \A c \in SlotsOf(h) : c <= a \/ n <= c
  BY After DEF Behind
<1>2. /\ nx \in Addr \cup {Nil}
      /\ nx = Nil => n = h.tail /\ \A c \in SlotsOf(h) : c <= n
      /\ nx # Nil => /\ nx \in SlotsOf(h) /\ nx \in Addr /\ nx \in Nat /\ nx # head /\ n < nx
                     /\ End(h, n) <= nx /\ (tight => End(h, n) = nx) /\ h.hdr[nx].prev = n
                     /\ \A c \in SlotsOf(h) : c <= n \/ nx <= c
  BY <1>1, After
<1>3. \A c \in SlotsOf(h) : c \in Addr /\ c \in Nat /\ c # Nil
  BY Numbers DEF SlotsOf
<1>4. End(h, n) \in Int /\ End(g, a) \in Int
  <2>1. End(g, a) = a + H + g.hdr[a].size /\ g.hdr[a].size \in Int /\ H \in Int
    BY <1>1, HeapType, Numbers DEF End
  <2> QED
    BY <1>1, <2>1, Room
<1>5. \A c \in SlotsOf(h) \ {a, n} : /\ g.hdr[c].next = h.hdr[c].next /\ g.hdr[c].size = h.hdr[c].size
                                     /\ End(g, c) = End(h, c)
                                     /\ c # nx => g.hdr[c].prev = h.hdr[c].prev
  <2> SUFFICES ASSUME NEW c \in SlotsOf(h) \ {a, n}
               PROVE  /\ g.hdr[c].next = h.hdr[c].next /\ g.hdr[c].size = h.hdr[c].size
                      /\ c # nx => g.hdr[c].prev = h.hdr[c].prev
    BY DEF End
  <2>1. CASE c = nx
    BY <1>3, <2>1
  <2>2. CASE c # nx
    BY <2>2
  <2> QED
    BY <2>1, <2>2
<1>6. /\ nx # Nil => Linked(g, a, nx, tight)
      /\ nx = Nil => \A c \in SlotsOf(g) : c <= a
  <2>1. \A c \in SlotsOf(g) : c \in Nat /\ c # n /\ (c <= a \/ n < c)
    BY <1>1, <1>3
  <2>2. ASSUME nx # Nil PROVE Linked(g, a, nx, tight)
    <3>0. /\ nx \in SlotsOf(h) /\ nx \in Nat /\ n < nx /\ n \in Nat
          /\ End(h, n) <= nx /\ (tight => End(h, n) = nx)
      BY <1>1, <1>2, <2>2
    <3>4. \A c \in SlotsOf(h) : c <= n \/ nx <= c
      BY <1>2, <2>2
    <3>1. \A c \in SlotsOf(g) : c <= a \/ nx <= c
      <4> SUFFICES ASSUME NEW c \in SlotsOf(g), ~(c <= a) PROVE nx <= c
        OBVIOUS
      <4>1. c \in Nat /\ n < c
        BY <2>1
      <4>2. c <= n \/ nx <= c
        BY <3>4
      <4> QED
        BY <3>0, <4>1, <4>2
    <3>2. nx \in SlotsOf(g) /\ End(g, a) <= nx /\ (tight => End(g, a) = nx) /\ g.hdr[nx].prev = a
      <4>1. nx # n /\ nx \in SlotsOf(g)
        BY <3>0
      <4>2. g.hdr[nx].prev = a
        BY <2>2
      <4>3. End(g, a) <= nx
        BY <1>4, <3>0
      <4>4. tight => End(g, a) = nx
        BY <3>0
      <4> QED
        BY <4>1, <4>2, <4>3, <4>4
    <3> QED
      BY <3>1, <3>2 DEF Linked
  <2>3. ASSUME nx = Nil PROVE \A c \in SlotsOf(g) : c <= a
    BY <1>1, <1>2, <2>1, <2>3
  <2> QED
    BY <2>2, <2>3
<1>7. ASSUME NEW c \in SlotsOf(h) \ {a, n}, NEW b, b = h.hdr[c].next
      PROVE  /\ b = Nil => c = g.tail /\ \A e \in SlotsOf(g) : e <= c
             /\ b # Nil => Linked(g, c, b, tight)
  <2>1. /\ b = Nil => c = h.tail /\ \A e \in SlotsOf(h) : e <= c
        /\ b # Nil => /\ b \in SlotsOf(h) /\ End(h, c) <= b /\ (tight => End(h, c) = b)
                      /\ h.hdr[b].prev = c /\ \A e \in SlotsOf(h) : e <= c \/ b <= e
    BY <1>7, After
  <2>2. ASSUME b = Nil PROVE c = g.tail /\ \A e \in SlotsOf(g) : e <= c
    <3>1. nx # Nil
      BY <1>2, <2>1, <2>2
    <3> QED
      BY <2>1, <2>2, <3>1
  <2>3. ASSUME b # Nil PROVE Linked(g, c, b, tight)
    <3>1. b # n /\ b # nx
      BY <1>1, <1>2, <1>3, <2>1, <2>3
    <3>2. b \in SlotsOf(g) /\ g.hdr[b].prev = c /\ End(g, c) = End(h, c)
      <4>1. CASE b = a
        BY <1>1, <1>5, <2>1, <2>3, <4>1
      <4>2. CASE b # a
        BY <1>5, <2>1, <2>3, <3>1, <4>2
      <4> QED
        BY <4>1, <4>2
    <3>3. \A e \in SlotsOf(g) : e <= c \/ b <= e
      BY <2>1, <2>3
    <3> QED
      BY <2>1, <2>3, <3>2, <3>3 DEF Linked
  <2> QED
    BY <2>2, <2>3
<1>8. \A c \in SlotsOf(g) : /\ g.hdr[c].size >= 0
                            /\ g.hdr[c].next = Nil => c = g.tail /\ \A e \in SlotsOf(g) : e <= c
                            /\ g.hdr[c].next # Nil => Linked(g, c, g.hdr[c].next, tight)
  <2> SUFFICES ASSUME NEW c \in SlotsOf(g)
               PROVE  /\ g.hdr[c].size >= 0
                      /\ g.hdr[c].next = Nil => c = g.tail /\ \A e \in SlotsOf(g) : e <= c
                      /\ g.hdr[c].next # Nil => Linked(g, c, g.hdr[c].next, tight)
    OBVIOUS
  <2>1. CASE c = a
    BY <1>6, <2>1
  <2>2. CASE c \in SlotsOf(h) \ {a, n}
    <3>1. h.hdr[c].size >= 0
      BY <2>2 DEF Listed
    <3> QED
      BY <1>5, <1>7, <2>2, <3>1
  <2> QED
    BY <2>1, <2>2
<1>9. \A c \in SlotsOf(g) \ {head} : g.hdr[c].prev \in SlotsOf(g) /\ g.hdr[g.hdr[c].prev].next = c
  <2> SUFFICES ASSUME NEW c \in SlotsOf(g) \ {head}, NEW p, p = g.hdr[c].prev
               PROVE  p \in SlotsOf(g) /\ g.hdr[p].next = c
    OBVIOUS
  <2>1. CASE c = nx
    <3>1. nx # Nil
      BY <1>3, <2>1
    <3> QED
      BY <1>1, <2>1, <3>1
  <2>2. CASE c # nx
    <3>1. p = h.hdr[c].prev /\ c \in SlotsOf(h) /\ c # n
      <4>1. CASE c = a
        BY <1>1, <4>1
      <4>2. CASE c # a
        BY <1>5, <2>2, <4>2
      <4> QED
        BY <4>1, <4>2
    <3>2. p \in SlotsOf(h) /\ h.hdr[p].next = c
      BY <2>2, <3>1 DEF Listed
    <3>3. p # a /\ p # n
      BY <2>2, <3>1, <3>2 DEF Behind
    <3> QED
      BY <1>5, <3>2, <3>3
  <2> QED
    BY <2>1, <2>2
<1>10. /\ head \in SlotsOf(g) /\ g.hdr[head].prev = Nil /\ ~g.hdr[head].isFree
       /\ g.hdr[head].size = 0
  <2>1. head \in SlotsOf(h) /\ h.hdr[head].prev = Nil /\ ~h.hdr[head].isFree /\ h.hdr[head].size = 0
    BY DEF Listed
  <2>2. head # nx /\ head # n /\ head # a
    BY <1>1, <1>2, <1>3, <2>1
  <2> QED
    BY <2>1, <2>2
<1>11. /\ g.tail \in SlotsOf(g) /\ g.hdr[g.tail].next = Nil
       /\ End(g, g.tail) <= g.brk /\ (tight => End(g, g.tail) = g.brk)
  <2>1. /\ h.tail \in SlotsOf(h) /\ h.hdr[h.tail].next = Nil
        /\ End(h, h.tail) <= h.brk /\ (tight => End(h, h.tail) = h.brk)
        /\ h.brk \in Int
    BY HeapType DEF Listed
  <2>2. CASE nx = Nil
    <3>1. n = h.tail /\ g.tail = a /\ a \in SlotsOf(g)
      BY <1>1, <1>2, <2>2
    <3> QED
      BY <1>4, <2>1, <2>2, <3>1
  <2>3. CASE nx # Nil
    <3>1. h.tail # n /\ h.tail # a
      BY <2>1, <2>3 DEF Behind
    <3> QED
      BY <1>5, <2>1, <2>3, <3>1
  <2> QED
    BY <2>2, <2>3
<1> QED
  BY <1>8, <1>9, <1>10, <1>11 DEF Listed

(* The same, with what it takes as one predicate.                          *)
LEMMA RemoveIs ==
  ASSUME NEW h, NEW tight, Listed(h, tight), NEW a \in SlotsOf(h) \ {head},
         NEW n, Behind(h, a, n), NEW nx, nx = h.hdr[n].next,
         NEW g, Removed(h, g, tight, a, n, nx)
  PROVE  Listed(g, tight)
  BY RemoveList DEF Removed

(* A new slot at the break.                                                *)
LEMMA NewSlotIs ==
  ASSUME NEW h, NEW tight, Good(h, tight), NEW size \in Nat, ~h.hdr[h.tail].isFree,
         NEW r, r = NewSlot(h, size)
  PROVE  \/ r = result(h, Nil)
         \/ h.brk \in Addr /\ r = result(r.heap, h.brk + H) /\ Taken(h, r.heap, tight, h.brk, size)
<1>1. PICK at, t : at = h.brk /\ t = h.tail
  OBVIOUS
<1>2. /\ Listed(h, tight) /\ Stamped(h) /\ h \in Heaps /\ t \in SlotsOf(h) /\ h.hdr[t].next = Nil
      /\ End(h, t) <= at /\ (tight => End(h, t) = at) /\ head \in SlotsOf(h)
  BY <1>1 DEF Good, Listed
<1>3. /\ h.hdr \in [Addr -> SlotRec] /\ at \in Int /\ at >= 0 /\ H \in Int /\ H >= 1 /\ MaxBrk \in Int
      /\ t \in Addr
  <2>1. h.brk \in 0 .. MaxBrk /\ h.hdr \in [Addr -> SlotRec]
    BY <1>2, HeapType
  <2> QED
    BY <1>1, <1>2, <2>1, Numbers DEF SlotsOf
<1>4. CASE at + H + size > MaxBrk
  BY <1>1, <1>4 DEF NewSlot
<1>5. CASE ~(at + H + size > MaxBrk)
  <2>1. at \in Addr /\ at + H + size \in 0 .. MaxBrk
    BY <1>3, <1>5, Numbers
  <2>2. PICK d : d = [h.hdr EXCEPT ![t].next = at]
    OBVIOUS
  <2>3. /\ d \in [Addr -> SlotRec] /\ \A a \in Addr : a # t => d[a] = h.hdr[a]
        /\ d[t].next = at /\ d[t].prev = h.hdr[t].prev /\ d[t].isFree = h.hdr[t].isFree
        /\ d[t].size = h.hdr[t].size
    <3>1. at \in Addr \cup {Nil} /\ t \in Addr /\ h.hdr \in [Addr -> SlotRec]
      BY <1>3, <2>1
    <3>2. d \in [Addr -> SlotRec] /\ \A a \in Addr : a # t => d[a] = h.hdr[a]
      BY <2>2, <3>1, NextIs
    <3>3. d[t].next = at /\ d[t].prev = h.hdr[t].prev /\ d[t].size = h.hdr[t].size
      BY <2>2, <3>1, NextIs
    <3>4. d[t].isFree = h.hdr[t].isFree
      BY <2>2, <3>1, NextIs
    <3> QED
      BY <3>2, <3>3, <3>4
  <2>4. PICK u : u = [[[h EXCEPT !.brk = at + H + size] EXCEPT !.hdr = d] EXCEPT !.tail = at]
    OBVIOUS
  <2>5. /\ u \in Heaps /\ u.isInit = h.isInit /\ u.brk = at + H + size /\ u.tail = at
        /\ u.hdr = d /\ u.mem = h.mem
    BY <1>2, <2>1, <2>3, <2>4 DEF Heaps
  <2>6. PICK s : s = slot(t, Nil, FALSE, size)
    OBVIOUS
  <2>7. s \in SlotRec /\ s.prev = t /\ s.next = Nil /\ ~s.isFree /\ s.size = size
    BY <1>3, <2>6 DEF slot, SlotRec
  <2>8. PICK v, g : v = SetSlot(u, at, s) /\ g = Clear(v, at)
    OBVIOUS
  <2>9. r = result(g, at + H)
    <3>1. u = [h EXCEPT !.brk = @ + H + size, !.hdr[h.tail].next = at, !.tail = at]
      BY <1>1, <1>2, <2>2, <2>4 DEF Heaps
    <3> QED
      BY <1>1, <1>5, <2>6, <2>8, <3>1 DEF NewSlot
  <2>10. /\ v \in Heaps /\ v.isInit = h.isInit /\ v.brk = at + H + size /\ v.tail = at
         /\ v.hdr = [d EXCEPT ![at] = s]
         /\ \A c \in Addr : v.mem[c] = IF at <= c /\ c < at + H THEN Head ELSE h.mem[c]
    BY <2>1, <2>5, <2>7, <2>8, SetSlotIs
  <2>11. /\ g \in Heaps /\ g.isInit = h.isInit /\ g.brk = at + H + size /\ g.tail = at /\ g.hdr = v.hdr
         /\ \A c \in Addr : g.mem[c] = IF at + H <= c /\ c < End(v, at) THEN Zero ELSE v.mem[c]
    BY <2>1, <2>8, <2>10, ClearIs
  <2>12. \A a \in SlotsOf(h) : /\ a \in Addr /\ a \in Int /\ a >= 0 /\ a # at /\ a < at
                               /\ End(h, a) \in Int /\ End(h, a) <= at /\ a + H <= End(h, a)
                               /\ h.hdr[a].size >= 0
    <3> SUFFICES ASSUME NEW a \in SlotsOf(h)
                 PROVE  /\ a \in Addr /\ a \in Int /\ a >= 0 /\ a # at /\ a < at
                        /\ End(h, a) \in Int /\ End(h, a) <= at /\ a + H <= End(h, a)
                        /\ h.hdr[a].size >= 0
      OBVIOUS
    <3>1. /\ a \in Nat /\ End(h, a) \in Int /\ End(h, a) <= at /\ a + H <= End(h, a)
          /\ h.hdr[a].size \in Nat
      BY <1>1, <1>2, Room
    <3>2. a < at
      BY <1>3, <3>1
    <3> QED
      BY <1>3, <3>1, <3>2 DEF SlotsOf
  <2>13. at \notin SlotsOf(h)
    BY <2>12
  <2>14. /\ g.hdr[at] = s /\ g.hdr[t] = d[t] /\ t # at
         /\ \A a \in Addr : a # t /\ a # at => g.hdr[a] = h.hdr[a]
    BY <1>2, <1>3, <2>1, <2>3, <2>10, <2>11, <2>12
  <2>15. \A a \in SlotsOf(h) : /\ g.hdr[a].size = h.hdr[a].size /\ g.hdr[a].isFree = h.hdr[a].isFree
                               /\ g.hdr[a].prev = h.hdr[a].prev /\ End(g, a) = End(h, a)
                               /\ a # t => g.hdr[a].next = h.hdr[a].next
    BY <2>3, <2>12, <2>14 DEF End
  <2>16. at \in SlotsOf(g) /\ (\A a \in SlotsOf(h) : a \in SlotsOf(g))
         /\ (\A a \in SlotsOf(g) : a = at \/ a \in SlotsOf(h))
    <3>1. at \in SlotsOf(g)
      <4>1. g.hdr[at].size >= 0
        BY <2>7, <2>14
      <4> QED
        BY <2>1, <2>11, <4>1, SlotIs
    <3>2. \A a \in SlotsOf(h) : a \in SlotsOf(g)
      <4> SUFFICES ASSUME NEW a \in SlotsOf(h) PROVE a \in SlotsOf(g)
        OBVIOUS
      <4>1. a \in Addr /\ g.hdr[a].size >= 0
        BY <2>12, <2>15
      <4> QED
        BY <2>11, <4>1, SlotIs
    <3>3. \A a \in SlotsOf(g) : a = at \/ a \in SlotsOf(h)
      BY <1>2, <2>14 DEF SlotsOf
    <3> QED
      BY <3>1, <3>2, <3>3
  <2>17. End(g, at) = at + H + size /\ End(v, at) = at + H + size
    BY <2>7, <2>11, <2>14 DEF End
  <2>18. Listed(g, tight)
    <3>1. g.hdr[t].next = at /\ g.hdr[t].prev = h.hdr[t].prev /\ g.hdr[t].size >= 0
      BY <1>2, <2>3, <2>12, <2>14
    <3>2. End(g, t) <= at /\ (tight => End(g, t) = at)
      BY <1>2, <2>15
    <3>3. t = head => g.hdr[t].size = 0 /\ ~g.hdr[t].isFree
      BY <1>2, <2>15 DEF Listed
    <3>4. g.hdr[at].prev = t /\ g.hdr[at].next = Nil /\ g.hdr[at].size >= 0
      BY <2>7, <2>14
    <3>5. g.tail = at /\ End(g, at) <= g.brk /\ (tight => End(g, at) = g.brk)
      BY <1>3, <2>11, <2>17
    <3>6. \A a \in SlotsOf(h) \ {t, Nil} : g.hdr[a] = h.hdr[a]
      BY <2>12, <2>14
    <3> QED
      BY <1>2, <2>1, <2>11, <2>13, <2>16, <3>1, <3>2, <3>3, <3>4, <3>5, <3>6, InsertIs
  <2>19. \A a \in SlotsOf(h) : \A c \in Addr : c < End(h, a) => g.mem[c] = h.mem[c]
    <3> SUFFICES ASSUME NEW a \in SlotsOf(h), NEW c \in Addr, c < End(h, a)
                 PROVE  ~(at + H <= c) /\ ~(at <= c)
      BY <2>10, <2>11
    <3>1. End(h, a) <= at /\ End(h, a) \in Int /\ c \in Int /\ c < End(h, a)
      BY <2>12, Numbers
    <3> QED
      BY <1>3, <3>1
  <2>20. Stamped(g)
    <3> SUFFICES ASSUME NEW a \in SlotsOf(g), NEW c \in Addr
                 PROVE  /\ a <= c /\ c < a + H => g.mem[c] = Head
                        /\ g.hdr[a].isFree /\ a + H <= c /\ c < End(g, a) => g.mem[c] = Zero
      BY DEF Stamped
    <3>1. CASE a = at
      <4>1. c < at + H => ~(at + H <= c)
        BY <1>3, Numbers
      <4>2. ~g.hdr[at].isFree
        BY <2>7, <2>14
      <4> QED
        BY <2>10, <2>11, <3>1, <4>1, <4>2
    <3>2. CASE a \in SlotsOf(h)
      <4>1. c < a + H => c < End(h, a)
        <5>1. a \in Int /\ c \in Int /\ End(h, a) \in Int /\ a + H <= End(h, a)
          BY <2>12, <3>2, Numbers
        <5> QED
          BY <1>3, <5>1
      <4>2. c < End(h, a) => g.mem[c] = h.mem[c]
        BY <2>19, <3>2
      <4>3. End(g, a) = End(h, a) /\ g.hdr[a].isFree = h.hdr[a].isFree
        BY <2>15, <3>2
      <4>4. /\ a <= c /\ c < a + H => h.mem[c] = Head
            /\ h.hdr[a].isFree /\ a + H <= c /\ c < End(h, a) => h.mem[c] = Zero
        BY <1>2, <3>2 DEF Stamped
      <4> QED
        BY <4>1, <4>2, <4>3, <4>4
    <3> QED
      BY <2>16, <3>1, <3>2
  <2>21. \A a \in Addr : ~Pair(g, a)
    <3> SUFFICES ASSUME NEW a \in Addr, Pair(g, a) PROVE FALSE
      OBVIOUS
    <3>1. a \in SlotsOf(g) /\ g.hdr[a].isFree /\ g.hdr[a].next # Nil /\ g.hdr[g.hdr[a].next].isFree
      BY DEF Pair
    <3>2. a # at
      BY <2>7, <2>14, <3>1
    <3>3. a \in SlotsOf(h)
      BY <2>16, <3>1, <3>2
    <3>4. h.hdr[a].isFree
      BY <2>15, <3>1, <3>3
    <3>5. a # t
      BY <1>1, <3>4
    <3>6. g.hdr[a].next = h.hdr[a].next
      BY <2>15, <3>3, <3>5
    <3>7. h.hdr[a].next \in SlotsOf(h)
      BY <1>2, <3>1, <3>3, <3>6, After
    <3>8. h.hdr[h.hdr[a].next].isFree
      BY <2>15, <3>1, <3>6, <3>7
    <3> QED
      BY <3>1, <3>3, <3>4, <3>6, <3>8 DEF Good, Pair
  <2>22. at \notin Used(h) /\ Used(g) = Used(h) \cup {at}
    <3>1. at \notin Used(h)
      BY <2>13 DEF Used
    <3>2. \A a \in SlotsOf(h) : a \in Used(g) <=> a \in Used(h)
      BY <2>15, <2>16 DEF Used
    <3>3. at \in Used(g)
      BY <1>2, <2>7, <2>13, <2>14, <2>16 DEF Used
    <3>4. \A a \in Used(g) : a = at \/ a \in SlotsOf(h)
      BY <2>16 DEF Used
    <3>5. \A a \in Used(h) : a \in SlotsOf(h)
      BY DEF Used
    <3> QED
      BY <3>1, <3>2, <3>3, <3>4, <3>5
  <2>23. Keeps(h, g, Nil)
    <3>1. \A a \in Used(h) : a \in SlotsOf(h)
      BY DEF Used
    <3> QED
      BY <2>15, <2>19, <2>22, <3>1 DEF Keeps
  <2>24. g.hdr[at].size >= size /\ \A c \in Addr : at + H <= c /\ c < End(g, at) => g.mem[c] = Zero
    BY <2>7, <2>11, <2>14, <2>17
  <2>25. Taken(h, g, tight, at, size)
    BY <2>1, <2>18, <2>20, <2>21, <2>22, <2>23, <2>24 DEF Taken, Good, Blank
  <2> QED
    BY <1>1, <2>1, <2>9, <2>25 DEF result
<1> QED
  BY <1>4, <1>5

(* What split_slot writes, when it splits.                                 *)
Split(h, at, size, new, rest) ==
  LET s    == slot(at, h.hdr[at].next, TRUE, rest)
      e    == slot(h.hdr[at].prev, new, h.hdr[at].isFree, size)
      u    == [h EXCEPT !.hdr[at] = e]
      v    == SetSlot(u, new, s)
      w    == IF s.next = Nil THEN [v EXCEPT !.tail = new] ELSE [v EXCEPT !.hdr[s.next].prev = new]
  IN Clear(Clear(w, new), at)

(* split_slot splits a slot that is large enough.                          *)
LEMMA SplitSteps ==
  ASSUME NEW h, NEW at, NEW size
  PROVE  split_slot(h, at, size)
           = IF h.hdr[at].size >= size + H + MinData
             THEN Split(h, at, size, at + H + size, h.hdr[at].size - size - H) ELSE Clear(h, at)
<1>1. CASE h.hdr[at].size >= size + H + MinData
  BY <1>1 DEF split_slot, Split
<1>2. CASE ~(h.hdr[at].size >= size + H + MinData)
  BY <1>2 DEF split_slot
<1> QED
  BY <1>1, <1>2

(* The heap g, after split_slot has put new behind at.                     *)
Parted(h, g, at, nx, new, size, rest) ==
  /\ g \in Heaps /\ g.isInit = h.isInit /\ g.brk = h.brk
  /\ g.tail = IF nx = Nil THEN new ELSE h.tail
  /\ g.hdr[at].next = new /\ g.hdr[at].prev = h.hdr[at].prev /\ g.hdr[at].size = size
  /\ g.hdr[at].isFree = h.hdr[at].isFree
  /\ g.hdr[new] = slot(at, nx, TRUE, rest)
  /\ nx # Nil => /\ g.hdr[nx].prev = new /\ g.hdr[nx].next = h.hdr[nx].next
                 /\ g.hdr[nx].isFree = h.hdr[nx].isFree /\ g.hdr[nx].size = h.hdr[nx].size
  /\ \A a \in Addr \ {at, new, nx} : g.hdr[a] = h.hdr[a]
  /\ \A c \in Addr : g.mem[c] = IF InData(g, at, c) THEN Zero
                                 ELSE IF InData(g, new, c) THEN Zero
                                 ELSE IF InHead(new, c) THEN Head ELSE h.mem[c]

(* What the split writes.                                                  *)
LEMMA SplitHeap ==
  ASSUME NEW h \in Heaps, NEW at \in Addr, NEW size \in Int, NEW rest \in Int,
         NEW nx, nx = h.hdr[at].next, NEW new \in Addr, new # at, nx # at, nx # new,
         NEW g, g = Split(h, at, size, new, rest)
  PROVE  Parted(h, g, at, nx, new, size, rest)
<1>1. h.hdr \in [Addr -> SlotRec] /\ nx \in Addr \cup {Nil}
  BY HeapType
<1>2. PICK e, s : /\ e = slot(h.hdr[at].prev, new, h.hdr[at].isFree, size)
                  /\ s = slot(at, nx, TRUE, rest)
  OBVIOUS
<1>3. /\ e \in SlotRec /\ e.next = new /\ e.prev = h.hdr[at].prev /\ e.size = size
      /\ s \in SlotRec /\ s.next = nx /\ s.size = rest /\ e.isFree = h.hdr[at].isFree
  BY <1>1, <1>2, HeapType DEF slot, SlotRec
<1>4. PICK d : d = [h.hdr EXCEPT ![at] = e]
  OBVIOUS
<1>5. PICK u : u = [h EXCEPT !.hdr = d]
  OBVIOUS
<1>6. /\ u \in Heaps /\ u.isInit = h.isInit /\ u.brk = h.brk /\ u.tail = h.tail
      /\ u.hdr = d /\ u.mem = h.mem /\ d \in [Addr -> SlotRec]
      /\ d[at] = e /\ \A a \in Addr : a # at => d[a] = h.hdr[a]
  <2>1. /\ d \in [Addr -> SlotRec] /\ d[at] = e /\ \A a \in Addr : a # at => d[a] = h.hdr[a]
    BY <1>1, <1>3, <1>4
  <2> QED
    BY <1>5, <2>1 DEF Heaps
<1>7. PICK v : v = SetSlot(u, new, s)
  OBVIOUS
<1>8. /\ v \in Heaps /\ v.isInit = u.isInit /\ v.brk = u.brk /\ v.tail = u.tail
      /\ v.hdr = [u.hdr EXCEPT ![new] = s]
      /\ \A c \in Addr : v.mem[c] = IF InHead(new, c) THEN Head ELSE u.mem[c]
  <2>1. u \in Heaps /\ s \in SlotRec
    BY <1>3, <1>6
  <2> QED
    BY <1>7, <2>1, WriteHead
<1>9. v.hdr \in [Addr -> SlotRec] /\ v.hdr[new] = s /\ \A a \in Addr : a # new => v.hdr[a] = d[a]
  BY <1>3, <1>6, <1>8
<1>10. PICK w : w = IF nx = Nil THEN [v EXCEPT !.tail = new] ELSE [v EXCEPT !.hdr[nx].prev = new]
  OBVIOUS
<1>11. /\ w \in Heaps /\ w.isInit = v.isInit /\ w.brk = v.brk /\ w.mem = v.mem
       /\ w.tail = IF nx = Nil THEN new ELSE v.tail
       /\ \A a \in Addr : a # nx => w.hdr[a] = v.hdr[a]
       /\ nx # Nil => /\ w.hdr[nx].prev = new /\ w.hdr[nx].next = v.hdr[nx].next
                      /\ w.hdr[nx].isFree = v.hdr[nx].isFree /\ w.hdr[nx].size = v.hdr[nx].size
  <2>1. CASE nx = Nil
    BY <1>1, <1>8, <1>10, <2>1 DEF Heaps
  <2>2. CASE nx # Nil
    <3>1. PICK f : f = [v.hdr EXCEPT ![nx].prev = new]
      OBVIOUS
    <3>2. nx \in Addr /\ v.hdr \in [Addr -> SlotRec] /\ new \in Addr \cup {Nil}
      BY <1>1, <1>9, <2>2
    <3>3. /\ f \in [Addr -> SlotRec] /\ \A a \in Addr : a # nx => f[a] = v.hdr[a]
          /\ f[nx].prev = new /\ f[nx].next = v.hdr[nx].next /\ f[nx].isFree = v.hdr[nx].isFree
          /\ f[nx].size = v.hdr[nx].size
      BY <3>1, <3>2, PrevIs
    <3>4. w = [v EXCEPT !.hdr = f]
      BY <1>10, <2>2, <3>1
    <3>5. /\ w \in Heaps /\ w.isInit = v.isInit /\ w.brk = v.brk /\ w.mem = v.mem
          /\ w.tail = v.tail /\ w.hdr = f
      BY <1>8, <3>3, <3>4 DEF Heaps
    <3> QED
      BY <2>2, <3>3, <3>5
  <2> QED
    BY <2>1, <2>2
<1>12. PICK x : x = Clear(w, new)
  OBVIOUS
<1>13. /\ x \in Heaps /\ x.isInit = w.isInit /\ x.brk = w.brk /\ x.tail = w.tail /\ x.hdr = w.hdr
       /\ \A c \in Addr : x.mem[c] = IF InData(w, new, c) THEN Zero ELSE w.mem[c]
  <2>1. w \in Heaps
    BY <1>11
  <2> QED
    BY <1>12, <2>1, ClearData, SMTT(60)
<1>14. g = Clear(x, at)
  <2>1. u = [h EXCEPT !.hdr[at] = e]
    BY <1>4, <1>5
  <2>2. /\ s = slot(at, h.hdr[at].next, TRUE, rest)
        /\ w = IF s.next = Nil THEN [v EXCEPT !.tail = new] ELSE [v EXCEPT !.hdr[s.next].prev = new]
    BY <1>2, <1>3, <1>10
  <2> QED
    BY <1>2, <1>7, <1>12, <2>1, <2>2 DEF Split
<1>15. /\ g \in Heaps /\ g.isInit = x.isInit /\ g.brk = x.brk /\ g.tail = x.tail /\ g.hdr = x.hdr
       /\ \A c \in Addr : g.mem[c] = IF InData(x, at, c) THEN Zero ELSE x.mem[c]
  <2>1. x \in Heaps
    BY <1>13
  <2> QED
    BY <1>14, <2>1, ClearData, SMTT(60)
<1>16. /\ w.hdr[at] = e /\ w.hdr[new] = s
       /\ \A a \in Addr \ {at, new, nx} : w.hdr[a] = h.hdr[a]
       /\ nx # Nil => /\ w.hdr[nx].prev = new /\ w.hdr[nx].next = h.hdr[nx].next
                      /\ w.hdr[nx].isFree = h.hdr[nx].isFree /\ w.hdr[nx].size = h.hdr[nx].size
  BY <1>1, <1>6, <1>9, <1>11
<1>17. g.hdr[at].next = new /\ g.hdr[at].prev = h.hdr[at].prev /\ g.hdr[at].size = size
  BY <1>3, <1>13, <1>15, <1>16
<1>18. \A c : /\ InData(w, new, c) <=> InData(g, new, c)
              /\ InData(x, at, c) <=> InData(g, at, c)
  BY <1>13, <1>15 DEF InData, End
<1>19. \A c \in Addr : g.mem[c] = IF InData(g, at, c) THEN Zero
                                  ELSE IF InData(g, new, c) THEN Zero
                                  ELSE IF InHead(new, c) THEN Head ELSE h.mem[c]
  BY <1>6, <1>8, <1>11, <1>13, <1>15, <1>18
<1>20. g \in Heaps /\ g.isInit = h.isInit /\ g.brk = h.brk
       /\ g.tail = IF nx = Nil THEN new ELSE h.tail
  BY <1>6, <1>8, <1>11, <1>13, <1>15
<1>21. /\ g.hdr[new] = slot(at, nx, TRUE, rest)
       /\ \A a \in Addr \ {at, new, nx} : g.hdr[a] = h.hdr[a]
  BY <1>2, <1>13, <1>15, <1>16
<1>22. nx # Nil => /\ g.hdr[nx].prev = new /\ g.hdr[nx].next = h.hdr[nx].next
                   /\ g.hdr[nx].isFree = h.hdr[nx].isFree /\ g.hdr[nx].size = h.hdr[nx].size
  BY <1>13, <1>15, <1>16
<1>23. g.hdr[at].isFree = h.hdr[at].isFree
  BY <1>3, <1>13, <1>15, <1>16
<1> QED
  BY <1>17, <1>19, <1>20, <1>21, <1>22, <1>23 DEF Parted

(* A slot is marked in use: the list stays.                                *)
LEMMA SetBusy ==
  ASSUME NEW h, NEW tight, Listed(h, tight), NEW at \in SlotsOf(h) \ {head},
         NEW g, g = [h EXCEPT !.hdr[at].isFree = FALSE]
  PROVE  /\ Listed(g, tight) /\ SlotsOf(g) = SlotsOf(h) /\ \A a \in Addr : End(g, a) = End(h, a)
         /\ g.mem = h.mem /\ ~g.hdr[at].isFree
         /\ \A a \in Addr : /\ a # at => g.hdr[a] = h.hdr[a]
                            /\ g.hdr[a].next = h.hdr[a].next /\ g.hdr[a].size = h.hdr[a].size
<1>1. PICK d : d = [h.hdr EXCEPT ![at].isFree = FALSE]
  OBVIOUS
<1>2. h \in Heaps /\ h.hdr \in [Addr -> SlotRec] /\ at \in Addr /\ head \in Addr
  BY HeapType, Numbers DEF Listed, SlotsOf
<1>3. /\ d \in [Addr -> SlotRec] /\ ~d[at].isFree
      /\ \A a \in Addr : /\ a # at => d[a] = h.hdr[a]
                         /\ d[a].next = h.hdr[a].next /\ d[a].size = h.hdr[a].size
                         /\ d[a].prev = h.hdr[a].prev
  <2>1. h.hdr \in [Addr -> SlotRec] /\ at \in Addr /\ d = [h.hdr EXCEPT ![at].isFree = FALSE]
    BY <1>1, <1>2
  <2>2. d \in [Addr -> SlotRec] /\ \A a \in Addr : a # at => d[a] = h.hdr[a]
    BY <2>1, BusyIs
  <2>3. ~d[at].isFree
    BY <2>1, BusyIs
  <2>4. d[at].prev = h.hdr[at].prev /\ d[at].next = h.hdr[at].next /\ d[at].size = h.hdr[at].size
    BY <2>1, BusyIs
  <2> QED
    BY <2>2, <2>3, <2>4
<1>4. g = [h EXCEPT !.hdr = d]
  BY <1>1
<1>5. /\ g \in Heaps /\ g.isInit = h.isInit /\ g.brk = h.brk /\ g.tail = h.tail
      /\ g.hdr = d /\ g.mem = h.mem
  BY <1>2, <1>3, <1>4 DEF Heaps
<1>6. Listed(g, tight) /\ SlotsOf(g) = SlotsOf(h) /\ \A a \in Addr : End(g, a) = End(h, a)
  <2>1. \A a \in Addr : a \in SlotsOf(h) \/ g.hdr[a] = h.hdr[a]
    BY <1>3, <1>5
  <2>2. g.hdr[head] = h.hdr[head]
    BY <1>2, <1>3, <1>5
  <2> QED
    <3>1. \A a \in Addr : /\ g.hdr[a].prev = h.hdr[a].prev /\ g.hdr[a].next = h.hdr[a].next
                          /\ g.hdr[a].size = h.hdr[a].size
      BY <1>3, <1>5
    <3> QED
      BY <1>5, <2>1, <2>2, <3>1, SameList
<1> QED
  BY <1>3, <1>5, <1>6

(* The last step of mm_malloc: the slot at is no longer free.  Until then  *)
(* the rest that was split from it may be its free neighbour.              *)
LEMMA TakeIs ==
  ASSUME NEW q, NEW tight, Listed(q, tight), Stamped(q), NEW at \in SlotsOf(q) \ {head},
         q.hdr[at].isFree, \A a \in Addr : Pair(q, a) => a = at,
         NEW g, g = [q EXCEPT !.hdr[at].isFree = FALSE]
  PROVE  /\ Good(g, tight) /\ Used(g) = Used(q) \cup {at} /\ Keeps(q, g, Nil)
         /\ g.hdr[at].size = q.hdr[at].size
         /\ Blank(g, at)
<1>1. Listed(g, tight) /\ SlotsOf(g) = SlotsOf(q) /\ \A a \in Addr : End(g, a) = End(q, a)
  BY SetBusy
<1>2. g.mem = q.mem /\ ~g.hdr[at].isFree
  BY SetBusy
<1>3. \A a \in Addr : /\ a # at => g.hdr[a] = q.hdr[a]
                      /\ g.hdr[a].next = q.hdr[a].next /\ g.hdr[a].size = q.hdr[a].size
  BY SetBusy
<1>4. \A a \in SlotsOf(q) : a \in Addr
  BY DEF SlotsOf
<1>5. Stamped(g)
  <2> SUFFICES ASSUME NEW a \in SlotsOf(g), NEW c \in Addr
               PROVE  /\ a <= c /\ c < a + H => g.mem[c] = Head
                      /\ g.hdr[a].isFree /\ a + H <= c /\ c < End(g, a) => g.mem[c] = Zero
    BY DEF Stamped
  <2>1. a \in SlotsOf(q) /\ (g.hdr[a].isFree => q.hdr[a].isFree)
    BY <1>1, <1>2, <1>3, <1>4
  <2>2. g.mem[c] = q.mem[c] /\ End(g, a) = End(q, a)
    BY <1>1, <1>2, <1>3, <1>4, <2>1
  <2>3. /\ a <= c /\ c < a + H => q.mem[c] = Head
        /\ q.hdr[a].isFree /\ a + H <= c /\ c < End(q, a) => q.mem[c] = Zero
    BY <2>1 DEF Stamped
  <2> QED
    BY <2>1, <2>2, <2>3
<1>6. \A a \in Addr : ~Pair(g, a)
  <2> SUFFICES ASSUME NEW a \in Addr, Pair(g, a) PROVE FALSE
    OBVIOUS
  <2>1. /\ a \in SlotsOf(q) /\ g.hdr[a].isFree /\ q.hdr[a].next # Nil
        /\ g.hdr[q.hdr[a].next].isFree
    BY <1>1, <1>2, <1>3 DEF Pair
  <2>2. a # at
    BY <1>1, <1>2, <1>3, <2>1
  <2>3. q.hdr[a].next \in Addr
    BY <2>1, After
  <2>4. q.hdr[a].isFree /\ q.hdr[q.hdr[a].next].isFree
    BY <1>1, <1>2, <1>3, <2>1, <2>2, <2>3
  <2> QED
    BY <2>1, <2>2, <2>4 DEF Pair
<1>7. Used(g) = Used(q) \cup {at}
  <2>1. \A a \in SlotsOf(q) \ {head} : ~g.hdr[a].isFree <=> a = at \/ ~q.hdr[a].isFree
    BY <1>1, <1>2, <1>3, <1>4
  <2> QED
    BY <1>1, <1>2, <1>3, <2>1 DEF Used
<1>8. Keeps(q, g, Nil)
  <2>1. \A a \in Used(q) : a \in Addr
    BY <1>4 DEF Used
  <2> QED
    BY <1>1, <1>2, <1>3, <1>7, <2>1 DEF Keeps
<1>9. \A c \in Addr : at + H <= c /\ c < End(g, at) => g.mem[c] = Zero
  <2>1. End(g, at) = End(q, at) /\ g.mem = q.mem
    BY <1>1, <1>2, <1>3, <1>4
  <2>2. \A c \in Addr : at + H <= c /\ c < End(q, at) => q.mem[c] = Zero
    BY DEF Stamped
  <2> QED
    BY <2>1, <2>2
<1> QED
  BY <1>1, <1>2, <1>3, <1>4, <1>5, <1>6, <1>7, <1>8, <1>9 DEF Good, Blank

(* split_slot, when what is too much can be a slot: the list, and the one  *)
(* pair of free neighbours there may be until mm_malloc takes the slot.    *)
LEMMA SplitIs ==
  ASSUME NEW h, NEW tight, Good(h, tight), NEW size \in Nat, NEW at \in SlotsOf(h),
         h.hdr[at].isFree, h.hdr[at].size >= size + H + MinData,
         NEW q, q = split_slot(h, at, size)
  PROVE  /\ Listed(q, tight) /\ Stamped(q) /\ at \in SlotsOf(q) \ {head}
         /\ q.hdr[at].isFree /\ q.hdr[at].size = size /\ \A a \in Addr : Pair(q, a) => a = at
         /\ Used(q) = Used(h) /\ Keeps(h, q, Nil)
<1>1. PICK new, rest, nx : /\ new = at + H + size /\ rest = h.hdr[at].size - size - H
                           /\ nx = h.hdr[at].next
  OBVIOUS
<1>2. q = Split(h, at, size, new, rest)
  BY <1>1, SplitSteps
<1>3. /\ Listed(h, tight) /\ Stamped(h) /\ h \in Heaps /\ at # head /\ at \in Addr /\ at \in Nat
      /\ h.hdr[at].size \in Nat /\ End(h, at) = at + H + h.hdr[at].size /\ End(h, at) \in Int
      /\ End(h, at) <= MaxBrk /\ \A b \in SlotsOf(h) : at < b => End(h, at) <= b
  <2>1. Listed(h, tight) /\ Stamped(h)
    BY DEF Good
  <2>2. h \in Heaps /\ at # head /\ at \in Addr
    BY <2>1 DEF Listed, SlotsOf
  <2>3. /\ at \in Nat /\ h.hdr[at].size \in Nat /\ End(h, at) = at + H + h.hdr[at].size
        /\ End(h, at) \in Int /\ End(h, at) <= MaxBrk
        /\ \A b \in SlotsOf(h) : at < b => End(h, at) <= b
    BY <2>1, Room
  <2> QED
    BY <2>1, <2>2, <2>3
<1>4. /\ new \in Nat /\ rest \in Nat /\ new + H + rest = End(h, at) /\ rest >= 1
      /\ at + H <= new /\ at < new /\ new + H <= End(h, at) /\ new < End(h, at) /\ at + H + size = new
  <2>1. H \in Nat /\ H >= 1 /\ MinData \in Nat
    BY Numbers
  <2> QED
    <3>1. MinData >= 1
      BY AllocAssumption
    <3> QED
      BY <1>1, <1>3, <2>1, <3>1
<1>5. new \in Addr /\ new \notin SlotsOf(h)
  <2>1. new \in Addr
    <3>1. new \in Int /\ 0 <= new /\ new < MaxBrk
      BY <1>3, <1>4, Numbers
    <3> QED
      BY <3>1, Numbers
  <2>2. new \in SlotsOf(h) => FALSE
    BY <1>3, <1>4
  <2> QED
    BY <2>1, <2>2
<1>6. /\ nx \in Addr \cup {Nil}
      /\ nx = Nil => at = h.tail
      /\ nx # Nil => /\ nx \in SlotsOf(h) /\ nx \in Addr /\ nx \in Nat /\ nx # head
                     /\ End(h, at) <= nx /\ (tight => End(h, at) = nx)
                     /\ new < nx
  <2>1. /\ nx \in Addr \cup {Nil}
        /\ nx = Nil => at = h.tail
        /\ nx # Nil => /\ nx \in SlotsOf(h) /\ nx \in Addr /\ nx \in Nat /\ nx # head
                       /\ End(h, at) <= nx /\ (tight => End(h, at) = nx)
    BY <1>1, <1>3, After
  <2>2. nx # Nil => new < nx
    BY <1>3, <1>4, <2>1
  <2> QED
    BY <2>1, <2>2
<1>7. new # at /\ nx # at /\ nx # new
  <2>1. at # Nil /\ new # Nil
    BY <1>3, <1>5, Numbers
  <2>2. nx # Nil => at < nx
    BY <1>3, <1>4, <1>6
  <2> QED
    BY <1>3, <1>4, <1>6, <2>1, <2>2
<1>8. size \in Int /\ rest \in Int
  BY <1>4
<1>30. Parted(h, q, at, nx, new, size, rest)
  <2>1. h \in Heaps /\ at \in Addr /\ nx = h.hdr[at].next /\ new \in Addr
    BY <1>1, <1>3, <1>5
  <2> QED
    BY <1>2, <1>7, <1>8, <2>1, SplitHeap
<1>9. /\ q \in Heaps /\ q.isInit = h.isInit /\ q.brk = h.brk
      /\ q.tail = IF nx = Nil THEN new ELSE h.tail
      /\ q.hdr[at].next = new /\ q.hdr[at].prev = h.hdr[at].prev /\ q.hdr[at].size = size
  BY <1>30 DEF Parted
<1>10. q.hdr[at].isFree
  BY <1>30 DEF Parted
<1>11. q.hdr[new] = slot(at, nx, TRUE, rest)
  BY <1>30 DEF Parted
<1>12. nx # Nil => /\ q.hdr[nx].prev = new /\ q.hdr[nx].next = h.hdr[nx].next
                   /\ q.hdr[nx].size = h.hdr[nx].size
  BY <1>30 DEF Parted
<1>13. nx # Nil => q.hdr[nx].isFree = h.hdr[nx].isFree
  BY <1>30 DEF Parted
<1>14. \A a \in Addr \ {at, new, nx} : q.hdr[a] = h.hdr[a]
  BY <1>30 DEF Parted
<1>15. \A c \in Addr : q.mem[c] = IF InData(q, at, c) THEN Zero
                                  ELSE IF InData(q, new, c) THEN Zero
                                  ELSE IF InHead(new, c) THEN Head ELSE h.mem[c]
  BY <1>30 DEF Parted
<1>16. q.hdr[new].prev = at /\ q.hdr[new].next = nx /\ q.hdr[new].isFree /\ q.hdr[new].size = rest
  BY <1>11 DEF slot
<1>17. End(q, at) = new /\ End(q, new) = End(h, at)
  BY <1>1, <1>4, <1>9, <1>16 DEF End
<1>18. \A a \in SlotsOf(h) : /\ a \in Addr /\ a # new /\ h.hdr[a].size >= 0 /\ h.hdr[a].size \in Int
                             /\ a # at => q.hdr[a].next = h.hdr[a].next /\ q.hdr[a].size = h.hdr[a].size
                                          /\ End(q, a) = End(h, a)
  <2> SUFFICES ASSUME NEW a \in SlotsOf(h)
               PROVE  /\ a \in Addr /\ a # new /\ h.hdr[a].size >= 0 /\ h.hdr[a].size \in Int
                      /\ a # at => q.hdr[a].next = h.hdr[a].next /\ q.hdr[a].size = h.hdr[a].size
    BY DEF End
  <2>1. a \in Addr /\ a # new /\ h.hdr[a].size >= 0 /\ h.hdr[a].size \in Int
    BY <1>3, <1>5, Room DEF SlotsOf
  <2>2. CASE a = nx
    <3>1. nx # Nil
      BY <2>1, <2>2, Numbers
    <3> QED
      BY <1>12, <2>1, <2>2, <3>1
  <2>3. CASE a # nx
    BY <1>14, <2>1, <2>3
  <2> QED
    BY <2>1, <2>2, <2>3
<1>19. \A a \in SlotsOf(h) : q.hdr[a].isFree = h.hdr[a].isFree
  <2> SUFFICES ASSUME NEW a \in SlotsOf(h) PROVE q.hdr[a].isFree = h.hdr[a].isFree
    OBVIOUS
  <2>1. CASE a = at
    <3>1. h.hdr[at].isFree = TRUE /\ q.hdr[at].isFree = TRUE
      <4>1. h.hdr[at].isFree \in BOOLEAN /\ q.hdr[at].isFree \in BOOLEAN
        BY <1>3, <1>9, HeapType
      <4> QED
        BY <1>10, <4>1
    <3> QED
      BY <2>1, <3>1
  <2>2. CASE a = nx
    <3>1. nx # Nil
      BY <1>18, <2>2, Numbers
    <3> QED
      BY <1>13, <2>2, <3>1
  <2>3. CASE a # at /\ a # nx
    <3>1. q.hdr[a] = h.hdr[a]
      BY <1>14, <1>18, <2>3
    <3> QED
      BY <3>1
  <2> QED
    BY <2>1, <2>2, <2>3
<1>20. /\ new \in SlotsOf(q) /\ \A a \in SlotsOf(h) : a \in SlotsOf(q)
       /\ \A a \in SlotsOf(q) : a = new \/ a \in SlotsOf(h)
  <2>1. new \in SlotsOf(q)
    <3>1. q.hdr[new].size >= 0
      BY <1>4, <1>16
    <3> QED
      BY <1>5, <1>9, <3>1, SlotIs
  <2>2. \A a \in SlotsOf(h) : a \in SlotsOf(q)
    <3> SUFFICES ASSUME NEW a \in SlotsOf(h) PROVE a \in SlotsOf(q)
      OBVIOUS
    <3>1. a \in Addr /\ q.hdr[a].size >= 0
      BY <1>9, <1>18
    <3> QED
      BY <1>9, <3>1, SlotIs
  <2>3. \A a \in SlotsOf(q) : a = new \/ a \in SlotsOf(h)
    <3> SUFFICES ASSUME NEW a \in SlotsOf(q), a # new, a \notin SlotsOf(h) PROVE FALSE
      OBVIOUS
    <3>1. a \in Addr /\ a # at /\ a # nx
      <4>1. a \in Addr
        BY DEF SlotsOf
      <4> QED
        BY <1>6, <4>1, Numbers
    <3>2. q.hdr[a] = h.hdr[a]
      BY <1>14, <3>1
    <3> QED
      BY <3>1, <3>2 DEF SlotsOf
  <2> QED
    BY <2>1, <2>2, <2>3
<1>21. Listed(q, tight)
  <2>1. q.hdr[at].next = new /\ q.hdr[at].prev = h.hdr[at].prev /\ q.hdr[at].size >= 0
    BY <1>9
  <2>2. End(q, at) <= new /\ (tight => End(q, at) = new)
    BY <1>4, <1>17
  <2>3. at = head => q.hdr[at].size = 0 /\ ~q.hdr[at].isFree
    BY <1>3
  <2>4. q.hdr[new].prev = at /\ q.hdr[new].next = nx /\ q.hdr[new].size >= 0
    BY <1>4, <1>16
  <2>5. nx = Nil => q.tail = new /\ End(q, new) <= q.brk /\ (tight => End(q, new) = q.brk)
    BY <1>3, <1>6, <1>9, <1>17 DEF Listed
  <2>6. nx # Nil => /\ q.tail = h.tail /\ q.brk = h.brk
                    /\ End(q, new) <= nx /\ (tight => End(q, new) = nx)
                    /\ q.hdr[nx].prev = new /\ q.hdr[nx].next = h.hdr[nx].next
                    /\ q.hdr[nx].size = h.hdr[nx].size
    BY <1>6, <1>9, <1>12, <1>17
  <2>7. \A a \in SlotsOf(h) \ {at, nx} : q.hdr[a] = h.hdr[a]
    BY <1>14, <1>18
  <2>8. q \in Heaps /\ q.isInit = h.isInit
    BY <1>9
  <2> QED
    BY <1>1, <1>3, <1>5, <1>20, <2>1, <2>2, <2>3, <2>4, <2>5, <2>6, <2>7, <2>8, InsertIs, SMTT(60)
<1>22. \A c \in Addr : ~(at + H <= c /\ c < End(h, at)) => q.mem[c] = h.mem[c]
  <2> SUFFICES ASSUME NEW c \in Addr, ~(at + H <= c /\ c < End(h, at))
               PROVE  ~InData(q, at, c) /\ ~InData(q, new, c) /\ ~InHead(new, c)
    BY <1>15
  <2>1. c \in Int /\ H \in Int /\ H >= 1
    BY Numbers
  <2> QED
    BY <1>3, <1>4, <1>17, <2>1 DEF InData, InHead
<1>23. \A a \in SlotsOf(h) \ {at} : \A c \in Addr : a <= c /\ c < End(h, a) => q.mem[c] = h.mem[c]
  <2> SUFFICES ASSUME NEW a \in SlotsOf(h) \ {at}, NEW c \in Addr, a <= c, c < End(h, a)
               PROVE  ~(at + H <= c /\ c < End(h, at))
    BY <1>22
  <2>1. /\ a \in Nat /\ End(h, a) \in Int /\ \A b \in SlotsOf(h) : a < b => End(h, a) <= b
    BY <1>3, Room
  <2>2. c \in Int /\ H \in Int /\ H >= 1
    BY Numbers
  <2>3. CASE a < at
    BY <1>3, <2>1, <2>2, <2>3
  <2>4. CASE at < a
    BY <1>3, <2>1, <2>2, <2>4
  <2> QED
    BY <1>3, <2>1, <2>3, <2>4
<1>24. Stamped(q)
  <2> SUFFICES ASSUME NEW a \in SlotsOf(q), NEW c \in Addr
               PROVE  /\ a <= c /\ c < a + H => q.mem[c] = Head
                      /\ q.hdr[a].isFree /\ a + H <= c /\ c < End(q, a) => q.mem[c] = Zero
    BY DEF Stamped
  <2>0. c \in Int /\ H \in Int /\ H >= 1
    BY Numbers
  <2>1. CASE a = new
    <3>1. a <= c /\ c < a + H => InHead(new, c) /\ ~InData(q, at, c) /\ ~InData(q, new, c)
      BY <1>3, <1>4, <1>17, <2>0, <2>1 DEF InHead, InData
    <3>2. a + H <= c /\ c < End(q, a) => InData(q, new, c)
      BY <2>1 DEF InData
    <3> QED
      BY <1>15, <3>1, <3>2
  <2>2. CASE a = at
    <3>1. a <= c /\ c < a + H => ~(at + H <= c)
      BY <1>3, <2>0, <2>2
    <3>2. a + H <= c /\ c < End(q, a) => InData(q, at, c)
      BY <2>2 DEF InData
    <3>3. a <= c /\ c < a + H => h.mem[c] = Head
      BY <1>3, <2>2 DEF Stamped
    <3> QED
      BY <1>15, <1>22, <3>1, <3>2, <3>3
  <2>3. CASE a \in SlotsOf(h) \ {at}
    <3>1. /\ a \in Int /\ End(h, a) \in Int /\ a + H <= End(h, a) /\ End(q, a) = End(h, a)
      BY <1>3, <1>18, <2>3, Room
    <3>2. a <= c /\ c < a + H => c < End(h, a)
      BY <2>0, <3>1
    <3>3. a + H <= c => a <= c
      BY <2>0, <3>1
    <3>4. /\ a <= c /\ c < a + H => h.mem[c] = Head
          /\ h.hdr[a].isFree /\ a + H <= c /\ c < End(h, a) => h.mem[c] = Zero
      BY <1>3, <2>3 DEF Stamped
    <3>5. q.hdr[a].isFree = h.hdr[a].isFree /\ (a <= c /\ c < End(h, a) => q.mem[c] = h.mem[c])
      BY <1>19, <1>23, <2>3
    <3> QED
      BY <3>1, <3>2, <3>3, <3>4, <3>5
  <2> QED
    BY <1>20, <2>1, <2>2, <2>3
<1>25. \A a \in Addr : Pair(q, a) => a = at
  <2> SUFFICES ASSUME NEW a \in Addr, Pair(q, a), a # at PROVE FALSE
    OBVIOUS
  <2>1. a \in SlotsOf(q) /\ q.hdr[a].isFree /\ q.hdr[a].next # Nil /\ q.hdr[q.hdr[a].next].isFree
    BY DEF Pair
  <2>2. CASE a = new
    <3>1. nx # Nil /\ h.hdr[nx].isFree
      BY <1>13, <1>16, <2>1, <2>2
    <3> QED
      BY <1>1, <1>3, <3>1 DEF Good, Pair
  <2>3. CASE a # new
    <3>1. a \in SlotsOf(h) /\ q.hdr[a].next = h.hdr[a].next
      BY <1>18, <1>20, <2>1, <2>3
    <3>2. h.hdr[a].next \in SlotsOf(h)
      BY <1>3, <2>1, <3>1, After
    <3>3. h.hdr[a].isFree /\ h.hdr[h.hdr[a].next].isFree
      BY <1>19, <2>1, <3>1, <3>2
    <3> QED
      BY <2>1, <3>1, <3>3 DEF Good, Pair
  <2> QED
    BY <2>2, <2>3
<1>26. Used(q) = Used(h)
  <2>1. new \notin Used(q)
    BY <1>16 DEF Used
  <2>2. \A a \in SlotsOf(h) : a \in Used(q) <=> a \in Used(h)
    BY <1>19, <1>20 DEF Used
  <2>3. (\A a \in Used(q) : a = new \/ a \in SlotsOf(h)) /\ \A a \in Used(h) : a \in SlotsOf(h)
    BY <1>20 DEF Used
  <2> QED
    BY <2>1, <2>2, <2>3
<1>27. Keeps(h, q, Nil)
  <2> SUFFICES ASSUME NEW a \in Used(h)
               PROVE  /\ a \in Used(q) /\ q.hdr[a].size = h.hdr[a].size
                      /\ \A c \in Addr : a + H <= c /\ c < End(h, a) => q.mem[c] = h.mem[c]
    BY DEF Keeps
  <2>1. a \in SlotsOf(h) /\ a # at /\ a \in Int
    BY Numbers DEF Used, SlotsOf
  <2>2. \A c \in Addr : a + H <= c => a <= c
    BY <2>1, Numbers
  <2> QED
    BY <1>18, <1>23, <1>26, <2>1, <2>2
<1>28. at \in SlotsOf(q) \ {head}
  BY <1>3, <1>20
<1> QED
  BY <1>9, <1>10, <1>21, <1>24, <1>25, <1>26, <1>27, <1>28

(* The data of a free slot is cleared again.                               *)
LEMMA ClearFree ==
  ASSUME NEW h, NEW tight, Listed(h, tight), Stamped(h), NEW at \in SlotsOf(h), h.hdr[at].isFree,
         NEW q, q = Clear(h, at)
  PROVE  /\ Listed(q, tight) /\ Stamped(q) /\ q.hdr = h.hdr /\ SlotsOf(q) = SlotsOf(h)
         /\ Used(q) = Used(h) /\ Keeps(h, q, Nil)
<1>1. h \in Heaps /\ at \in Addr
  BY DEF Listed, SlotsOf
<1>2. /\ q \in Heaps /\ q.isInit = h.isInit /\ q.brk = h.brk /\ q.tail = h.tail /\ q.hdr = h.hdr
      /\ \A c \in Addr : q.mem[c] = IF InData(h, at, c) THEN Zero ELSE h.mem[c]
  BY <1>1, ClearData
<1>3. \A c \in Addr : q.mem[c] = h.mem[c]
  <2>1. \A c \in Addr : InData(h, at, c) => h.mem[c] = Zero
    BY DEF Stamped, InData
  <2> QED
    BY <1>2, <2>1
<1>4. Listed(q, tight)
  BY <1>2, SameList
<1>5. SlotsOf(q) = SlotsOf(h) /\ \A a \in Addr : End(q, a) = End(h, a)
  BY <1>2 DEF SlotsOf, End
<1>6. Stamped(q)
  BY <1>2, <1>3, <1>5 DEF Stamped, SlotsOf
<1>7. Used(q) = Used(h)
  BY <1>2, <1>5 DEF Used
<1>8. Keeps(h, q, Nil)
  BY <1>2, <1>3, <1>7 DEF Keeps
<1> QED
  BY <1>2, <1>4, <1>5, <1>6, <1>7, <1>8

(* mm_malloc takes a free slot that is large enough.                       *)
LEMMA FitIs ==
  ASSUME NEW h, NEW tight, Good(h, tight), NEW size \in Nat, NEW at \in SlotsOf(h),
         h.hdr[at].isFree, h.hdr[at].size >= size,
         NEW q, q = split_slot(h, at, size), NEW g, g = [q EXCEPT !.hdr[at].isFree = FALSE]
  PROVE  Taken(h, g, tight, at, size)
<1>1. /\ Listed(h, tight) /\ Stamped(h) /\ h \in Heaps /\ at # head /\ at \in Addr
      /\ h.hdr[at].size \in Int
  <2>1. Listed(h, tight) /\ Stamped(h)
    BY DEF Good
  <2>2. h \in Heaps /\ at # head /\ at \in Addr
    BY <2>1 DEF Listed, SlotsOf
  <2> QED
    BY <2>1, <2>2, HeapType
<1>2. /\ Listed(q, tight) /\ Stamped(q) /\ at \in SlotsOf(q) \ {head}
      /\ q.hdr[at].isFree /\ q.hdr[at].size >= size /\ \A a \in Addr : Pair(q, a) => a = at
      /\ Used(q) = Used(h) /\ Keeps(h, q, Nil)
  <2>1. CASE h.hdr[at].size >= size + H + MinData
    <3>1. /\ Listed(q, tight) /\ Stamped(q) /\ at \in SlotsOf(q) \ {head}
          /\ q.hdr[at].isFree /\ q.hdr[at].size = size /\ \A a \in Addr : Pair(q, a) => a = at
          /\ Used(q) = Used(h) /\ Keeps(h, q, Nil)
      BY <2>1, SplitIs
    <3>2. size >= size
      OBVIOUS
    <3> QED
      BY <3>1, <3>2
  <2>2. CASE ~(h.hdr[at].size >= size + H + MinData)
    <3>1. q = Clear(h, at)
      BY <2>2, SplitSteps
    <3>2. /\ Listed(q, tight) /\ Stamped(q) /\ q.hdr = h.hdr /\ SlotsOf(q) = SlotsOf(h)
          /\ Used(q) = Used(h) /\ Keeps(h, q, Nil)
      BY <1>1, <3>1, ClearFree
    <3>3. \A a \in Addr : ~Pair(q, a)
      BY <3>2 DEF Good, Pair
    <3> QED
      BY <1>1, <3>2, <3>3
  <2> QED
    BY <2>1, <2>2
<1>3. /\ Good(g, tight) /\ Used(g) = Used(q) \cup {at} /\ Keeps(q, g, Nil)
      /\ g.hdr[at].size = q.hdr[at].size
      /\ Blank(g, at)
  <2>1. Listed(q, tight) /\ Stamped(q)
    BY <1>2
  <2>2. at \in SlotsOf(q) \ {head}
    BY <1>2
  <2>3. q.hdr[at].isFree /\ \A a \in Addr : Pair(q, a) => a = at
    BY <1>2
  <2>4. Good(g, tight)
    BY <2>1, <2>2, <2>3, TakeIs, SMTT(60)
  <2>5. Used(g) = Used(q) \cup {at} /\ Keeps(q, g, Nil) /\ g.hdr[at].size = q.hdr[at].size
    BY <2>1, <2>2, <2>3, TakeIs, SMTT(60)
  <2>6. Blank(g, at)
    BY <2>1, <2>2, <2>3, TakeIs, SMTT(60)
  <2> QED
    BY <2>4, <2>5, <2>6
<1>4. at \notin Used(h)
  BY DEF Used
<1>5. Keeps(h, g, Nil)
  BY <1>2, <1>3, KeepsMore
<1> QED
  BY <1>1, <1>2, <1>3, <1>4, <1>5 DEF Taken

-----------------------------------------------------------------------------
(* mm_malloc.                                                              *)
LEMMA MallocIs ==
  ASSUME NEW h, NEW tight, Good(h, tight), NEW size \in Nat, NEW r, r = mm_malloc(h, size)
  PROVE  \/ r = result(h, Nil)
         \/ size # 0 /\ \E at \in Addr : r = result(r.heap, at + H)
                                        /\ Taken(h, r.heap, tight, at, size)
<1>1. Listed(h, tight) /\ init_malloc(h) = h
  BY DEF Good, Listed, init_malloc
<1>2. PICK fit : fit = find_list_elem(h, size)
  OBVIOUS
<1>3. /\ fit = Nil \/ (fit \in SlotsOf(h) /\ h.hdr[fit].isFree /\ h.hdr[fit].size >= size)
      /\ fit = Nil => \A a \in SlotsOf(h) : ~(h.hdr[a].isFree /\ h.hdr[a].size >= size)
  BY <1>1, <1>2, FindIs
<1>4. PICK q, g : q = split_slot(h, fit, size) /\ g = [q EXCEPT !.hdr[fit].isFree = FALSE]
  OBVIOUS
<1>5. PICK x, y : x = ExtendTail(h, size) /\ y = NewSlot(h, size)
  OBVIOUS
<1>6. r = CASE size = 0 -> result(h, Nil)
            [] size > 0 /\ fit # Nil -> result(g, fit + H)
            [] size > 0 /\ fit = Nil /\ h.hdr[h.tail].isFree -> x
            [] size > 0 /\ fit = Nil /\ ~h.hdr[h.tail].isFree -> y
  BY <1>1, <1>2, <1>4, <1>5 DEF mm_malloc
<1>7. CASE size = 0
  BY <1>6, <1>7
<1>8. CASE size # 0 /\ fit # Nil
  <2>1. r = result(g, fit + H)
    BY <1>6, <1>8
  <2>2. Taken(h, g, tight, fit, size)
    BY <1>3, <1>4, <1>8, FitIs
  <2>3. fit \in Addr
    BY <1>3, <1>8 DEF SlotsOf
  <2> QED
    BY <1>8, <2>1, <2>2, <2>3 DEF result
<1>9. CASE size # 0 /\ fit = Nil /\ h.hdr[h.tail].isFree
  <2>1. r = x /\ h.tail \in Addr
    BY <1>1, <1>6, <1>9 DEF Listed, SlotsOf
  <2>2. ~(h.hdr[h.tail].size >= size)
    BY <1>1, <1>3, <1>9 DEF Listed
  <2>3. r = result(h, Nil) \/ (r = result(r.heap, h.tail + H) /\ Taken(h, r.heap, tight, h.tail, size))
    BY <1>5, <1>9, <2>1, <2>2, ExtendTailIs
  <2> QED
    BY <1>9, <2>1, <2>3
<1>10. CASE size # 0 /\ fit = Nil /\ ~h.hdr[h.tail].isFree
  <2>1. r = y
    BY <1>6, <1>10
  <2> QED
    BY <1>5, <1>10, <2>1, NewSlotIs
<1> QED
  BY <1>7, <1>8, <1>9, <1>10

-----------------------------------------------------------------------------
(* The heap g, after the slots between first and after became a part of    *)
(* first.                                                                  *)
Joined(h, g, first, size, after) ==
  /\ g \in Heaps /\ g.isInit = h.isInit /\ g.brk = h.brk /\ g.mem = h.mem
  /\ g.tail = IF after = Nil THEN first ELSE h.tail
  /\ g.hdr[first].prev = h.hdr[first].prev /\ g.hdr[first].next = after
  /\ g.hdr[first].isFree = h.hdr[first].isFree /\ g.hdr[first].size = size
  /\ after # Nil => /\ g.hdr[after].prev = first /\ g.hdr[after].next = h.hdr[after].next
                    /\ g.hdr[after].isFree = h.hdr[after].isFree
                    /\ g.hdr[after].size = h.hdr[after].size
  /\ \A a \in Addr \ {first, after} :
       g.hdr[a] = IF a > first /\ (after = Nil \/ a < after) THEN NoSlot ELSE h.hdr[a]

(* What Join writes.                                                       *)
LEMMA JoinHeap ==
  ASSUME NEW h \in Heaps, NEW first \in Addr, NEW size \in Int, NEW after \in Addr \cup {Nil},
         after # Nil => first < after, NEW g, g = Join(h, first, size, after)
  PROVE  Joined(h, g, first, size, after)
<1>1. PICK d : d = [a \in Addr |->
                      IF a = first THEN slot(h.hdr[a].prev, after, h.hdr[a].isFree, size)
                      ELSE IF a > first /\ (after = Nil \/ a < after) THEN NoSlot
                      ELSE IF a = after
                           THEN slot(first, h.hdr[a].next, h.hdr[a].isFree, h.hdr[a].size)
                      ELSE h.hdr[a]]
  OBVIOUS
<1>2. /\ d[first] = slot(h.hdr[first].prev, after, h.hdr[first].isFree, size)
      /\ \A a \in Addr : a # first /\ a > first /\ (after = Nil \/ a < after) => d[a] = NoSlot
      /\ \A a \in Addr : a # first /\ a # after /\ ~(a > first /\ (after = Nil \/ a < after)) =>
           d[a] = h.hdr[a]
  BY <1>1
<1>3. after # Nil => d[after] = slot(first, h.hdr[after].next, h.hdr[after].isFree, h.hdr[after].size)
  <2> SUFFICES ASSUME after # Nil
               PROVE  d[after] = slot(first, h.hdr[after].next, h.hdr[after].isFree, h.hdr[after].size)
    OBVIOUS
  <2>1. first \in Int /\ after \in Int /\ after \in Addr /\ first < after
    BY Numbers
  <2>2. after # first /\ ~(after < after)
    BY <2>1
  <2> QED
    BY <1>1, <2>1, <2>2
<1>4. /\ d[first] \in SlotRec /\ d[first].prev = h.hdr[first].prev /\ d[first].next = after
      /\ d[first].isFree = h.hdr[first].isFree /\ d[first].size = size
  <2>1. h.hdr[first].prev \in Addr \cup {Nil} /\ h.hdr[first].isFree \in BOOLEAN
    BY HeapType
  <2> QED
    BY <1>2, <2>1 DEF slot, SlotRec
<1>5. after # Nil => /\ d[after] \in SlotRec /\ d[after].prev = first
                     /\ d[after].next = h.hdr[after].next
                     /\ d[after].isFree = h.hdr[after].isFree /\ d[after].size = h.hdr[after].size
  <2> SUFFICES ASSUME after # Nil
               PROVE  /\ d[after] \in SlotRec /\ d[after].prev = first
                      /\ d[after].next = h.hdr[after].next
                      /\ d[after].isFree = h.hdr[after].isFree /\ d[after].size = h.hdr[after].size
    OBVIOUS
  <2>1. after \in Addr
    OBVIOUS
  <2>2. /\ h.hdr[after].next \in Addr \cup {Nil} /\ h.hdr[after].isFree \in BOOLEAN
        /\ h.hdr[after].size \in Int
    BY <2>1, HeapType
  <2> QED
    BY <1>3, <2>1, <2>2 DEF slot, SlotRec
<1>6. d \in [Addr -> SlotRec]
  <2>1. \A a \in Addr : d[a] \in SlotRec
    <3> SUFFICES ASSUME NEW a \in Addr PROVE d[a] \in SlotRec
      OBVIOUS
    <3>1. h.hdr[a] \in SlotRec /\ NoSlot \in SlotRec
      BY HeapType, NoSlotIs
    <3>2. CASE a = first
      BY <1>4, <3>2
    <3>3. CASE a = after
      <4>1. after # Nil
        BY <3>3, Numbers
      <4> QED
        BY <1>5, <3>3, <4>1
    <3>4. CASE a # first /\ a # after
      BY <1>2, <3>1, <3>4
    <3> QED
      BY <3>2, <3>3, <3>4
  <2> QED
    BY <1>1, <2>1
<1>7. PICK u : u = [h EXCEPT !.hdr = d]
  OBVIOUS
<1>8. /\ u \in Heaps /\ u.isInit = h.isInit /\ u.brk = h.brk /\ u.tail = h.tail
      /\ u.hdr = d /\ u.mem = h.mem
  BY <1>6, <1>7 DEF Heaps
<1>9. g = IF after = Nil THEN [u EXCEPT !.tail = first] ELSE u
  BY <1>1, <1>7 DEF Join
<1>10. /\ g \in Heaps /\ g.isInit = h.isInit /\ g.brk = h.brk /\ g.mem = h.mem
       /\ g.tail = (IF after = Nil THEN first ELSE h.tail) /\ g.hdr = d
  BY <1>8, <1>9 DEF Heaps
<1> QED
  BY <1>2, <1>4, <1>5, <1>10 DEF Joined

(* The size of the slot that two become.                                   *)
Both(h, a, n) == h.hdr[a].size + H + h.hdr[n].size

(* The heap g, after the free slot a has taken up the free slot n behind   *)
(* it.                                                                     *)
Merged(h, g, tight, a, n) ==
  /\ Listed(g, tight) /\ Stamped(g) /\ SlotsOf(g) = SlotsOf(h) \ {n} /\ a \in SlotsOf(g)
  /\ Used(g) = Used(h) /\ Keeps(h, g, Nil)
  /\ \A c \in SlotsOf(g) : /\ g.hdr[c].isFree <=> h.hdr[c].isFree
                           /\ g.hdr[c].next = IF c = a THEN h.hdr[n].next ELSE h.hdr[c].next

(* Two free neighbours become one, whose data is cleared.                  *)
LEMMA JoinIs ==
  ASSUME NEW h, NEW tight, Listed(h, tight), Stamped(h), NEW a \in SlotsOf(h) \ {head},
         h.hdr[a].isFree, NEW n, Behind(h, a, n), h.hdr[n].isFree,
         NEW g, g = Clear(Join(h, a, Both(h, a, n), h.hdr[n].next), a)
  PROVE  Merged(h, g, tight, a, n)
<1>1. /\ a \in Addr /\ a \in Nat /\ n \in SlotsOf(h) /\ n \in Addr /\ n \in Nat /\ n # head /\ a < n
      /\ End(h, a) <= n /\ (tight => End(h, a) = n)
      /\ h.hdr[n].prev = a /\ \A c \in SlotsOf(h) : c <= a \/ n <= c
  BY After DEF Behind
<1>2. PICK nx, z : nx = h.hdr[n].next /\ z = Both(h, a, n)
  OBVIOUS
<1>3. /\ nx \in Addr \cup {Nil}
      /\ nx = Nil => \A c \in SlotsOf(h) : c <= n
      /\ nx # Nil => /\ nx \in SlotsOf(h) /\ nx \in Addr /\ nx \in Nat /\ n < nx
                     /\ \A c \in SlotsOf(h) : c <= n \/ nx <= c
  BY <1>1, <1>2, After
<1>4. /\ h \in Heaps /\ h.hdr[a].size \in Nat /\ h.hdr[n].size \in Nat
      /\ End(h, a) = a + H + h.hdr[a].size /\ End(h, n) = n + H + h.hdr[n].size
      /\ End(h, a) \in Int /\ End(h, n) \in Int
      /\ \A b \in SlotsOf(h) : n < b => End(h, n) <= b
  <2>1. h \in Heaps
    BY DEF Listed
  <2>2. /\ h.hdr[a].size \in Nat /\ End(h, a) = a + H + h.hdr[a].size /\ End(h, a) \in Int
    BY Room
  <2>3. /\ h.hdr[n].size \in Nat /\ End(h, n) = n + H + h.hdr[n].size /\ End(h, n) \in Int
        /\ \A b \in SlotsOf(h) : n < b => End(h, n) <= b
    BY <1>1, Room
  <2> QED
    BY <2>1, <2>2, <2>3
<1>5. \A c \in SlotsOf(h) : c \in Addr /\ c \in Nat /\ c # Nil
  BY Numbers DEF SlotsOf
<1>6. H \in Nat /\ H >= 1 /\ z \in Nat /\ z = h.hdr[a].size + H + h.hdr[n].size
  BY <1>2, <1>4, Numbers DEF Both
<1>7. PICK j : j = Join(h, a, z, nx)
  OBVIOUS
<1>8. Joined(h, j, a, z, nx)
  <2>1. z \in Int /\ (nx # Nil => a < nx)
    BY <1>1, <1>3, <1>6
  <2> QED
    BY <1>1, <1>3, <1>4, <1>7, <2>1, JoinHeap
<1>9. /\ g \in Heaps /\ g.isInit = j.isInit /\ g.brk = j.brk /\ g.tail = j.tail /\ g.hdr = j.hdr
      /\ \A c \in Addr : g.mem[c] = IF InData(j, a, c) THEN Zero ELSE j.mem[c]
  <2>1. j \in Heaps /\ g = Clear(j, a) /\ a \in Addr
    BY <1>1, <1>2, <1>7, <1>8 DEF Joined
  <2> QED
    BY <2>1, ClearData
<1>10. g.isInit = h.isInit /\ g.brk = h.brk /\ g.tail = (IF nx = Nil THEN a ELSE h.tail)
  BY <1>8, <1>9 DEF Joined
<1>11. g.hdr[a].prev = h.hdr[a].prev /\ g.hdr[a].next = nx /\ g.hdr[a].size = z
  BY <1>8, <1>9 DEF Joined
<1>12. g.hdr[a].isFree = h.hdr[a].isFree /\ (nx # Nil => g.hdr[nx].isFree = h.hdr[nx].isFree)
  BY <1>8, <1>9 DEF Joined
<1>13. nx # Nil => /\ g.hdr[nx].prev = a /\ g.hdr[nx].next = h.hdr[nx].next
                   /\ g.hdr[nx].size = h.hdr[nx].size
  BY <1>8, <1>9 DEF Joined
<1>14. \A c \in Addr \ {a, nx} :
         g.hdr[c] = IF c > a /\ (nx = Nil \/ c < nx) THEN NoSlot ELSE h.hdr[c]
  BY <1>8, <1>9 DEF Joined
<1>15. g.hdr[n] = NoSlot
  <2>1. n # nx
    BY <1>1, <1>3, Numbers
  <2>2. n > a /\ (nx = Nil \/ n < nx) /\ n # a
    BY <1>1, <1>3
  <2> QED
    BY <1>1, <1>14, <2>1, <2>2
<1>16. \A c \in SlotsOf(h) \ {a, n, nx} : g.hdr[c] = h.hdr[c]
  <2> SUFFICES ASSUME NEW c \in SlotsOf(h) \ {a, n, nx} PROVE ~(c > a /\ (nx = Nil \/ c < nx))
    BY <1>5, <1>14
  <2>1. c \in Nat /\ (c <= a \/ n <= c) /\ (nx = Nil => c <= n)
    BY <1>1, <1>3, <1>5
  <2>2. nx # Nil => c <= n \/ nx <= c
    BY <1>3
  <2> QED
    BY <1>1, <1>3, <2>1, <2>2
<1>17. \A c \in SlotsOf(h) \ {a, n} : /\ g.hdr[c].next = h.hdr[c].next /\ g.hdr[c].size = h.hdr[c].size
                                      /\ g.hdr[c].size >= 0 /\ End(g, c) = End(h, c)
  <2> SUFFICES ASSUME NEW c \in SlotsOf(h) \ {a, n}
               PROVE  /\ g.hdr[c].next = h.hdr[c].next /\ g.hdr[c].size = h.hdr[c].size
                      /\ g.hdr[c].size >= 0
    BY DEF End
  <2>1. h.hdr[c].size >= 0
    BY DEF Listed
  <2>2. CASE c = nx
    BY <1>5, <1>13, <2>1, <2>2
  <2>3. CASE c # nx
    BY <1>16, <2>1, <2>3
  <2> QED
    BY <2>2, <2>3
<1>18. \A c \in SlotsOf(h) \ {n} : g.hdr[c].isFree = h.hdr[c].isFree
  <2> SUFFICES ASSUME NEW c \in SlotsOf(h) \ {n} PROVE g.hdr[c].isFree = h.hdr[c].isFree
    OBVIOUS
  <2>1. CASE c = a
    BY <1>12, <2>1
  <2>2. CASE c = nx
    BY <1>5, <1>12, <2>2
  <2>3. CASE c # a /\ c # nx
    <3>1. g.hdr[c] = h.hdr[c]
      BY <1>16, <2>3
    <3> QED
      BY <3>1
  <2> QED
    BY <2>1, <2>2, <2>3
<1>19. SlotsOf(g) = SlotsOf(h) \ {n}
  <2>1. n \notin SlotsOf(g)
    BY <1>15 DEF SlotsOf
  <2>2. \A c \in SlotsOf(h) \ {n} : c \in SlotsOf(g)
    <3> SUFFICES ASSUME NEW c \in SlotsOf(h) \ {n} PROVE c \in SlotsOf(g)
      OBVIOUS
    <3>1. c \in Addr /\ g.hdr[c].size >= 0
      <4>1. CASE c = a
        <5>1. z >= 0
          BY <1>6
        <5> QED
          BY <1>1, <1>11, <4>1, <5>1
      <4>2. CASE c # a
        BY <1>5, <1>17, <4>2
      <4> QED
        BY <4>1, <4>2
    <3> QED
      BY <1>9, <3>1, SlotIs
  <2>3. \A c \in SlotsOf(g) : c \in SlotsOf(h)
    <3> SUFFICES ASSUME NEW c \in SlotsOf(g), c # a, c # nx PROVE c \in SlotsOf(h)
      BY <1>3, Numbers DEF SlotsOf
    <3>1. c \in Addr /\ g.hdr[c] # NoSlot
      BY DEF SlotsOf
    <3>2. g.hdr[c] = h.hdr[c]
      BY <1>14, <3>1
    <3> QED
      BY <3>1, <3>2 DEF SlotsOf
  <2> QED
    BY <2>1, <2>2, <2>3
<1>20. /\ End(g, a) = a + H + z /\ End(g, a) \in Int
       /\ End(g, a) <= End(h, n) /\ (tight => End(g, a) = End(h, n))
  <2>1. End(g, a) = a + H + z
    BY <1>11 DEF End
  <2> QED
    BY <1>1, <1>4, <1>6, <2>1
<1>21. Listed(g, tight)
  <2>1. g.hdr[a].next = nx /\ g.hdr[a].prev = h.hdr[a].prev /\ g.hdr[a].size >= 0
    <3>1. z >= 0
      BY <1>6
    <3> QED
      BY <1>11, <3>1
  <2>2. n \notin SlotsOf(g)
    BY <1>19
  <2>3. \A c \in SlotsOf(h) \ {n} : c \in SlotsOf(g)
    BY <1>19
  <2>4. \A c \in SlotsOf(g) : c \in SlotsOf(h)
    BY <1>19
  <2>5. nx = Nil => g.tail = a
    BY <1>10
  <2>6. nx # Nil => /\ g.tail = h.tail
                    /\ g.hdr[nx].prev = a /\ g.hdr[nx].next = h.hdr[nx].next
                    /\ g.hdr[nx].size = h.hdr[nx].size
    BY <1>10, <1>13
  <2>7. End(g, a) <= End(h, n) /\ (tight => End(g, a) = End(h, n))
    BY <1>20
  <2>8. g \in Heaps /\ g.isInit = h.isInit /\ g.brk = h.brk
    BY <1>9, <1>10
  <2>9. Removed(h, g, tight, a, n, nx)
    BY <1>16, <2>1, <2>2, <2>3, <2>4, <2>5, <2>6, <2>7, <2>8 DEF Removed
  <2>10. nx = h.hdr[n].next
    BY <1>2
  <2> QED
    BY <2>9, <2>10, RemoveIs
<1>22. \A c \in Addr : ~(a + H <= c /\ c < End(h, n)) => g.mem[c] = h.mem[c]
  <2> SUFFICES ASSUME NEW c \in Addr, ~(a + H <= c /\ c < End(h, n)) PROVE ~InData(g, a, c)
    BY <1>8, <1>9 DEF Joined, InData, End
  <2>1. c \in Int
    BY Numbers
  <2> QED
    BY <1>1, <1>4, <1>6, <1>20, <2>1 DEF InData
<1>23. \A b \in SlotsOf(h) \ {a, n} : \A c \in Addr : b <= c /\ c < End(h, b) => g.mem[c] = h.mem[c]
  <2> SUFFICES ASSUME NEW b \in SlotsOf(h) \ {a, n}, NEW c \in Addr, b <= c, c < End(h, b)
               PROVE  ~(a + H <= c /\ c < End(h, n))
    BY <1>22
  <2>1. /\ b \in Nat /\ End(h, b) \in Int /\ \A e \in SlotsOf(h) : b < e => End(h, b) <= e
    BY Room
  <2>2. c \in Int
    BY Numbers
  <2>3. CASE b < a
    BY <1>1, <1>6, <2>1, <2>2, <2>3
  <2>4. CASE a < b
    <3>1. n < b
      BY <1>1, <2>1, <2>4
    <3>2. End(h, n) <= b
      BY <1>4, <3>1
    <3> QED
      BY <1>4, <2>1, <2>2, <3>2
  <2> QED
    BY <1>1, <2>1, <2>3, <2>4
<1>24. Stamped(g)
  <2> SUFFICES ASSUME NEW b \in SlotsOf(h) \ {n}, NEW c \in Addr
               PROVE  /\ b <= c /\ c < b + H => g.mem[c] = Head
                      /\ g.hdr[b].isFree /\ b + H <= c /\ c < End(g, b) => g.mem[c] = Zero
    BY <1>19 DEF Stamped
  <2>0. c \in Int
    BY Numbers
  <2>1. CASE b = a
    <3>1. b <= c /\ c < b + H => ~(a + H <= c)
      BY <1>1, <1>6, <2>0, <2>1
    <3>2. b + H <= c /\ c < End(g, b) => InData(j, a, c)
      BY <1>9, <2>1 DEF InData, End
    <3>3. b <= c /\ c < b + H => h.mem[c] = Head
      BY <2>1 DEF Stamped
    <3> QED
      BY <1>9, <1>22, <3>1, <3>2, <3>3
  <2>2. CASE b # a
    <3>1. /\ b \in Int /\ End(h, b) \in Int /\ b + H <= End(h, b) /\ End(g, b) = End(h, b)
      <4>1. b \in Int /\ End(h, b) \in Int /\ b + H <= End(h, b)
        <5>1. b \in SlotsOf(h)
          OBVIOUS
        <5> QED
          BY <5>1, Room
      <4>2. End(g, b) = End(h, b)
        BY <1>17, <2>2
      <4> QED
        BY <4>1, <4>2
    <3>2. b <= c /\ c < b + H => c < End(h, b)
      BY <1>6, <2>0, <3>1
    <3>3. b + H <= c => b <= c
      BY <1>6, <2>0, <3>1
    <3>4. /\ b <= c /\ c < b + H => h.mem[c] = Head
          /\ h.hdr[b].isFree /\ b + H <= c /\ c < End(h, b) => h.mem[c] = Zero
      BY DEF Stamped
    <3>5. g.hdr[b].isFree = h.hdr[b].isFree /\ (b <= c /\ c < End(h, b) => g.mem[c] = h.mem[c])
      BY <1>18, <1>23, <2>2
    <3> QED
      BY <3>1, <3>2, <3>3, <3>4, <3>5
  <2> QED
    BY <2>1, <2>2
<1>25. Used(g) = Used(h)
  <2>1. n \notin Used(h)
    BY DEF Used
  <2> QED
    BY <1>18, <1>19, <2>1 DEF Used
<1>26. Keeps(h, g, Nil)
  <2> SUFFICES ASSUME NEW b \in Used(h)
               PROVE  /\ b \in Used(g) /\ g.hdr[b].size = h.hdr[b].size
                      /\ \A c \in Addr : b + H <= c /\ c < End(h, b) => g.mem[c] = h.mem[c]
    BY DEF Keeps
  <2>1. b \in SlotsOf(h) /\ b # a /\ b # n /\ b \in Int
    BY <1>5 DEF Used
  <2>2. \A c \in Addr : b + H <= c => b <= c
    BY <1>6, <2>1, Numbers
  <2> QED
    BY <1>17, <1>23, <1>25, <2>1, <2>2
<1>27. \A c \in SlotsOf(g) : /\ g.hdr[c].isFree <=> h.hdr[c].isFree
                             /\ g.hdr[c].next = IF c = a THEN h.hdr[n].next ELSE h.hdr[c].next
  <2>1. \A c \in SlotsOf(g) : g.hdr[c].isFree <=> h.hdr[c].isFree
    BY <1>18, <1>19
  <2>2. \A c \in SlotsOf(g) : g.hdr[c].next = IF c = a THEN h.hdr[n].next ELSE h.hdr[c].next
    BY <1>2, <1>11, <1>17, <1>19
  <2> QED
    BY <2>1, <2>2
<1>28. a \in SlotsOf(g)
  BY <1>1, <1>19
<1> QED
  BY <1>19, <1>21, <1>24, <1>25, <1>26, <1>27, <1>28 DEF Merged

-----------------------------------------------------------------------------
(* The runs of free slots.  There are at most three, for a moment, in a    *)
(* row: the slot that is freed and its neighbours.                         *)
Stops(h, a) == a = Nil \/ ~h.hdr[a].isFree

(* As no run is longer than three, the function run_behind computes is     *)
(* the one its recursive definition names.                                 *)
LEMMA RunBehindIs ==
  ASSUME NEW h \in Heaps, NEW from, from = run_behind(h),
         \A a, b, c, d \in Addr \cup {Nil} :
           /\ ~Stops(h, a) /\ b = h.hdr[a].next /\ ~Stops(h, b) /\ c = h.hdr[b].next
           /\ ~Stops(h, c) /\ d = h.hdr[c].next
           => Stops(h, d)
  PROVE  \A a \in Addr \cup {Nil} :
           from[a] = IF Stops(h, a) THEN run(0, a)
                     ELSE run(h.hdr[a].size + H + from[h.hdr[a].next].cells, from[h.hdr[a].next].stop)
<1> DEFINE S == Addr \cup {Nil}
           N(a) == h.hdr[a].next
           Add(a, r) == run(h.hdr[a].size + H + r.cells, r.stop)
           R0(a) == run(0, a)
           R1(a) == IF Stops(h, a) THEN run(0, a) ELSE Add(a, R0(N(a)))
           R2(a) == IF Stops(h, a) THEN run(0, a) ELSE Add(a, R1(N(a)))
           R3(a) == IF Stops(h, a) THEN run(0, a) ELSE Add(a, R2(N(a)))
           Solution == [a \in S |-> R3(a)]
           Is(g) == g = [a \in S |-> IF Stops(h, a) THEN run(0, a) ELSE Add(a, g[N(a)])]
<1>1. \A a \in S : ~Stops(h, a) => N(a) \in S
  BY HeapType DEF Stops
<1>2. \A a \in S : ~Stops(h, a) => R3(N(a)) = R2(N(a))
  <2> SUFFICES ASSUME NEW a \in S, ~Stops(h, a) PROVE R3(N(a)) = R2(N(a))
    OBVIOUS
  <2>1. PICK b : b = N(a)
    OBVIOUS
  <2>2. b \in S
    BY <1>1, <2>1
  <2>3. CASE Stops(h, b)
    BY <2>1, <2>3
  <2>4. CASE ~Stops(h, b)
    <3>1. PICK c : c = N(b)
      OBVIOUS
    <3>2. c \in S
      BY <1>1, <2>2, <2>4, <3>1
    <3>3. R2(c) = R1(c)
      <4>1. CASE Stops(h, c)
        BY <4>1
      <4>2. CASE ~Stops(h, c)
        <5>1. PICK d : d = N(c)
          OBVIOUS
        <5>2. d \in S
          BY <1>1, <3>2, <4>2, <5>1
        <5>3. Stops(h, d)
          BY <2>1, <2>2, <2>4, <3>1, <3>2, <4>2, <5>1, <5>2
        <5>4. R1(d) = R0(d)
          BY <5>3
        <5> HIDE DEF R0, Add
        <5> QED
          BY <4>2, <5>1, <5>4
      <4> QED
        BY <4>1, <4>2
    <3> HIDE DEF R1, Add
    <3>4. R3(b) = Add(b, R2(c)) /\ R2(b) = Add(b, R1(c))
      <4> HIDE DEF R2
      <4>1. R3(b) = Add(b, R2(c))
        BY <2>4, <3>1
      <4> USE DEF R2
      <4>2. R2(b) = Add(b, R1(c))
        BY <2>4, <3>1
      <4> QED
        BY <4>1, <4>2
    <3> HIDE DEF R2, R3
    <3> QED
      BY <2>1, <3>3, <3>4
  <2> QED
    BY <2>3, <2>4
<1>3. Is(Solution)
  <2>1. Solution = [a \in S |-> Solution[a]] /\ \A a \in S : Solution[a] = R3(a)
    <3> HIDE DEF R3, S
    <3> QED
      OBVIOUS
  <2> HIDE DEF Solution, S, R2, Add
  <2>2. \A a \in S : Solution[a] = IF Stops(h, a) THEN run(0, a) ELSE Add(a, Solution[N(a)])
    <3> SUFFICES ASSUME NEW a \in S
                 PROVE  Solution[a] = IF Stops(h, a) THEN run(0, a) ELSE Add(a, Solution[N(a)])
      OBVIOUS
    <3>1. CASE Stops(h, a)
      BY <2>1, <3>1
    <3>2. CASE ~Stops(h, a)
      <4>1. Solution[a] = Add(a, R2(N(a)))
        BY <2>1, <3>2
      <4>2. Solution[N(a)] = R3(N(a))
        BY <1>1, <2>1, <3>2
      <4>3. R3(N(a)) = R2(N(a))
        BY <1>2, <3>2
      <4> HIDE DEF R3, N
      <4> QED
        BY <3>2, <4>1, <4>2, <4>3
    <3> QED
      BY <3>1, <3>2
  <2> HIDE DEF N, R3
  <2> QED
    BY <2>1, <2>2
<1>4. PICK f : f = (CHOOSE g : Is(g))
  OBVIOUS
<1>5. Is(f)
  <2> HIDE DEF Is, Solution
  <2> QED
    BY <1>3, <1>4
<1>6. from = f
  BY <1>4 DEF run_behind, Stops
<1> QED
  BY <1>5, <1>6

(* The same, towards the head.                                             *)
Starts(h, a) == a = head \/ ~h.hdr[a].isFree

LEMMA RunBeforeIs ==
  ASSUME NEW h \in Heaps, NEW from, from = run_before(h),
         \A a \in Addr : ~Starts(h, a) => h.hdr[a].prev \in Addr,
         \A a, b, c, d \in Addr :
           /\ ~Starts(h, a) /\ b = h.hdr[a].prev /\ ~Starts(h, b) /\ c = h.hdr[b].prev
           /\ ~Starts(h, c) /\ d = h.hdr[c].prev
           => Starts(h, d)
  PROVE  \A a \in Addr :
           from[a] = IF Starts(h, a) THEN run(0, a)
                     ELSE run(h.hdr[a].size + H + from[h.hdr[a].prev].cells, from[h.hdr[a].prev].stop)
<1> DEFINE S == Addr
           N(a) == h.hdr[a].prev
           Add(a, r) == run(h.hdr[a].size + H + r.cells, r.stop)
           R0(a) == run(0, a)
           R1(a) == IF Starts(h, a) THEN run(0, a) ELSE Add(a, R0(N(a)))
           R2(a) == IF Starts(h, a) THEN run(0, a) ELSE Add(a, R1(N(a)))
           R3(a) == IF Starts(h, a) THEN run(0, a) ELSE Add(a, R2(N(a)))
           Solution == [a \in S |-> R3(a)]
           Is(g) == g = [a \in S |-> IF Starts(h, a) THEN run(0, a) ELSE Add(a, g[N(a)])]
<1>1. \A a \in S : ~Starts(h, a) => N(a) \in S
  OBVIOUS
<1>2. \A a \in S : ~Starts(h, a) => R3(N(a)) = R2(N(a))
  <2> SUFFICES ASSUME NEW a \in S, ~Starts(h, a) PROVE R3(N(a)) = R2(N(a))
    OBVIOUS
  <2>1. PICK b : b = N(a)
    OBVIOUS
  <2>2. b \in S
    BY <1>1, <2>1
  <2>3. CASE Starts(h, b)
    BY <2>1, <2>3
  <2>4. CASE ~Starts(h, b)
    <3>1. PICK c : c = N(b)
      OBVIOUS
    <3>2. c \in S
      BY <1>1, <2>2, <2>4, <3>1
    <3>3. R2(c) = R1(c)
      <4>1. CASE Starts(h, c)
        BY <4>1
      <4>2. CASE ~Starts(h, c)
        <5>1. PICK d : d = N(c)
          OBVIOUS
        <5>2. d \in S
          BY <1>1, <3>2, <4>2, <5>1
        <5>3. Starts(h, d)
          BY <2>1, <2>2, <2>4, <3>1, <3>2, <4>2, <5>1, <5>2
        <5>4. R1(d) = R0(d)
          BY <5>3
        <5> HIDE DEF R0, Add
        <5> QED
          BY <4>2, <5>1, <5>4
      <4> QED
        BY <4>1, <4>2
    <3> HIDE DEF R1, Add
    <3>4. R3(b) = Add(b, R2(c)) /\ R2(b) = Add(b, R1(c))
      <4> HIDE DEF R2
      <4>1. R3(b) = Add(b, R2(c))
        BY <2>4, <3>1
      <4> USE DEF R2
      <4>2. R2(b) = Add(b, R1(c))
        BY <2>4, <3>1
      <4> QED
        BY <4>1, <4>2
    <3> HIDE DEF R2, R3
    <3> QED
      BY <2>1, <3>3, <3>4
  <2> QED
    BY <2>3, <2>4
<1>3. Is(Solution)
  <2>1. Solution = [a \in S |-> Solution[a]] /\ \A a \in S : Solution[a] = R3(a)
    <3> HIDE DEF R3, S
    <3> QED
      OBVIOUS
  <2> HIDE DEF Solution, S, R2, Add
  <2>2. \A a \in S : Solution[a] = IF Starts(h, a) THEN run(0, a) ELSE Add(a, Solution[N(a)])
    <3> SUFFICES ASSUME NEW a \in S
                 PROVE  Solution[a] = IF Starts(h, a) THEN run(0, a) ELSE Add(a, Solution[N(a)])
      OBVIOUS
    <3>1. CASE Starts(h, a)
      BY <2>1, <3>1
    <3>2. CASE ~Starts(h, a)
      <4>1. Solution[a] = Add(a, R2(N(a)))
        BY <2>1, <3>2
      <4>2. Solution[N(a)] = R3(N(a))
        BY <1>1, <2>1, <3>2
      <4>3. R3(N(a)) = R2(N(a))
        BY <1>2, <3>2
      <4> HIDE DEF R3, N
      <4> QED
        BY <3>2, <4>1, <4>2, <4>3
    <3> QED
      BY <3>1, <3>2
  <2> HIDE DEF N, R3
  <2> QED
    BY <2>1, <2>2
<1>4. PICK f : f = (CHOOSE g : Is(g))
  OBVIOUS
<1>5. Is(f)
  <2> HIDE DEF Is, Solution
  <2> QED
    BY <1>3, <1>4
<1>6. from = f
  BY <1>4 DEF run_before, Starts
<1> QED
  BY <1>5, <1>6

(* The slot at has been marked free: only it and what is before it can     *)
(* have a free neighbour behind.                                           *)
Marked(h, tight, at) ==
  /\ Listed(h, tight) /\ Stamped(h) /\ at \in SlotsOf(h) \ {head} /\ h.hdr[at].isFree
  /\ \A a \in Addr : Pair(h, a) => a = at \/ h.hdr[a].next = at

(* A free slot is one of the list, and not its head.                       *)
LEMMA FreeSlot ==
  ASSUME NEW h, NEW tight, Listed(h, tight), NEW a \in Addr \cup {Nil}, ~Stops(h, a)
  PROVE  /\ a \in SlotsOf(h) \ {head} /\ a \in Addr /\ a \in Nat
         /\ ~Stops(h, h.hdr[a].next) => Pair(h, a) /\ a < h.hdr[a].next
<1>1. a \in Addr /\ h.hdr[a].isFree
  BY DEF Stops
<1>2. a \in SlotsOf(h) \ {head}
  <2>1. a \in SlotsOf(h)
    BY <1>1, NoSlotIs DEF SlotsOf
  <2>2. a # head
    BY <1>1 DEF Listed
  <2> QED
    BY <2>1, <2>2
<1>3. ASSUME ~Stops(h, h.hdr[a].next) PROVE Pair(h, a) /\ a < h.hdr[a].next
  <2>1. h.hdr[a].next # Nil /\ h.hdr[h.hdr[a].next].isFree
    BY <1>3 DEF Stops
  <2>2. a < h.hdr[a].next
    BY <1>2, <2>1, After
  <2> QED
    BY <1>1, <1>2, <2>1, <2>2 DEF Pair
<1> QED
  BY <1>1, <1>2, <1>3, Numbers

(* While a slot is freed, no run of free slots is longer than three.       *)
LEMMA FewFree ==
  ASSUME NEW h, NEW tight, NEW at, Marked(h, tight, at)
  PROVE  \A a, b, c, d \in Addr \cup {Nil} :
           /\ ~Stops(h, a) /\ b = h.hdr[a].next /\ ~Stops(h, b) /\ c = h.hdr[b].next
           /\ ~Stops(h, c) /\ d = h.hdr[c].next
           => Stops(h, d)
<1> SUFFICES ASSUME NEW a \in Addr \cup {Nil}, NEW b \in Addr \cup {Nil}, NEW c \in Addr \cup {Nil},
                    NEW d \in Addr \cup {Nil}, ~Stops(h, a), ~Stops(h, b), ~Stops(h, c), ~Stops(h, d),
                    h.hdr[a].next = b, h.hdr[b].next = c, h.hdr[c].next = d
             PROVE  FALSE
  OBVIOUS
<1>1. Listed(h, tight)
  BY DEF Marked
<1>2. Pair(h, a) /\ a < b /\ a \in Addr /\ a \in Nat
  BY <1>1, FreeSlot
<1>3. Pair(h, b) /\ b < c /\ b \in Addr /\ b \in Nat
  BY <1>1, FreeSlot
<1>4. Pair(h, c) /\ c < d /\ c \in Addr /\ c \in Nat
  BY <1>1, FreeSlot
<1>5. d \in Nat
  BY <1>1, FreeSlot
<1>6. (a = at \/ b = at) /\ (b = at \/ c = at) /\ (c = at \/ d = at)
  BY <1>2, <1>3, <1>4 DEF Marked
<1> QED
  BY <1>2, <1>3, <1>4, <1>5, <1>6

(* The free slots behind at have become a part of it.                      *)
LEMMA MergeBehindIs ==
  ASSUME NEW h, NEW tight, NEW at, Marked(h, tight, at), NEW k, k = merge_behind(h, at)
  PROVE  /\ Marked(k, tight, at) /\ \A a \in Addr : Pair(k, a) => k.hdr[a].next = at
         /\ Used(k) = Used(h) /\ Keeps(h, k, Nil)
<1>1. PICK n, from : n = h.hdr[at].next /\ from = run_behind(h)
  OBVIOUS
<1>2. /\ Listed(h, tight) /\ Stamped(h) /\ at \in SlotsOf(h) \ {head} /\ h.hdr[at].isFree
      /\ h \in Heaps /\ at \in Addr /\ n \in Addr \cup {Nil}
  <2>1. Listed(h, tight) /\ Stamped(h) /\ at \in SlotsOf(h) \ {head} /\ h.hdr[at].isFree
    BY DEF Marked
  <2> QED
    BY <1>1, <2>1, HeapType DEF Listed, SlotsOf
<1>3. \A a \in Addr \cup {Nil} :
        from[a] = IF Stops(h, a) THEN run(0, a)
                  ELSE run(h.hdr[a].size + H + from[h.hdr[a].next].cells, from[h.hdr[a].next].stop)
  <2>1. h \in Heaps /\ from = run_behind(h)
    BY <1>1, <1>2
  <2>2. \A a, b, c, d \in Addr \cup {Nil} :
           /\ ~Stops(h, a) /\ b = h.hdr[a].next /\ ~Stops(h, b) /\ c = h.hdr[b].next
           /\ ~Stops(h, c) /\ d = h.hdr[c].next
           => Stops(h, d)
    BY FewFree
  <2> QED
    BY <2>1, <2>2, RunBehindIs
<1>4. k = Clear(IF from[n].stop = n THEN h
                ELSE Join(h, at, h.hdr[at].size + from[n].cells, from[n].stop), at)
  BY <1>1 DEF merge_behind
<1>5. CASE Stops(h, n)
  <2>1. from[n] = run(0, n)
    BY <1>2, <1>3, <1>5
  <2>2. k = Clear(h, at)
    BY <1>4, <2>1 DEF run
  <2>3. /\ Listed(k, tight) /\ Stamped(k) /\ k.hdr = h.hdr /\ SlotsOf(k) = SlotsOf(h)
        /\ Used(k) = Used(h) /\ Keeps(h, k, Nil)
    BY <1>2, <2>2, ClearFree
  <2>4. \A a \in Addr : Pair(k, a) => k.hdr[a].next = at
    <3> SUFFICES ASSUME NEW a \in Addr, Pair(k, a), k.hdr[a].next # at PROVE FALSE
      OBVIOUS
    <3>1. Pair(h, a) /\ h.hdr[a].next # at
      BY <2>3 DEF Pair
    <3>2. a = at
      BY <3>1 DEF Marked
    <3> QED
      BY <1>1, <1>5, <3>1, <3>2 DEF Pair, Stops
  <2> QED
    BY <1>2, <2>3, <2>4 DEF Marked
<1>6. CASE ~Stops(h, n)
  <2>1. /\ n \in SlotsOf(h) \ {head} /\ n \in Addr /\ n \in Nat /\ Pair(h, at) /\ at < n /\ at \in Nat
        /\ h.hdr[n].isFree /\ n # Nil /\ Behind(h, at, n)
    <3>1. n \in SlotsOf(h) \ {head} /\ n \in Addr /\ n \in Nat
      BY <1>2, <1>6, FreeSlot
    <3>2. ~Stops(h, at)
      BY <1>2, Numbers DEF Stops
    <3>3. Pair(h, at) /\ at < n /\ at \in Nat
      BY <1>1, <1>2, <1>6, <3>2, FreeSlot
    <3>4. h.hdr[n].isFree /\ n # Nil
      BY <1>6 DEF Stops
    <3> QED
      BY <1>1, <3>1, <3>3, <3>4 DEF Behind
  <2>2. PICK nn : nn = h.hdr[n].next
    OBVIOUS
  <2>3. Stops(h, nn) /\ nn \in Addr \cup {Nil} /\ nn # n /\ nn # at
    <3>1. nn \in Addr \cup {Nil} /\ (nn # Nil => n < nn)
      BY <1>2, <2>1, <2>2, After
    <3>2. nn # n /\ nn # at
      BY <2>1, <3>1, Numbers
    <3>3. ~Stops(h, nn) => Pair(h, n)
      BY <1>2, <1>6, <2>2, FreeSlot
    <3>4. Pair(h, n) => n = at \/ nn = at
      BY <2>1, <2>2 DEF Marked
    <3> QED
      BY <2>1, <3>1, <3>2, <3>3, <3>4
  <2>4. from[nn] = run(0, nn)
    BY <1>3, <2>3
  <2>5. from[n] = run(h.hdr[n].size + H + 0, nn)
    <3>1. from[n] = run(h.hdr[n].size + H + from[nn].cells, from[nn].stop)
      BY <1>2, <1>3, <1>6, <2>2
    <3>2. from[nn].cells = 0 /\ from[nn].stop = nn
      BY <2>4 DEF run
    <3> QED
      BY <3>1, <3>2
  <2>6. from[n].cells = h.hdr[n].size + H + 0 /\ from[n].stop = nn
    BY <2>5 DEF run
  <2>7. h.hdr[at].size + from[n].cells = Both(h, at, n)
    <3>1. h.hdr[at].size \in Int /\ h.hdr[n].size \in Int /\ H \in Int
      BY <1>2, <2>1, HeapType, Numbers
    <3> QED
      BY <2>6, <3>1 DEF Both
  <2>8. k = Clear(Join(h, at, Both(h, at, n), h.hdr[n].next), at)
    BY <1>4, <2>2, <2>3, <2>6, <2>7
  <2>9. Merged(h, k, tight, at, n)
    BY <1>2, <2>1, <2>8, JoinIs
  <2>10. /\ Listed(k, tight) /\ Stamped(k) /\ SlotsOf(k) = SlotsOf(h) \ {n} /\ at \in SlotsOf(k)
         /\ Used(k) = Used(h) /\ Keeps(h, k, Nil)
    BY <2>9 DEF Merged
  <2>11. \A c \in SlotsOf(k) : k.hdr[c].isFree <=> h.hdr[c].isFree
    BY <2>9 DEF Merged
  <2>12. \A c \in SlotsOf(k) : k.hdr[c].next = IF c = at THEN nn ELSE h.hdr[c].next
    BY <2>2, <2>9 DEF Merged
  <2>13. \A a \in Addr : Pair(k, a) => k.hdr[a].next = at
    <3> SUFFICES ASSUME NEW a \in Addr, Pair(k, a), k.hdr[a].next # at PROVE FALSE
      OBVIOUS
    <3>1. a \in SlotsOf(k) /\ k.hdr[a].isFree /\ k.hdr[a].next # Nil /\ k.hdr[k.hdr[a].next].isFree
      BY DEF Pair
    <3>2. k.hdr[a].next \in SlotsOf(k)
      BY <2>10, <3>1, After
    <3>3. a # at
      <4>1. a = at => nn \in SlotsOf(k) /\ nn # Nil /\ k.hdr[nn].isFree
        BY <2>12, <3>1, <3>2
      <4>2. a = at => h.hdr[nn].isFree
        BY <2>11, <4>1
      <4> QED
        BY <2>3, <4>1, <4>2 DEF Stops
    <3>4. k.hdr[a].next = h.hdr[a].next /\ h.hdr[a].isFree
      BY <2>11, <2>12, <3>1, <3>3
    <3>5. h.hdr[h.hdr[a].next].isFree
      BY <2>11, <3>1, <3>2, <3>4
    <3>6. Pair(h, a)
      BY <2>10, <3>1, <3>4, <3>5 DEF Pair
    <3> QED
      BY <3>3, <3>4, <3>6 DEF Marked
  <2>14. k.hdr[at].isFree
    BY <1>2, <2>10, <2>11
  <2>15. Marked(k, tight, at)
    BY <1>2, <2>10, <2>13, <2>14 DEF Marked
  <2> QED
    BY <2>10, <2>13, <2>15
<1> QED
  BY <1>5, <1>6

(* The slot before a slot.                                                 *)
LEMMA Before ==
  ASSUME NEW h, NEW tight, Listed(h, tight), NEW a \in SlotsOf(h) \ {head}
  PROVE  /\ h.hdr[a].prev \in SlotsOf(h) /\ h.hdr[a].prev \in Addr
         /\ h.hdr[h.hdr[a].prev].next = a /\ a \in Nat /\ h.hdr[a].prev \in Nat /\ h.hdr[a].prev < a
<1>1. PICK p : p = h.hdr[a].prev
  OBVIOUS
<1>2. p \in SlotsOf(h) /\ h.hdr[p].next = a /\ a # Nil
  BY <1>1, Numbers DEF Listed, SlotsOf
<1>3. a \in Nat /\ p < a /\ p \in Nat /\ p \in Addr
  BY <1>2, After
<1> QED
  BY <1>1, <1>2, <1>3

(* The same, towards the head.                                             *)
LEMMA FewBefore ==
  ASSUME NEW h, NEW tight, NEW at, Marked(h, tight, at)
  PROVE  /\ \A a \in Addr : ~Starts(h, a) => h.hdr[a].prev \in Addr
         /\ \A a, b, c, d \in Addr :
              /\ ~Starts(h, a) /\ b = h.hdr[a].prev /\ ~Starts(h, b) /\ c = h.hdr[b].prev
              /\ ~Starts(h, c) /\ d = h.hdr[c].prev
              => Starts(h, d)
<1>1. Listed(h, tight)
  BY DEF Marked
<1>2. \A a \in Addr : ~Starts(h, a) => a \in SlotsOf(h) \ {head} /\ h.hdr[a].isFree
  BY NoSlotIs DEF Starts, SlotsOf
<1>3. \A a, b \in Addr : ~Starts(h, a) /\ ~Starts(h, b) /\ b = h.hdr[a].prev =>
        b < a /\ (a = at \/ b = at) /\ a \in Nat /\ b \in Nat
  <2> SUFFICES ASSUME NEW a \in Addr, NEW b \in Addr, ~Starts(h, a), ~Starts(h, b), h.hdr[a].prev = b
               PROVE  b < a /\ (a = at \/ b = at) /\ a \in Nat /\ b \in Nat
    OBVIOUS
  <2>1. a \in SlotsOf(h) \ {head} /\ h.hdr[a].isFree /\ b \in SlotsOf(h) /\ h.hdr[b].isFree /\ a # Nil
    BY <1>2, Numbers
  <2>2. h.hdr[b].next = a /\ b < a /\ a \in Nat /\ b \in Nat
    BY <1>1, <2>1, Before
  <2>3. Pair(h, b)
    BY <2>1, <2>2 DEF Pair
  <2> QED
    BY <2>2, <2>3 DEF Marked
<1>4. \A a \in Addr : ~Starts(h, a) => h.hdr[a].prev \in Addr
  BY <1>1, <1>2, Before
<1>5. ASSUME NEW a \in Addr, NEW b \in Addr, NEW c \in Addr, NEW d \in Addr,
             ~Starts(h, a), ~Starts(h, b), ~Starts(h, c), ~Starts(h, d),
             h.hdr[a].prev = b, h.hdr[b].prev = c, h.hdr[c].prev = d
      PROVE  FALSE
  <2>1. b < a /\ (a = at \/ b = at) /\ a \in Nat /\ b \in Nat
    BY <1>3, <1>5
  <2>2. c < b /\ (b = at \/ c = at) /\ c \in Nat
    BY <1>3, <1>5
  <2>3. d < c /\ (c = at \/ d = at) /\ d \in Nat
    BY <1>3, <1>5
  <2> QED
    BY <2>1, <2>2, <2>3
<1>6. \A a, b, c, d \in Addr :
        /\ ~Starts(h, a) /\ b = h.hdr[a].prev /\ ~Starts(h, b) /\ c = h.hdr[b].prev
        /\ ~Starts(h, c) /\ d = h.hdr[c].prev
        => Starts(h, d)
  BY <1>5
<1> QED
  BY <1>4, <1>6

(* The free slots before at have taken it up: no free slot has a free      *)
(* neighbour any more.                                                     *)
LEMMA MergeBeforeIs ==
  ASSUME NEW h, NEW tight, NEW at, Marked(h, tight, at),
         \A a \in Addr : Pair(h, a) => h.hdr[a].next = at, NEW k, k = merge_before(h, at)
  PROVE  Good(k, tight) /\ Used(k) = Used(h) /\ Keeps(h, k, Nil)
<1>1. PICK p, from : p = h.hdr[at].prev /\ from = run_before(h)
  OBVIOUS
<1>2. /\ Listed(h, tight) /\ Stamped(h) /\ at \in SlotsOf(h) \ {head} /\ h.hdr[at].isFree
      /\ h \in Heaps /\ at \in Addr
  <2>1. Listed(h, tight) /\ Stamped(h) /\ at \in SlotsOf(h) \ {head} /\ h.hdr[at].isFree
    BY DEF Marked
  <2> QED
    BY <2>1 DEF Listed, SlotsOf
<1>3. p \in SlotsOf(h) /\ p \in Addr /\ h.hdr[p].next = at /\ at \in Nat /\ p \in Nat /\ p < at /\ at # Nil
  <2>1. at # Nil
    BY <1>2, Numbers
  <2> QED
    BY <1>1, <1>2, <2>1, Before
<1>4. \A a \in Addr :
        from[a] = IF Starts(h, a) THEN run(0, a)
                  ELSE run(h.hdr[a].size + H + from[h.hdr[a].prev].cells, from[h.hdr[a].prev].stop)
  <2>1. h \in Heaps /\ from = run_before(h)
    BY <1>1, <1>2
  <2>2. \A a \in Addr : ~Starts(h, a) => h.hdr[a].prev \in Addr
    BY FewBefore
  <2>3. \A a, b, c, d \in Addr :
           /\ ~Starts(h, a) /\ b = h.hdr[a].prev /\ ~Starts(h, b) /\ c = h.hdr[b].prev
           /\ ~Starts(h, c) /\ d = h.hdr[c].prev
           => Starts(h, d)
    BY FewBefore
  <2> QED
    BY <2>1, <2>2, <2>3, RunBeforeIs
<1>5. k = IF from[p].stop = p THEN h
          ELSE Clear(Join(h, h.hdr[from[p].stop].next, from[p].cells + h.hdr[at].size, h.hdr[at].next),
                     h.hdr[from[p].stop].next)
  BY <1>1 DEF merge_before
<1>6. \A a \in Addr : Pair(h, a) => a = p
  <2> SUFFICES ASSUME NEW a \in Addr, Pair(h, a) PROVE a = p
    OBVIOUS
  <2>1. h.hdr[a].next = at /\ a \in SlotsOf(h)
    BY DEF Pair
  <2> QED
    BY <1>1, <1>2, <1>3, <2>1, After
<1>7. CASE Starts(h, p)
  <2>1. from[p] = run(0, p)
    BY <1>3, <1>4, <1>7
  <2>2. k = h
    BY <1>5, <2>1 DEF run
  <2>3. ~h.hdr[p].isFree
    BY <1>2, <1>7 DEF Starts, Listed
  <2>4. \A a \in Addr : ~Pair(h, a)
    BY <1>6, <2>3 DEF Pair
  <2>5. Keeps(h, h, Nil)
    BY DEF Keeps
  <2> QED
    BY <1>2, <2>2, <2>4, <2>5 DEF Good
<1>8. CASE ~Starts(h, p)
  <2>1. p \in SlotsOf(h) \ {head} /\ h.hdr[p].isFree
    BY <1>3, <1>8 DEF Starts
  <2>2. PICK pp : pp = h.hdr[p].prev
    OBVIOUS
  <2>3. pp \in SlotsOf(h) /\ pp \in Addr /\ h.hdr[pp].next = p /\ pp \in Nat /\ pp < p /\ p # Nil
    <3>1. p # Nil
      BY <1>3, Numbers
    <3> QED
      BY <1>2, <2>1, <2>2, <3>1, Before
  <2>4. Starts(h, pp)
    <3>1. ~Starts(h, pp) => Pair(h, pp)
      BY <2>1, <2>3 DEF Starts, Pair
    <3>2. Pair(h, pp) => h.hdr[pp].next = at
      BY <2>3
    <3> QED
      BY <1>3, <2>3, <3>1, <3>2
  <2>5. from[pp] = run(0, pp)
    BY <1>4, <2>3, <2>4
  <2>6. from[p] = run(h.hdr[p].size + H + 0, pp)
    <3>1. from[p] = run(h.hdr[p].size + H + from[pp].cells, from[pp].stop)
      BY <1>3, <1>4, <1>8, <2>2
    <3>2. from[pp].cells = 0 /\ from[pp].stop = pp
      BY <2>5 DEF run
    <3> QED
      BY <3>1, <3>2
  <2>7. from[p].cells = h.hdr[p].size + H + 0 /\ from[p].stop = pp
    BY <2>6 DEF run
  <2>8. from[p].cells + h.hdr[at].size = Both(h, p, at)
    <3>1. h.hdr[at].size \in Int /\ h.hdr[p].size \in Int /\ H \in Int
      BY <1>2, <1>3, HeapType, Numbers
    <3> QED
      BY <2>7, <3>1 DEF Both
  <2>9. k = Clear(Join(h, p, Both(h, p, at), h.hdr[at].next), p)
    <3>1. pp # p
      BY <1>3, <2>3
    <3> QED
      BY <1>5, <2>3, <2>7, <2>8, <3>1
  <2>10. Behind(h, p, at)
    BY <1>3 DEF Behind
  <2>11. Merged(h, k, tight, p, at)
    BY <1>2, <2>1, <2>9, <2>10, JoinIs
  <2>12. /\ Listed(k, tight) /\ Stamped(k) /\ SlotsOf(k) = SlotsOf(h) \ {at} /\ p \in SlotsOf(k)
         /\ Used(k) = Used(h) /\ Keeps(h, k, Nil)
    BY <2>11 DEF Merged
  <2>13. \A c \in SlotsOf(k) : k.hdr[c].isFree <=> h.hdr[c].isFree
    BY <2>11 DEF Merged
  <2>14. \A c \in SlotsOf(k) : k.hdr[c].next = IF c = p THEN h.hdr[at].next ELSE h.hdr[c].next
    BY <2>11 DEF Merged
  <2>15. \A a \in Addr : ~Pair(k, a)
    <3> SUFFICES ASSUME NEW a \in Addr, Pair(k, a) PROVE FALSE
      OBVIOUS
    <3>1. a \in SlotsOf(k) /\ k.hdr[a].isFree /\ k.hdr[a].next # Nil /\ k.hdr[k.hdr[a].next].isFree
      BY DEF Pair
    <3>2. k.hdr[a].next \in SlotsOf(k) /\ k.hdr[a].next # at
      <4>1. k.hdr[a].next \in SlotsOf(k)
        BY <2>12, <3>1, After
      <4> QED
        BY <2>12, <4>1
    <3>3. h.hdr[k.hdr[a].next].isFree
      BY <2>13, <3>1, <3>2
    <3>4. CASE a = p
      <4>1. k.hdr[a].next = h.hdr[at].next
        BY <2>14, <3>1, <3>4
      <4>2. Pair(h, at)
        BY <1>2, <3>1, <3>3, <4>1 DEF Pair
      <4> QED
        BY <1>2, <1>3, <1>6, <4>2
    <3>5. CASE a # p
      <4>1. k.hdr[a].next = h.hdr[a].next
        BY <2>14, <3>1, <3>5
      <4>2. Pair(h, a)
        BY <2>12, <2>13, <3>1, <3>3, <4>1 DEF Pair
      <4> QED
        BY <1>6, <3>5, <4>2
    <3> QED
      BY <3>4, <3>5
  <2> QED
    BY <2>12, <2>15 DEF Good
<1> QED
  BY <1>7, <1>8

(* Who keeps all blocks keeps all but one.                                 *)
LEMMA KeepsAll ==
  ASSUME NEW h, NEW g, NEW at, Keeps(h, g, Nil)
  PROVE  Keeps(h, g, at)
<1>1. \A a \in Used(h) : a # Nil
  BY Numbers DEF Used, SlotsOf
<1> QED
  BY <1>1 DEF Keeps

(* mm_free, before it merges: the block at at is cleared and marked.       *)
LEMMA MarkIs ==
  ASSUME NEW h, NEW tight, Good(h, tight), NEW at \in Used(h),
         NEW q, q = Clear(h, at), NEW m, m = [q EXCEPT !.hdr[at].isFree = TRUE]
  PROVE  Marked(m, tight, at) /\ Used(m) = Used(h) \ {at} /\ Keeps(h, m, at)
<1>1. /\ Listed(h, tight) /\ Stamped(h) /\ h \in Heaps /\ at \in SlotsOf(h) \ {head} /\ at \in Addr
      /\ ~h.hdr[at].isFree /\ at \in Nat
  BY Numbers DEF Good, Listed, Used, SlotsOf
<1>2. /\ q \in Heaps /\ q.isInit = h.isInit /\ q.brk = h.brk /\ q.tail = h.tail /\ q.hdr = h.hdr
      /\ \A c \in Addr : q.mem[c] = IF InData(h, at, c) THEN Zero ELSE h.mem[c]
  BY <1>1, ClearData
<1>3. Listed(q, tight)
  BY <1>1, <1>2, SameList
<1>4. SlotsOf(q) = SlotsOf(h) /\ \A a \in Addr : End(q, a) = End(h, a)
  BY <1>2 DEF SlotsOf, End
<1>5. Listed(m, tight) /\ SlotsOf(m) = SlotsOf(q) /\ \A a \in Addr : End(m, a) = End(q, a)
  <2>1. at \in SlotsOf(q) \ {head}
    BY <1>1, <1>4
  <2> QED
    BY <1>3, <2>1, SetFree
<1>6. m.mem = q.mem
  <2>1. at \in SlotsOf(q) \ {head}
    BY <1>1, <1>4
  <2> QED
    BY <1>3, <2>1, SetFree
<1>7. m.hdr[at].isFree
  <2>1. at \in SlotsOf(q) \ {head}
    BY <1>1, <1>4
  <2> QED
    BY <1>3, <2>1, SetFree
<1>8. \A a \in Addr : /\ a # at => m.hdr[a] = h.hdr[a]
                      /\ m.hdr[a].next = h.hdr[a].next /\ m.hdr[a].size = h.hdr[a].size
  <2>1. at \in SlotsOf(q) \ {head}
    BY <1>1, <1>4
  <2> QED
    BY <1>2, <1>3, <2>1, SetFree
<1>9. \A a \in SlotsOf(h) \ {at} : \A c \in Addr : a <= c /\ c < End(h, a) => m.mem[c] = h.mem[c]
  <2> SUFFICES ASSUME NEW a \in SlotsOf(h) \ {at}, NEW c \in Addr, a <= c, c < End(h, a)
               PROVE  ~InData(h, at, c)
    BY <1>2, <1>6
  <2>1. /\ a \in Nat /\ End(h, a) \in Int /\ \A b \in SlotsOf(h) : a < b => End(h, a) <= b
    BY <1>1, Room
  <2>2. /\ End(h, at) \in Int /\ \A b \in SlotsOf(h) : at < b => End(h, at) <= b
    BY <1>1, Room
  <2>3. c \in Int /\ H \in Int /\ H >= 1
    BY Numbers
  <2>4. CASE a < at
    BY <1>1, <2>1, <2>3, <2>4 DEF InData
  <2>5. CASE at < a
    BY <1>1, <2>1, <2>2, <2>3, <2>5 DEF InData
  <2> QED
    BY <1>1, <2>1, <2>4, <2>5
<1>10. Stamped(m)
  <2> SUFFICES ASSUME NEW a \in SlotsOf(h), NEW c \in Addr
               PROVE  /\ a <= c /\ c < a + H => m.mem[c] = Head
                      /\ m.hdr[a].isFree /\ a + H <= c /\ c < End(h, a) => m.mem[c] = Zero
    BY <1>4, <1>5 DEF Stamped, SlotsOf
  <2>0. c \in Int /\ H \in Int /\ H >= 1
    BY Numbers
  <2>1. CASE a = at
    <3>1. a <= c /\ c < a + H => ~InData(h, at, c)
      BY <1>1, <2>0, <2>1 DEF InData
    <3>2. a + H <= c /\ c < End(h, a) => InData(h, at, c)
      BY <2>1 DEF InData
    <3>3. a <= c /\ c < a + H => h.mem[c] = Head
      BY <1>1, <2>1 DEF Stamped
    <3> QED
      BY <1>2, <1>6, <3>1, <3>2, <3>3
  <2>2. CASE a # at
    <3>1. a \in Int /\ End(h, a) \in Int /\ a + H <= End(h, a) /\ a \in Addr
      BY <1>1, Room DEF SlotsOf
    <3>2. a <= c /\ c < a + H => c < End(h, a)
      BY <2>0, <3>1
    <3>3. a + H <= c => a <= c
      BY <2>0, <3>1
    <3>4. /\ a <= c /\ c < a + H => h.mem[c] = Head
          /\ h.hdr[a].isFree /\ a + H <= c /\ c < End(h, a) => h.mem[c] = Zero
      BY <1>1 DEF Stamped
    <3>5. m.hdr[a].isFree => h.hdr[a].isFree
      BY <1>8, <2>2, <3>1
    <3>6. a <= c /\ c < End(h, a) => m.mem[c] = h.mem[c]
      BY <1>9, <2>2
    <3> QED
      BY <3>2, <3>3, <3>4, <3>5, <3>6
  <2> QED
    BY <2>1, <2>2
<1>11. \A a \in Addr : Pair(m, a) => a = at \/ m.hdr[a].next = at
  <2> SUFFICES ASSUME NEW a \in Addr, Pair(m, a), a # at, m.hdr[a].next # at PROVE FALSE
    OBVIOUS
  <2>1. /\ a \in SlotsOf(h) /\ m.hdr[a].isFree /\ m.hdr[a].next # Nil
        /\ m.hdr[m.hdr[a].next].isFree
    BY <1>4, <1>5 DEF Pair
  <2>2. m.hdr[a].next = h.hdr[a].next /\ h.hdr[a].isFree
    BY <1>8, <2>1
  <2>3. h.hdr[a].next \in Addr
    BY <1>1, <2>1, <2>2, After
  <2>4. h.hdr[h.hdr[a].next].isFree
    BY <1>8, <2>1, <2>2, <2>3
  <2> QED
    BY <2>1, <2>2, <2>4 DEF Good, Pair
<1>12. Used(m) = Used(h) \ {at}
  <2>1. \A a \in SlotsOf(h) : a # at => m.hdr[a] = h.hdr[a]
    BY <1>8 DEF SlotsOf
  <2> QED
    BY <1>4, <1>5, <1>7, <2>1 DEF Used
<1>13. Keeps(h, m, at)
  <2> SUFFICES ASSUME NEW b \in Used(h) \ {at}
               PROVE  /\ b \in Used(m) /\ m.hdr[b].size = h.hdr[b].size
                      /\ \A c \in Addr : b + H <= c /\ c < End(h, b) => m.mem[c] = h.mem[c]
    BY DEF Keeps
  <2>1. b \in SlotsOf(h) /\ b # at /\ b \in Addr /\ b \in Int
    BY Numbers DEF Used, SlotsOf
  <2>2. \A c \in Addr : b + H <= c => b <= c
    BY <2>1, Numbers
  <2> QED
    BY <1>8, <1>9, <1>12, <2>1, <2>2
<1> QED
  BY <1>1, <1>4, <1>5, <1>7, <1>10, <1>11, <1>12, <1>13 DEF Marked

(* mm_free.                                                                *)
LEMMA FreedIs ==
  ASSUME NEW h, NEW tight, Good(h, tight), NEW at \in Used(h), NEW g, g = mm_free(h, at + H)
  PROVE  Good(g, tight) /\ Used(g) = Used(h) \ {at} /\ Keeps(h, g, at)
<1>1. PICK q : q = Clear(h, at)
  OBVIOUS
<1>2. PICK m : m = [q EXCEPT !.hdr[at].isFree = TRUE]
  OBVIOUS
<1>3. PICK k : k = merge_behind(m, at)
  OBVIOUS
<1>4. g = merge_before(k, at)
  <2>1. at \in Nat /\ H \in Nat
    BY Numbers DEF Used, SlotsOf
  <2>2. (at + H) - H = at /\ at + H # Nil
    BY <2>1 DEF Nil
  <2> QED
    BY <1>1, <1>2, <1>3, <2>2 DEF mm_free, merge_free_space
<1>5. Marked(m, tight, at) /\ Used(m) = Used(h) \ {at} /\ Keeps(h, m, at)
  BY <1>1, <1>2, MarkIs
<1>6. /\ Marked(k, tight, at) /\ \A a \in Addr : Pair(k, a) => k.hdr[a].next = at
      /\ Used(k) = Used(m) /\ Keeps(m, k, Nil)
  BY <1>3, <1>5, MergeBehindIs
<1>7. Good(g, tight) /\ Used(g) = Used(k) /\ Keeps(k, g, Nil)
  BY <1>4, <1>6, MergeBeforeIs
<1>8. Keeps(h, g, at)
  <2>1. Keeps(m, k, at) /\ Keeps(k, g, at)
    BY <1>6, <1>7, KeepsAll
  <2>2. Keeps(h, k, at)
    BY <1>5, <2>1, KeepsMore
  <2> QED
    BY <2>1, <2>2, KeepsMore
<1> QED
  BY <1>5, <1>6, <1>7, <1>8

-----------------------------------------------------------------------------
(* What the program holds.                                                 *)
LEMMA HoldsKept ==
  ASSUME NEW h, NEW g, NEW at, Keeps(h, g, at), NEW a \in Used(h) \ {at}, NEW block,
         Holds(h, a, block)
  PROVE  Holds(g, a, block)
<1>1. g.hdr[a].size = h.hdr[a].size
  BY DEF Keeps
<1>2. \A c \in Addr : a + H <= c /\ c < End(h, a) => g.mem[c] = h.mem[c]
  BY DEF Keeps
<1>3. End(g, a) = End(h, a)
  BY <1>1 DEF End
<1> QED
  BY <1>1, <1>2, <1>3 DEF Holds

(* A block that mm_malloc has cleared holds zeros.                         *)
LEMMA HoldsZero ==
  ASSUME NEW g, NEW at \in Int, NEW size \in Nat \ {0}, g.hdr[at].size \in Int, g.hdr[at].size >= size,
         Blank(g, at)
  PROVE  Holds(g, at, [i \in 0 .. size - 1 |-> Zero])
<1>1. PICK block : block = [i \in 0 .. size - 1 |-> Zero]
  OBVIOUS
<1>2. block \in [0 .. size - 1 -> Cells] /\ \A i \in 0 .. size - 1 : block[i] = Zero
  BY <1>1, Numbers
<1>3. size <= g.hdr[at].size
  OBVIOUS
<1>4. ASSUME NEW c \in Addr, at + H <= c, c < End(g, at)
      PROVE  g.mem[c] = IF c - (at + H) < size THEN block[c - (at + H)] ELSE Zero
  <2>1. g.mem[c] = Zero
    BY <1>4 DEF Blank
  <2>2. c - (at + H) < size => c - (at + H) \in 0 .. size - 1
    <3>1. c \in Int /\ H \in Int /\ at \in Int /\ at + H <= c
      BY <1>4, Numbers
    <3> QED
      BY <3>1
  <2> QED
    BY <1>2, <2>1, <2>2
<1> QED
  BY <1>1, <1>2, <1>3, <1>4 DEF Holds

(* The data of a block in use, and nothing else, is written.               *)
LEMMA WriteIs ==
  ASSUME NEW h, NEW tight, Good(h, tight), NEW at \in Used(h), NEW m \in [Addr -> Cells],
         \A c \in Addr : ~InData(h, at, c) => m[c] = h.mem[c],
         NEW g, g = [h EXCEPT !.mem = m]
  PROVE  Good(g, tight) /\ Used(g) = Used(h) /\ g.hdr = h.hdr /\ g.mem = m /\ Keeps(h, g, at)
<1>1. Listed(h, tight) /\ Stamped(h) /\ h \in Heaps /\ at \in SlotsOf(h) /\ ~h.hdr[at].isFree
  BY DEF Good, Listed, Used
<1>2. /\ g \in Heaps /\ g.isInit = h.isInit /\ g.brk = h.brk /\ g.tail = h.tail
      /\ g.hdr = h.hdr /\ g.mem = m
  BY <1>1 DEF Heaps
<1>3. Listed(g, tight)
  BY <1>1, <1>2, SameList
<1>4. SlotsOf(g) = SlotsOf(h) /\ \A a : End(g, a) = End(h, a)
  BY <1>2 DEF SlotsOf, End
<1>5. \A a \in SlotsOf(h) \ {at} : \A c \in Addr : a <= c /\ c < End(h, a) => g.mem[c] = h.mem[c]
  <2> SUFFICES ASSUME NEW a \in SlotsOf(h) \ {at}, NEW c \in Addr, a <= c, c < End(h, a)
               PROVE  ~InData(h, at, c)
    BY <1>2
  <2>1. /\ a \in Nat /\ End(h, a) \in Int /\ \A b \in SlotsOf(h) : a < b => End(h, a) <= b
    BY <1>1, Room
  <2>2. /\ at \in Nat /\ End(h, at) \in Int /\ \A b \in SlotsOf(h) : at < b => End(h, at) <= b
    BY <1>1, Room
  <2>3. c \in Int /\ H \in Int /\ H >= 1
    BY Numbers
  <2>4. CASE a < at
    BY <1>1, <2>1, <2>2, <2>3, <2>4 DEF InData
  <2>5. CASE at < a
    BY <1>1, <2>1, <2>2, <2>3, <2>5 DEF InData
  <2> QED
    BY <2>1, <2>2, <2>4, <2>5
<1>6. Stamped(g)
  <2> SUFFICES ASSUME NEW a \in SlotsOf(h), NEW c \in Addr
               PROVE  /\ a <= c /\ c < a + H => g.mem[c] = Head
                      /\ h.hdr[a].isFree /\ a + H <= c /\ c < End(h, a) => g.mem[c] = Zero
    BY <1>2, <1>4 DEF Stamped
  <2>0. c \in Int /\ H \in Int /\ H >= 1
    BY Numbers
  <2>1. a \in Int /\ End(h, a) \in Int /\ a + H <= End(h, a)
    BY <1>1, Room
  <2>2. /\ a <= c /\ c < a + H => h.mem[c] = Head
        /\ h.hdr[a].isFree /\ a + H <= c /\ c < End(h, a) => h.mem[c] = Zero
    BY <1>1 DEF Stamped
  <2>3. CASE a = at
    <3>1. a <= c /\ c < a + H => ~InData(h, at, c)
      BY <2>0, <2>1, <2>3 DEF InData
    <3> QED
      BY <1>1, <1>2, <2>2, <2>3, <3>1
  <2>4. CASE a # at
    <3>1. a <= c /\ c < a + H => c < End(h, a)
      BY <2>0, <2>1
    <3>2. a + H <= c => a <= c
      BY <2>0, <2>1
    <3>3. a <= c /\ c < End(h, a) => g.mem[c] = h.mem[c]
      BY <1>5, <2>4
    <3> QED
      BY <2>2, <3>1, <3>2, <3>3
  <2> QED
    BY <2>3, <2>4
<1>7. \A a \in Addr : ~Pair(g, a)
  BY <1>2, <1>4 DEF Good, Pair
<1>8. Used(g) = Used(h)
  BY <1>2, <1>4 DEF Used
<1>9. Keeps(h, g, at)
  <2> SUFFICES ASSUME NEW b \in Used(h) \ {at}
               PROVE  /\ b \in Used(g) /\ g.hdr[b].size = h.hdr[b].size
                      /\ \A c \in Addr : b + H <= c /\ c < End(h, b) => g.mem[c] = h.mem[c]
    BY DEF Keeps
  <2>1. b \in SlotsOf(h) /\ b # at /\ b \in Addr /\ b \in Int
    BY Numbers DEF Used, SlotsOf
  <2>2. \A c \in Addr : b + H <= c => b <= c
    BY <2>1, Numbers
  <2> QED
    BY <1>2, <1>5, <1>8, <2>1, <2>2
<1> QED
  BY <1>2, <1>3, <1>6, <1>7, <1>8, <1>9 DEF Good

(* memcpy into the new block of mm_realloc: what the old one holds, as far *)
(* as it goes, and zero behind it.                                         *)
LEMMA CopyIs ==
  ASSUME NEW g, NEW tight, Good(g, tight), NEW at \in Used(g), NEW a \in Used(g), a # at,
         NEW size \in Nat \ {0}, g.hdr[at].size >= size, Blank(g, at),
         NEW block, Holds(g, a, block),
         NEW k, k = (IF size >= g.hdr[a].size THEN g.hdr[a].size ELSE size),
         NEW m, m = Copy(g.mem, at + H, a + H, k), NEW full, full = [g EXCEPT !.mem = m]
  PROVE  /\ Good(full, tight) /\ Used(full) = Used(g) /\ full.hdr = g.hdr /\ Keeps(g, full, at)
         /\ Holds(full, at, [i \in 0 .. size - 1 |-> IF i \in DOMAIN block THEN block[i] ELSE Zero])
<1>1. /\ Listed(g, tight) /\ g \in Heaps /\ at \in SlotsOf(g) /\ a \in SlotsOf(g)
      /\ at \in Addr /\ a \in Addr
  BY DEF Good, Listed, Used, SlotsOf
<1>2. /\ at \in Nat /\ g.hdr[at].size \in Nat /\ End(g, at) = at + H + g.hdr[at].size
      /\ End(g, at) <= MaxBrk /\ End(g, at) \in Int
  BY <1>1, Room
<1>3. /\ a \in Nat /\ g.hdr[a].size \in Nat /\ End(g, a) = a + H + g.hdr[a].size
      /\ End(g, a) <= MaxBrk /\ End(g, a) \in Int
  BY <1>1, Room
<1>4. k \in Nat /\ k <= size /\ k <= g.hdr[a].size /\ (k < size => k = g.hdr[a].size)
  BY <1>3
<1>5. H \in Nat /\ H >= 1 /\ MaxBrk \in Nat /\ \A c \in Addr : c \in Nat /\ c < MaxBrk
  BY Numbers
<1>6. PICK src : src = [c \in Addr |-> a + H + (c - (at + H))]
  OBVIOUS
<1>7. \A c \in Addr : c >= at + H /\ c < at + H + k =>
        src[c] \in Addr /\ a + H <= src[c] /\ src[c] < End(g, a) /\ src[c] - (a + H) = c - (at + H)
  <2> SUFFICES ASSUME NEW c \in Addr, c >= at + H, c < at + H + k, NEW e, e = src[c]
               PROVE  e \in Addr /\ a + H <= e /\ e < End(g, a) /\ e - (a + H) = c - (at + H)
    OBVIOUS
  <2>1. e = a + H + (c - (at + H)) /\ c \in Nat
    BY <1>5, <1>6
  <2>2. e \in Int /\ a + H <= e /\ e < End(g, a) /\ e - (a + H) = c - (at + H)
    BY <1>2, <1>3, <1>4, <1>5, <2>1
  <2>3. e \in Addr
    <3>1. 0 <= e /\ e < MaxBrk
      BY <1>3, <1>5, <2>2
    <3> QED
      BY <2>2, <3>1, Numbers
  <2> QED
    BY <2>2, <2>3
<1>8. m = [c \in Addr |-> IF c >= at + H /\ c < at + H + k THEN g.mem[src[c]] ELSE g.mem[c]]
  BY <1>6 DEF Copy
<1>9. m \in [Addr -> Cells]
  <2>1. g.mem \in [Addr -> Cells]
    BY <1>1, HeapType
  <2>2. \A c \in Addr : (IF c >= at + H /\ c < at + H + k THEN g.mem[src[c]] ELSE g.mem[c]) \in Cells
    BY <1>7, <2>1
  <2> QED
    BY <1>8, <2>2
<1>10. \A c \in Addr : ~InData(g, at, c) => m[c] = g.mem[c]
  <2> SUFFICES ASSUME NEW c \in Addr, c >= at + H, c < at + H + k PROVE InData(g, at, c)
    BY <1>8
  <2> QED
    BY <1>2, <1>4, <1>5 DEF InData
<1>11. /\ Good(full, tight) /\ Used(full) = Used(g) /\ full.hdr = g.hdr /\ full.mem = m
       /\ Keeps(g, full, at)
  BY <1>9, <1>10, WriteIs
<1>12. PICK new : new = [i \in 0 .. size - 1 |-> IF i \in DOMAIN block THEN block[i] ELSE Zero]
  OBVIOUS
<1>13. PICK n \in Nat \ {0} : /\ n <= g.hdr[a].size
                              /\ block \in [0 .. n - 1 -> Cells]
                              /\ \A c \in Addr : a + H <= c /\ c < End(g, a) =>
                                   g.mem[c] = IF c - (a + H) < n THEN block[c - (a + H)] ELSE Zero
  BY DEF Holds
<1>14. new \in [0 .. size - 1 -> Cells]
       /\ \A i \in 0 .. size - 1 : new[i] = IF i < n THEN block[i] ELSE Zero
  <2>1. \A i \in 0 .. size - 1 : i \in DOMAIN block <=> i < n
    BY <1>13
  <2>2. \A i \in 0 .. size - 1 : new[i] = IF i < n THEN block[i] ELSE Zero
    BY <1>12, <2>1
  <2>3. \A i \in 0 .. size - 1 : (IF i \in DOMAIN block THEN block[i] ELSE Zero) \in Cells
    BY <1>13, Numbers
  <2> QED
    BY <1>12, <2>2, <2>3
<1>15. ASSUME NEW c \in Addr, at + H <= c, c < End(full, at)
       PROVE  full.mem[c] = IF c - (at + H) < size THEN new[c - (at + H)] ELSE Zero
  <2>1. PICK i : i = c - (at + H)
    OBVIOUS
  <2>2. i \in Nat /\ c \in Nat /\ (i < size => i \in 0 .. size - 1) /\ (c < at + H + k <=> i < k)
        /\ c >= at + H /\ c < End(g, at)
    <3>1. End(full, at) = End(g, at)
      BY <1>11 DEF End
    <3> QED
      BY <1>2, <1>4, <1>5, <1>15, <2>1, <3>1
  <2>3. g.mem[c] = Zero
    BY <1>15, <2>2 DEF Blank
  <2>4. CASE i < k
    <3>1. full.mem[c] = g.mem[src[c]]
      BY <1>8, <1>11, <2>2, <2>4
    <3>2. src[c] \in Addr /\ a + H <= src[c] /\ src[c] < End(g, a) /\ src[c] - (a + H) = i
      BY <1>7, <2>1, <2>2, <2>4
    <3>3. g.mem[src[c]] = IF i < n THEN block[i] ELSE Zero
      BY <1>13, <3>2
    <3>4. i < size
      BY <1>4, <2>2, <2>4
    <3>5. new[i] = IF i < n THEN block[i] ELSE Zero
      BY <1>14, <2>2, <3>4
    <3> QED
      BY <2>1, <3>1, <3>3, <3>4, <3>5
  <2>5. CASE ~(i < k)
    <3>1. full.mem[c] = Zero
      BY <1>8, <1>11, <2>2, <2>3, <2>5
    <3>2. i < size => new[i] = Zero
      <4> SUFFICES ASSUME i < size PROVE new[i] = Zero
        OBVIOUS
      <4>1. k = g.hdr[a].size
        BY <1>3, <1>4, <2>2, <2>5
      <4>2. ~(i < n)
        BY <1>3, <1>13, <2>2, <2>5, <4>1
      <4> QED
        BY <1>14, <2>2, <4>2
    <3> QED
      BY <2>1, <3>1, <3>2
  <2> QED
    BY <2>4, <2>5
<1>16. Holds(full, at, new)
  <2>1. size <= full.hdr[at].size
    BY <1>11
  <2> QED
    BY <1>14, <1>15, <2>1 DEF Holds
<1> QED
  BY <1>11, <1>12, <1>16

-----------------------------------------------------------------------------
(* The first call initialises the heap; another finds it as it was.        *)
LEMMA FirstHeap ==
  ASSUME NEW tight, NEW h, h = init_malloc(NoHeap)
  PROVE  Good(h, tight) /\ Used(h) = {} /\ init_malloc(h) = h
<1>1. PICK u, s : /\ u = [[[NoHeap EXCEPT !.isInit = TRUE] EXCEPT !.brk = H] EXCEPT !.tail = head]
                  /\ s = slot(Nil, Nil, FALSE, 0)
  OBVIOUS
<1>2. h = SetSlot(u, head, s)
  <2>1. NoHeap.brk = 0 /\ NoHeap.isInit = FALSE
    BY DEF NoHeap
  <2>2. NoHeap.brk + H = H
    BY <2>1, Numbers
  <2>3. u = [NoHeap EXCEPT !.isInit = TRUE, !.brk = NoHeap.brk + H, !.tail = head]
    BY <1>1, <2>2 DEF NoHeap
  <2> QED
    BY <1>1, <2>1, <2>3 DEF init_malloc
<1>3. head \in Addr /\ head = 0 /\ s \in SlotRec /\ s.prev = Nil /\ s.next = Nil /\ s.size = 0 /\ ~s.isFree
  BY <1>1, Numbers DEF head, slot, SlotRec
<1>4. /\ u \in Heaps /\ u.isInit /\ u.brk = H /\ u.tail = head
      /\ \A a \in Addr : u.hdr[a] = NoSlot
  <2>1. [a \in Addr |-> NoSlot] \in [Addr -> SlotRec]
    BY NoSlotIs
  <2>2. [a \in Addr |-> Unset] \in [Addr -> Cells]
    BY Numbers
  <2>3. H \in 0 .. MaxBrk
    BY Numbers
  <2> QED
    BY <1>1, <1>3, <2>1, <2>2, <2>3 DEF Heaps, NoHeap
<1>5. /\ h \in Heaps /\ h.isInit = u.isInit /\ h.brk = u.brk /\ h.tail = u.tail
      /\ h.hdr = [u.hdr EXCEPT ![head] = s]
      /\ \A c \in Addr : h.mem[c] = IF InHead(head, c) THEN Head ELSE u.mem[c]
  <2>1. u \in Heaps /\ head \in Addr /\ s \in SlotRec
    BY <1>3, <1>4
  <2> QED
    BY <1>2, <2>1, WriteHead
<1>6. /\ h.isInit /\ h.brk = H /\ h.tail = head /\ h.hdr[head] = s
      /\ \A a \in Addr : a # head => h.hdr[a] = NoSlot
  <2>1. u.hdr \in [Addr -> SlotRec]
    BY <1>4, HeapType
  <2> QED
    BY <1>3, <1>4, <1>5, <2>1
<1>7. SlotsOf(h) = {head}
  <2>1. head \in SlotsOf(h)
    <3>1. head \in Addr /\ h \in Heaps /\ h.hdr[head].size >= 0
      BY <1>3, <1>5, <1>6
    <3> QED
      BY <3>1, SlotIs
  <2> QED
    BY <1>6, <2>1 DEF SlotsOf
<1>8. End(h, head) = H
  BY <1>3, <1>6, Numbers DEF End
<1>9. Listed(h, tight)
  <2>1. h \in Heaps /\ h.isInit /\ head \in SlotsOf(h) /\ h.tail \in SlotsOf(h)
    BY <1>5, <1>6, <1>7
  <2>2. h.hdr[head].prev = Nil /\ h.hdr[head].next = Nil /\ h.hdr[head].size = 0
    BY <1>3, <1>6
  <2>3. ~h.hdr[head].isFree
    BY <1>3, <1>6
  <2>4. End(h, head) <= h.brk /\ End(h, head) = h.brk
    BY <1>6, <1>8, Numbers
  <2>5. \A a \in SlotsOf(h) : a = head /\ h.hdr[a].size >= 0 /\ \A c \in SlotsOf(h) : c <= a
    BY <1>3, <1>7, <2>2
  <2> QED
    BY <1>6, <2>1, <2>2, <2>3, <2>4, <2>5 DEF Listed
<1>10. Stamped(h)
  <2>1. ~h.hdr[head].isFree /\ \A a \in SlotsOf(h) : a = head
    BY <1>3, <1>6, <1>7
  <2>2. \A c \in Addr : head <= c /\ c < head + H => h.mem[c] = Head
    BY <1>5 DEF InHead
  <2> QED
    BY <2>1, <2>2 DEF Stamped
<1>11. Used(h) = {} /\ \A a \in Addr : ~Pair(h, a)
  BY <1>3, <1>6, <1>7 DEF Used, Pair
<1>12. init_malloc(h) = h
  BY <1>6 DEF init_malloc
<1> QED
  BY <1>9, <1>10, <1>11, <1>12 DEF Good

(* init_malloc in any state of the program gives a good heap.              *)
LEMMA Ready ==
  ASSUME AllocInv, NEW h, h = init_malloc(heap), NEW tight, tight = (theirs = {})
  PROVE  /\ Good(h, tight) /\ Held = {a + H : a \in Used(h)}
         /\ \A a \in Used(h) : Holds(h, a, live[a + H])
         /\ \A size : mm_malloc(heap, size) = mm_malloc(h, size)
         /\ h.isInit /\ (heap.isInit => h = heap)
<1>1. CASE heap.isInit
  <2>1. h = heap
    BY <1>1 DEF init_malloc
  <2> QED
    BY <1>1, <2>1 DEF AllocInv
<1>2. CASE ~heap.isInit
  <2>1. heap = NoHeap /\ Held = {}
    BY <1>2 DEF AllocInv
  <2>2. Good(h, tight) /\ Used(h) = {} /\ init_malloc(h) = h
    BY <2>1, FirstHeap
  <2>3. \A size : mm_malloc(heap, size) = mm_malloc(h, size)
    BY <2>2 DEF mm_malloc
  <2>4. h.isInit
    BY <2>2 DEF Good, Listed
  <2> QED
    BY <1>2, <2>1, <2>2, <2>3, <2>4
<1> QED
  BY <1>1, <1>2

(* A pointer to a block and the address of its header.                     *)
LEMMA Shifted ==
  /\ \A a \in Addr : a + H \in Int /\ a + H # Nil /\ (a + H) - H = a
  /\ \A a, b \in Addr : a + H = b + H => a = b
  /\ \A h : Used(h) \subseteq Addr
<1>1. H \in Nat /\ H >= 1 /\ \A a \in Addr : a \in Nat
  BY Numbers
<1>2. \A h : Used(h) \subseteq Addr
  BY DEF Used, SlotsOf
<1> QED
  BY <1>1, <1>2 DEF Nil

(* Before the first call.                                                  *)
LEMMA InitAlloc == Init => AllocInv
  BY DEF Init, AllocInv, NoHeap, Held

(* What is held is the blocks of slots that are in use.                    *)
LEMMA HeldSlot ==
  ASSUME AllocInv, NEW p \in Held
  PROVE  /\ heap.isInit /\ Good(heap, theirs = {})
         /\ \E a \in Used(heap) : a \in Addr /\ p = a + H /\ Holds(heap, a, live[p])
<1>1. heap.isInit
  BY DEF AllocInv
<1>2. Good(heap, theirs = {}) /\ Held = {a + H : a \in Used(heap)}
      /\ \A a \in Used(heap) : Holds(heap, a, live[a + H])
  BY <1>1 DEF AllocInv
<1>3. PICK a \in Used(heap) : p = a + H
  BY <1>2
<1> QED
  BY <1>1, <1>2, <1>3, Shifted

(* The program holds the blocks of the slots in use, with their content.   *)
Holding(h, tight, had) ==
  /\ Good(h, tight)
  /\ DOMAIN had = {a + H : a \in Used(h)}
  /\ \A a \in Used(h) : Holds(h, a, had[a + H])

(* What it holds without the block at p, and with this one at p.           *)
Gone(had, p)         == [q \in DOMAIN had \ {p} |-> had[q]]
Given(had, p, block) == [q \in DOMAIN had \cup {p} |-> IF q = p THEN block ELSE had[q]]

(* A block is given back, and the others stay.                             *)
LEMMA GivenBack ==
  ASSUME NEW h, NEW g, NEW tight, NEW at \in Used(h), NEW had, Holding(h, tight, had),
         Good(g, tight), Used(g) = Used(h) \ {at}, Keeps(h, g, at)
  PROVE  Holding(g, tight, Gone(had, at + H))
<1>1. PICK has : has = Gone(had, at + H)
  OBVIOUS
<1>2. DOMAIN had = {a + H : a \in Used(h)} /\ \A a \in Used(h) : Holds(h, a, had[a + H])
  BY DEF Holding
<1>3. DOMAIN has = {a + H : a \in Used(g)}
  BY <1>1, <1>2, Shifted DEF Gone
<1>4. ASSUME NEW a \in Used(g) PROVE Holds(g, a, has[a + H])
  <2>1. a \in Used(h) /\ a # at /\ has[a + H] = had[a + H]
    BY <1>1, <1>2, <1>4, Shifted DEF Gone
  <2> QED
    BY <1>2, <2>1, HoldsKept
<1> QED
  BY <1>1, <1>3, <1>4 DEF Holding

(* A block is taken, with this content, and the others stay.               *)
LEMMA TakenNew ==
  ASSUME NEW h, NEW g, NEW tight, NEW at \in Addr, NEW had, Holding(h, tight, had), NEW block,
         Good(g, tight), at \notin Used(h), Used(g) = Used(h) \cup {at}, Keeps(h, g, at),
         Holds(g, at, block)
  PROVE  Holding(g, tight, Given(had, at + H, block))
<1>1. PICK has : has = Given(had, at + H, block)
  OBVIOUS
<1>2. DOMAIN had = {a + H : a \in Used(h)} /\ \A a \in Used(h) : Holds(h, a, had[a + H])
  BY DEF Holding
<1>3. DOMAIN has = {a + H : a \in Used(g)}
  BY <1>1, <1>2 DEF Given
<1>4. ASSUME NEW a \in Used(g) PROVE Holds(g, a, has[a + H])
  <2>1. CASE a = at
    BY <1>1, <2>1 DEF Given
  <2>2. CASE a # at
    <3>1. a \in Used(h) /\ a + H # at + H
      BY <1>4, <2>2, Shifted
    <3>2. has[a + H] = had[a + H]
      BY <1>1, <1>2, <3>1 DEF Given
    <3> QED
      BY <1>2, <2>2, <3>1, <3>2, HoldsKept
  <2> QED
    BY <2>1, <2>2
<1> QED
  BY <1>1, <1>3, <1>4 DEF Holding

(* mm_malloc that gives a block.                                           *)
LEMMA GotIs ==
  ASSUME NEW h, NEW tight, NEW had, Holding(h, tight, had),
         NEW g, NEW at, NEW size \in Nat \ {0}, Taken(h, g, tight, at, size)
  PROVE  Holding(g, tight, Given(had, at + H, [i \in 0 .. size - 1 |-> Zero]))
<1>1. /\ Good(g, tight) /\ at \in Addr /\ at \notin Used(h) /\ Used(g) = Used(h) \cup {at}
      /\ g.hdr[at].size >= size /\ Blank(g, at) /\ Keeps(h, g, Nil)
  BY DEF Taken
<1>2. PICK block : block = [i \in 0 .. size - 1 |-> Zero]
  OBVIOUS
<1>3. Holds(g, at, block)
  <2>1. at \in Int /\ g.hdr[at].size \in Int
    BY <1>1, HeapType, Numbers DEF Good, Listed
  <2> QED
    BY <1>1, <1>2, <2>1, HoldsZero
<1>4. Keeps(h, g, at)
  BY <1>1, KeepsAll
<1>5. Holding(g, tight, Given(had, at + H, block))
  BY <1>1, <1>3, <1>4, TakenNew
<1> QED
  BY <1>2, <1>5

(* mm_realloc that moves a block: malloc, memcpy and free.                 *)
LEMMA MovedIs ==
  ASSUME NEW h, NEW tight, NEW had, Holding(h, tight, had), NEW a \in Used(h),
         NEW g, NEW at, NEW size \in Nat \ {0}, Taken(h, g, tight, at, size),
         NEW k, k = (IF size >= h.hdr[a].size THEN h.hdr[a].size ELSE size),
         NEW m, m = Copy(g.mem, at + H, a + H, k), NEW full, full = [g EXCEPT !.mem = m],
         NEW freed, freed = mm_free(full, a + H),
         NEW block, block = [i \in 0 .. size - 1 |-> IF i \in DOMAIN had[a + H] THEN had[a + H][i]
                                                     ELSE Zero]
  PROVE  Holding(freed, tight, Given(Gone(had, a + H), at + H, block))
<1>1. /\ Good(g, tight) /\ at \in Addr /\ at \notin Used(h) /\ Used(g) = Used(h) \cup {at}
      /\ g.hdr[at].size >= size /\ Blank(g, at) /\ Keeps(h, g, Nil)
  BY DEF Taken
<1>2. a \in Addr /\ a # Nil /\ a # at /\ a \in Used(g) /\ at \in Used(g)
  BY <1>1, Shifted, Numbers
<1>3. g.hdr[a].size = h.hdr[a].size
  BY <1>1, <1>2 DEF Keeps
<1>4. PICK old : old = had[a + H]
  OBVIOUS
<1>5. Holds(g, a, old)
  <2>1. Holds(h, a, old) /\ a \in Used(h) \ {Nil}
    BY <1>2, <1>4 DEF Holding
  <2> QED
    BY <1>1, <2>1, HoldsKept
<1>6. k = (IF size >= g.hdr[a].size THEN g.hdr[a].size ELSE size)
  BY <1>3
<1>7. block = [i \in 0 .. size - 1 |-> IF i \in DOMAIN old THEN old[i] ELSE Zero]
  BY <1>4
<1>8. /\ Good(full, tight) /\ Used(full) = Used(g) /\ Keeps(g, full, at) /\ Holds(full, at, block)
  <2>1. m = Copy(g.mem, at + H, a + H, k) /\ full = [g EXCEPT !.mem = m]
    OBVIOUS
  <2> QED
    BY ONLY <1>1, <1>2, <1>5, <1>6, <1>7, <2>1, size \in Nat \ {0}, CopyIs
<1>9. Holding(full, tight, Given(had, at + H, block))
  <2>1. Keeps(h, g, at)
    BY <1>1, KeepsAll
  <2>2. Keeps(h, full, at)
    BY <1>8, <2>1, KeepsMore
  <2>3. Used(full) = Used(h) \cup {at}
    BY <1>1, <1>8
  <2> QED
    BY <1>1, <1>8, <2>2, <2>3, TakenNew
<1>10. Good(freed, tight) /\ Used(freed) = Used(full) \ {a} /\ Keeps(full, freed, a)
  BY <1>2, <1>8, FreedIs
<1>11. Holding(freed, tight, Gone(Given(had, at + H, block), a + H))
  BY <1>2, <1>8, <1>9, <1>10, GivenBack
<1>12. Gone(Given(had, at + H, block), a + H) = Given(Gone(had, a + H), at + H, block)
  <2>1. a + H # at + H
    BY <1>1, <1>2, Shifted
  <2> QED
    BY <2>1 DEF Gone, Given
<1> QED
  BY <1>11, <1>12

-----------------------------------------------------------------------------
(* The steps.                                                              *)
LEMMA HoldingNow ==
  ASSUME AllocInv, heap.isInit, NEW h, h = heap, NEW tight, tight = (theirs = {}), NEW had, had = live
  PROVE  Holding(h, tight, had)
  BY DEF AllocInv, Holding, Held

(* The same, after a step.                                                 *)
LEMMA HoldingNext ==
  ASSUME NEW g, g = heap', NEW tight, tight = (theirs = {})', NEW has, has = live',
         Holding(g, tight, has)
  PROVE  AllocInv'
<1>1. g.isInit
  BY DEF Holding, Good, Listed
<1> QED
  BY <1>1 DEF AllocInv, Holding, Held

(* mm_malloc.                                                              *)
LEMMA MallocStep ==
  ASSUME AllocInv, NEW size \in Sizes, Malloc(size)
  PROVE  AllocInv'
<1>1. PICK h, g, tight, r, had, has : /\ h = init_malloc(heap) /\ g = heap' /\ tight = (theirs = {})
                                      /\ r = mm_malloc(heap, size) /\ had = live /\ has = live'
  OBVIOUS
<1>2. Holding(h, tight, had) /\ Good(h, tight) /\ r = mm_malloc(h, size)
  BY <1>1, Ready DEF Held, Holding
<1>3. size \in Nat
  BY AllocAssumption
<1>4. /\ g = r.heap /\ theirs' = theirs
      /\ has = IF r.ptr = Nil THEN had
               ELSE Given(had, r.ptr, [i \in 0 .. size - 1 |-> Zero])
  BY <1>1 DEF Malloc, With, Given
<1>5. tight = (theirs = {})'
  BY <1>1, <1>4
<1>6. Holding(g, tight, has)
  <2>1. CASE r = result(h, Nil)
    BY <1>2, <1>4, <2>1 DEF result
  <2>2. ASSUME size # 0, NEW at \in Addr, r = result(r.heap, at + H),
               Taken(h, r.heap, tight, at, size)
        PROVE  Holding(g, tight, has)
    <3>1. r.ptr = at + H /\ at + H # Nil
      BY <2>2, Shifted DEF result
    <3>2. has = Given(had, at + H, [i \in 0 .. size - 1 |-> Zero])
      BY <1>4, <3>1
    <3>3. Taken(h, g, tight, at, size)
      BY <1>4, <2>2
    <3> QED
      BY <1>2, <1>3, <2>2, <3>2, <3>3, GotIs
  <2> QED
    BY <1>2, <1>3, <2>1, <2>2, MallocIs
<1> QED
  BY <1>1, <1>5, <1>6, HoldingNext

(* mm_free.                                                                *)
LEMMA FreeStep ==
  ASSUME AllocInv, NEW p \in Held, Free(p)
  PROVE  AllocInv'
<1>1. PICK h, g, tight, had, has : /\ h = heap /\ g = heap' /\ tight = (theirs = {})
                                   /\ had = live /\ has = live'
  OBVIOUS
<1>2. PICK at \in Used(h) : p = at + H
  BY <1>1, HeldSlot
<1>3. Holding(h, tight, had) /\ Good(h, tight)
  BY <1>1, HeldSlot, HoldingNow DEF Holding
<1>4. g = mm_free(h, at + H) /\ has = Gone(had, at + H) /\ tight = (theirs = {})'
  BY <1>1, <1>2 DEF Free, Without, Held, Gone
<1>5. Good(g, tight) /\ Used(g) = Used(h) \ {at} /\ Keeps(h, g, at)
  BY <1>3, <1>4, FreedIs
<1>6. Holding(g, tight, has)
  BY <1>3, <1>4, <1>5, GivenBack
<1> QED
  BY <1>1, <1>4, <1>6, HoldingNext

(* The program writes to a block.                                          *)
LEMMA WriteStep ==
  ASSUME AllocInv, NEW p \in Held, Write(p)
  PROVE  AllocInv'
<1>1. PICK h, g, tight, has : h = heap /\ g = heap' /\ tight = (theirs = {}) /\ has = live'
  OBVIOUS
<1>2. PICK at \in Used(h) : p = at + H /\ at \in Addr /\ Holds(h, at, live[p])
  BY <1>1, HeldSlot
<1>3. /\ Good(h, tight) /\ DOMAIN live = {a + H : a \in Used(h)}
      /\ \A a \in Used(h) : Holds(h, a, live[a + H])
  BY <1>1, HeldSlot DEF AllocInv, Held
<1>4. PICK n \in Nat \ {0} : /\ n <= h.hdr[at].size
                             /\ live[p] \in [0 .. n - 1 -> Cells]
                             /\ \A c \in Addr : at + H <= c /\ c < End(h, at) =>
                                  h.mem[c] = IF c - (at + H) < n THEN live[p][c - (at + H)] ELSE Zero
  BY <1>2 DEF Holds
<1>5. Cardinality(DOMAIN live[p]) = n
  <2>1. DOMAIN live[p] = 0 .. n - 1
    BY <1>4
  <2>2. 0 \in Int /\ n - 1 \in Int
    OBVIOUS
  <2>3. Cardinality(0 .. n - 1) = IF 0 > n - 1 THEN 0 ELSE (n - 1) - 0 + 1
    BY <2>2, FS_Interval
  <2> QED
    BY <2>1, <2>3
<1>6. PICK m, block : m = Fill(h.mem, p, n, p) /\ block = [i \in 0 .. n - 1 |-> p]
  OBVIOUS
<1>7. /\ g = [h EXCEPT !.mem = m] /\ theirs' = theirs
      /\ has = [live EXCEPT ![p] = block]
  <2>1. DOMAIN live[p] = 0 .. n - 1
    BY <1>4
  <2> QED
    BY <1>1, <1>5, <1>6, <2>1 DEF Write
<1>8. /\ at \in Nat /\ p \in Int /\ H \in Nat /\ h.mem \in [Addr -> Cells] /\ h.hdr[at].size \in Nat
      /\ End(h, at) = at + H + h.hdr[at].size /\ p \in Addr
  <2>1. Listed(h, tight) /\ h \in Heaps /\ at \in SlotsOf(h)
    BY <1>3 DEF Good, Listed, Used
  <2>2. h.mem \in [Addr -> Cells]
    BY <2>1, HeapType
  <2>3. /\ at \in Nat /\ h.hdr[at].size \in Nat /\ End(h, at) = at + H + h.hdr[at].size
        /\ End(h, at) <= MaxBrk
    BY <2>1, Room
  <2>4. 0 <= p /\ p < MaxBrk /\ p \in Int
    <3>1. p = at + H /\ n \in Nat \ {0} /\ n <= h.hdr[at].size
      BY <1>2, <1>4
    <3>2. H \in Nat /\ MaxBrk \in Nat
      BY Numbers
    <3> QED
      BY ONLY <2>3, <3>1, <3>2
  <2> QED
    BY <2>2, <2>3, <2>4, Numbers
<1>9. /\ m \in [Addr -> Cells]
      /\ \A c \in Addr : m[c] = IF c >= p /\ c < p + n THEN p ELSE h.mem[c]
  <2>1. n \in Int /\ p \in Cells
    BY <1>8, Numbers
  <2> QED
    BY ONLY <1>6, <1>8, <2>1, FillType
<1>10. \A c \in Addr : ~InData(h, at, c) => m[c] = h.mem[c]
  <2> SUFFICES ASSUME NEW c \in Addr, c >= p, c < p + n PROVE InData(h, at, c)
    BY <1>9
  <2>1. c \in Int
    BY Numbers
  <2> QED
    BY <1>2, <1>4, <1>8, <2>1 DEF InData
<1>11. Good(g, tight) /\ Used(g) = Used(h) /\ g.hdr = h.hdr /\ g.mem = m /\ Keeps(h, g, at)
  BY <1>3, <1>7, <1>9, <1>10, WriteIs
<1>12. Holds(g, at, block)
  <2>1. block \in [0 .. n - 1 -> Cells] /\ n <= g.hdr[at].size
    <3>1. p \in Cells
      BY <1>8, Numbers
    <3> QED
      BY <1>4, <1>6, <1>11, <3>1
  <2>2. ASSUME NEW c \in Addr, at + H <= c, c < End(g, at)
        PROVE  g.mem[c] = IF c - (at + H) < n THEN block[c - (at + H)] ELSE Zero
    <3>1. c < End(h, at) /\ c \in Int
      BY <1>11, <2>2, Numbers DEF End
    <3>2. CASE c - (at + H) < n
      <4>1. c - (at + H) \in 0 .. n - 1 /\ c >= p /\ c < p + n
        BY <1>2, <1>8, <2>2, <3>1, <3>2
      <4> QED
        BY <1>6, <1>9, <1>11, <3>2, <4>1
    <3>3. CASE ~(c - (at + H) < n)
      <4>1. ~(c < p + n)
        BY <1>2, <1>8, <3>1, <3>3
      <4>2. h.mem[c] = Zero
        BY <1>4, <2>2, <3>1, <3>3
      <4> QED
        BY <1>9, <1>11, <3>3, <4>1, <4>2
    <3> QED
      BY <3>2, <3>3
  <2> QED
    BY <2>1, <2>2 DEF Holds
<1>13. DOMAIN has = {a + H : a \in Used(g)}
  BY <1>3, <1>7, <1>11
<1>14. ASSUME NEW a \in Used(g) PROVE Holds(g, a, has[a + H])
  <2>1. CASE a = at
    <3>1. has[a + H] = block
      BY <1>2, <1>3, <1>7, <2>1
    <3> QED
      BY <1>12, <2>1, <3>1
  <2>2. CASE a # at
    <3>1. a \in Used(h) /\ a + H # p /\ a + H \in DOMAIN live
      BY <1>2, <1>3, <1>11, <1>14, <2>2, Shifted
    <3>2. has[a + H] = live[a + H]
      BY <1>7, <3>1
    <3> QED
      BY <1>3, <1>11, <2>2, <3>1, <3>2, HoldsKept
  <2> QED
    BY <2>1, <2>2
<1>15. Holding(g, tight, has)
  BY <1>11, <1>13, <1>14 DEF Holding
<1>16. tight = (theirs = {})'
  BY <1>1, <1>7
<1> QED
  BY <1>1, <1>15, <1>16, HoldingNext


(* mm_realloc.                                                             *)
LEMMA ReallocStep ==
  ASSUME AllocInv, NEW p \in Held \cup {Nil}, NEW size \in Sizes, Realloc(p, size)
  PROVE  AllocInv'
<1>1. PICK h, g, tight, r, q, had, has :
        /\ h = init_malloc(heap) /\ g = heap' /\ tight = (theirs = {}) /\ had = live /\ has = live'
        /\ r = mm_malloc(heap, size) /\ q = mm_realloc(heap, p, size)
  OBVIOUS
<1>2. Holding(h, tight, had) /\ Good(h, tight) /\ r = mm_malloc(h, size)
  BY <1>1, Ready DEF Held, Holding
<1>3. size \in Nat
  BY AllocAssumption
<1>4. PICK block : block = [i \in 0 .. size - 1 |->
                              IF p # Nil /\ i \in DOMAIN had[p] THEN had[p][i] ELSE Zero]
  OBVIOUS
<1>5. /\ g = q.heap /\ theirs' = theirs
      /\ has = IF size = 0 THEN Gone(had, p)
               ELSE IF q.ptr = Nil THEN had ELSE Given(Gone(had, p), q.ptr, block)
  BY <1>1, <1>4 DEF Realloc, With, Without, Held, Given, Gone
<1>6. tight = (theirs = {})'
  BY <1>1, <1>5
<1>7. ASSUME p # Nil
      PROVE  h = heap /\ \E a \in Used(h) : a \in Addr /\ p = a + H
  <2>1. p \in Held
    BY <1>7
  <2> QED
    BY <1>1, <2>1, HeldSlot DEF init_malloc
<1>8. Holding(h, tight, Gone(had, Nil))
  <2>1. DOMAIN had = {a + H : a \in Used(h)} /\ \A a \in Used(h) : Holds(h, a, had[a + H])
    BY <1>2 DEF Holding
  <2>2. Nil \notin DOMAIN had
    BY <2>1, Shifted
  <2>3. DOMAIN Gone(had, Nil) = DOMAIN had /\ \A b \in DOMAIN had : Gone(had, Nil)[b] = had[b]
    BY <2>2 DEF Gone
  <2> QED
    BY <1>2, <2>1, <2>3 DEF Holding
<1>9. CASE size = 0 /\ p = Nil
  <2>1. g = heap /\ has = Gone(had, Nil)
    BY <1>1, <1>5, <1>9 DEF mm_realloc, mm_free, result
  <2>2. CASE heap.isInit
    <3>1. h = heap
      BY <1>1, <2>2 DEF init_malloc
    <3> QED
      BY <1>1, <1>6, <1>8, <2>1, <3>1, HoldingNext
  <2>3. CASE ~heap.isInit
    <3>1. heap = NoHeap /\ Held = {} /\ theirs = {}
      BY <2>3 DEF AllocInv
    <3>2. heap' = heap /\ theirs' = theirs /\ Held' = {}
      BY <1>1, <1>5, <2>1, <3>1 DEF Held, Gone
    <3>3. ~heap'.isInit
      BY <2>3, <3>2
    <3> QED
      BY <3>1, <3>2, <3>3 DEF AllocInv
  <2> QED
    BY <2>2, <2>3
<1>10. CASE size = 0 /\ p # Nil
  <2>1. PICK a \in Used(h) : p = a + H
    BY <1>7, <1>10
  <2>2. g = mm_free(h, a + H) /\ has = Gone(had, a + H)
    BY <1>1, <1>5, <1>7, <1>10, <2>1 DEF mm_realloc, result
  <2>3. Good(g, tight) /\ Used(g) = Used(h) \ {a} /\ Keeps(h, g, a)
    BY <1>2, <2>2, FreedIs
  <2>4. Holding(g, tight, has)
    BY <1>2, <2>2, <2>3, GivenBack
  <2> QED
    BY <1>1, <1>6, <2>4, HoldingNext
<1>11. CASE size > 0 /\ (p = Nil \/ r.ptr = Nil)
  <2>1. q = r /\ size # 0
    BY <1>1, <1>3, <1>11 DEF mm_realloc
  <2>2. CASE r = result(h, Nil)
    <3>1. g = h /\ has = had
      BY <1>5, <2>1, <2>2 DEF result
    <3> QED
      BY <1>1, <1>2, <1>6, <3>1, HoldingNext
  <2>3. ASSUME NEW at \in Addr, r = result(r.heap, at + H), Taken(h, r.heap, tight, at, size)
        PROVE  AllocInv'
    <3>1. r.ptr = at + H /\ at + H # Nil
      BY <2>3, Shifted DEF result
    <3>2. p = Nil
      BY <1>11, <3>1
    <3>3. block = [i \in 0 .. size - 1 |-> Zero]
      BY <1>4, <3>2
    <3>4. has = Given(Gone(had, Nil), at + H, [i \in 0 .. size - 1 |-> Zero])
      BY <1>5, <2>1, <3>1, <3>2, <3>3
    <3>5. Taken(h, g, tight, at, size)
      BY <1>5, <2>1, <2>3
    <3>6. Holding(g, tight, has)
      BY <1>3, <1>8, <2>1, <3>4, <3>5, GotIs
    <3> QED
      BY <1>1, <1>6, <3>6, HoldingNext
  <2> QED
    BY <1>2, <1>3, <2>2, <2>3, MallocIs
<1>12. CASE size > 0 /\ p # Nil /\ r.ptr # Nil
  <2>1. h = heap
    BY <1>7, <1>12
  <2>2. PICK a \in Used(h) : a \in Addr /\ p = a + H
    BY <1>7, <1>12
  <2>3. PICK at \in Addr : r = result(r.heap, at + H) /\ Taken(h, r.heap, tight, at, size)
    <3>1. r # result(h, Nil)
      BY <1>12 DEF result
    <3> QED
      BY <1>2, <1>3, <3>1, MallocIs
  <2>4. r.ptr = at + H /\ at + H # Nil /\ (a + H) - H = a /\ a + H # Nil
    BY <2>2, <2>3, Shifted DEF result
  <2>5. PICK k : k = (IF size >= h.hdr[a].size THEN h.hdr[a].size ELSE size)
    OBVIOUS
  <2>6. PICK m, full : m = Copy(r.heap.mem, at + H, a + H, k) /\ full = [r.heap EXCEPT !.mem = m]
    OBVIOUS
  <2>7. q = result(mm_free(full, a + H), at + H) /\ size # 0
    BY <1>1, <1>3, <1>12, <2>1, <2>2, <2>4, <2>5, <2>6 DEF mm_realloc
  <2>8. g = mm_free(full, a + H) /\ has = Given(Gone(had, a + H), at + H, block)
    BY <1>5, <2>2, <2>4, <2>7 DEF result
  <2>9. block = [i \in 0 .. size - 1 |-> IF i \in DOMAIN had[a + H] THEN had[a + H][i] ELSE Zero]
    BY <1>4, <1>12, <2>2
  <2>10. PICK taken : taken = r.heap /\ Taken(h, taken, tight, at, size)
    BY <2>3
  <2>11. m = Copy(taken.mem, at + H, a + H, k) /\ full = [taken EXCEPT !.mem = m]
    BY <2>6, <2>10
  <2>12. Holding(g, tight, Given(Gone(had, a + H), at + H, block))
    BY ONLY <1>2, <1>3, <2>2, <2>5, <2>7, <2>8, <2>9, <2>10, <2>11, MovedIs
  <2> QED
    BY <1>1, <1>6, <2>8, <2>12, HoldingNext
<1> QED
  BY <1>3, <1>9, <1>10, <1>11, <1>12

(* Someone else moves the break.                                           *)
LEMMA AlienIs ==
  ASSUME NEW h, NEW tight, NEW had, Holding(h, tight, had), NEW n \in Nat, h.brk + n <= MaxBrk,
         NEW b, b = h.brk + n, NEW m, m = Fill(h.mem, h.brk, n, Alien),
         NEW f, f = [h EXCEPT !.brk = b], NEW g, g = [f EXCEPT !.mem = m]
  PROVE  Holding(g, FALSE, had)
<1>1. Listed(h, tight) /\ Stamped(h) /\ h \in Heaps /\ (\A a \in Addr : ~Pair(h, a)) /\ Good(h, tight)
  BY DEF Holding, Good, Listed
<1>2. h.brk \in Nat /\ h.brk <= MaxBrk /\ MaxBrk \in Nat /\ b \in 0 .. MaxBrk /\ b \in Int
      /\ h.brk <= b /\ Alien \in Cells
  <2>1. h.brk \in 0 .. MaxBrk
    BY <1>1, HeapType
  <2> QED
    BY <2>1, Numbers
<1>3. /\ m \in [Addr -> Cells]
      /\ \A c \in Addr : c < h.brk => m[c] = h.mem[c]
  <2>1. h.mem \in [Addr -> Cells] /\ n \in Int /\ h.brk \in Int /\ Alien \in Cells
    BY <1>1, <1>2, HeapType
  <2>2. /\ m \in [Addr -> Cells]
        /\ \A c \in Addr : m[c] = IF c >= h.brk /\ c < h.brk + n THEN Alien ELSE h.mem[c]
    <3>1. m = Fill(h.mem, h.brk, n, Alien)
      OBVIOUS
    <3> QED
      BY ONLY <2>1, <3>1, FillType
  <2>3. \A c \in Addr : c < h.brk => ~(c >= h.brk)
    BY <1>2, Numbers
  <2> QED
    BY <2>2, <2>3
<1>4. /\ g \in Heaps /\ g.isInit = h.isInit /\ g.brk = b /\ g.tail = h.tail /\ g.hdr = h.hdr /\ g.mem = m
  <2>1. /\ f \in Heaps /\ f.isInit = h.isInit /\ f.brk = b /\ f.tail = h.tail /\ f.hdr = h.hdr
    BY <1>1, <1>2 DEF Heaps
  <2> QED
    BY <1>3, <2>1 DEF Heaps
<1>5. SlotsOf(g) = SlotsOf(h) /\ Used(g) = Used(h) /\ \A a : End(g, a) = End(h, a)
  BY <1>4 DEF SlotsOf, Used, End
<1>6. \A a \in SlotsOf(h), c \in Addr : c < End(h, a) => g.mem[c] = h.mem[c]
  <2> SUFFICES ASSUME NEW a \in SlotsOf(h), NEW c \in Addr, c < End(h, a) PROVE c < h.brk
    BY <1>3, <1>4
  <2>1. End(h, a) \in Int /\ End(h, a) <= h.brk /\ c \in Int
    BY <1>1, Room, Numbers
  <2> QED
    BY <1>2, <2>1
<1>7. Listed(g, FALSE)
  <2>1. h.tail \in SlotsOf(h) /\ End(h, h.tail) <= h.brk /\ End(h, h.tail) \in Int
    BY <1>1, Room DEF Listed
  <2>2. End(g, g.tail) <= g.brk
    BY <1>2, <1>4, <1>5, <2>1
  <2>3. \A x, y : Linked(h, x, y, tight) => Linked(g, x, y, FALSE)
    BY <1>4, <1>5 DEF Linked
  <2> QED
    BY <1>1, <1>4, <1>5, <2>1, <2>2, <2>3 DEF Listed
<1>8. Stamped(g)
  <2> SUFFICES ASSUME NEW a \in SlotsOf(h), NEW c \in Addr
               PROVE  /\ a <= c /\ c < a + H => g.mem[c] = Head
                      /\ h.hdr[a].isFree /\ a + H <= c /\ c < End(h, a) => g.mem[c] = Zero
    BY <1>4, <1>5 DEF Stamped
  <2>1. End(h, a) \in Int /\ a + H <= End(h, a) /\ a \in Int /\ c \in Int /\ H \in Int
    BY <1>1, Room, Numbers
  <2>2. c < a + H => c < End(h, a)
    BY <2>1
  <2> QED
    BY <1>1, <1>6, <2>2 DEF Stamped
<1>9. \A a \in Addr : ~Pair(g, a)
  BY <1>1, <1>4, <1>5 DEF Pair
<1>10. Keeps(h, g, Nil)
  <2>1. \A a \in Used(h) : a \in SlotsOf(h)
    BY DEF Used
  <2> QED
    BY <1>4, <1>5, <1>6, <2>1 DEF Keeps
<1>11. DOMAIN had = {a + H : a \in Used(h)} /\ \A a \in Used(h) : Holds(h, a, had[a + H])
  BY DEF Holding
<1>12. ASSUME NEW a \in Used(g) PROVE Holds(g, a, had[a + H])
  <2>1. a \in Used(h) \ {Nil}
    BY <1>5, <1>12, Shifted, Numbers
  <2> QED
    BY <1>10, <1>11, <2>1, HoldsKept
<1> QED
  BY <1>5, <1>7, <1>8, <1>9, <1>11, <1>12 DEF Holding, Good

(* A foreign sbrk: from now on the list may have gaps.                     *)
LEMMA ForeignStep ==
  ASSUME AllocInv, NEW n \in Foreign, ForeignBrk(n)
  PROVE  AllocInv'
<1>1. PICK h, g, tight, had : h = heap /\ g = heap' /\ tight = (theirs = {}) /\ had = live
  OBVIOUS
<1>2. Holding(h, tight, had)
  BY <1>1, HoldingNow DEF ForeignBrk
<1>3. n \in Nat /\ n >= 1 /\ h.brk + n <= MaxBrk
  BY <1>1, AllocAssumption DEF ForeignBrk
<1>4. PICK b, m : b = h.brk + n /\ m = Fill(h.mem, h.brk, n, Alien)
  OBVIOUS
<1>5. PICK f : f = [h EXCEPT !.brk = b]
  OBVIOUS
<1>6. g = [f EXCEPT !.mem = m] /\ had = live'
  BY <1>1, <1>4, <1>5 DEF ForeignBrk
<1>7. Holding(g, FALSE, had)
  BY <1>2, <1>3, <1>4, <1>5, <1>6, AlienIs
<1>8. (theirs = {})' = FALSE
  <2>1. h.brk \in Int
    BY <1>2, HeapType DEF Holding, Good, Listed
  <2>2. h.brk \in h.brk .. h.brk + n - 1
    BY <1>3, <2>1
  <2> QED
    BY <1>1, <2>2 DEF ForeignBrk
<1> QED
  BY <1>1, <1>6, <1>7, <1>8, HoldingNext

-----------------------------------------------------------------------------
(* The invariant is one, and each of the properties follows from it.       *)
LEMMA NextAlloc == AllocInv /\ [Next]_vars => AllocInv'
<1> SUFFICES ASSUME AllocInv, [Next]_vars PROVE AllocInv'
  OBVIOUS
<1>1. ASSUME NEW size \in Sizes, Malloc(size) PROVE AllocInv'
  BY <1>1, MallocStep
<1>2. ASSUME NEW p \in Held, Free(p) PROVE AllocInv'
  BY <1>2, FreeStep
<1>3. ASSUME NEW p \in Held, Write(p) PROVE AllocInv'
  BY <1>3, WriteStep
<1>4. ASSUME NEW p \in Held \cup {Nil}, NEW size \in Sizes, Realloc(p, size) PROVE AllocInv'
  BY <1>4, ReallocStep
<1>5. ASSUME NEW n \in Foreign, ForeignBrk(n) PROVE AllocInv'
  BY <1>5, ForeignStep
<1>6. CASE UNCHANGED vars
  BY <1>6 DEF vars, AllocInv, Held
<1> QED
  BY <1>1, <1>2, <1>3, <1>4, <1>5, <1>6 DEF Next

(* The invariant says that the blocks are intact,                          *)
LEMMA IntactNow == AllocInv => DataIntact
<1> SUFFICES ASSUME AllocInv, NEW p \in Held, NEW i \in DOMAIN live[p]
             PROVE  heap.mem[p + i] = live[p][i]
  BY DEF DataIntact
<1>1. PICK h, tight, block : h = heap /\ tight = (theirs = {}) /\ block = live[p]
  OBVIOUS
<1>2. PICK a \in Used(h) : Good(h, tight) /\ a \in Addr /\ p = a + H /\ Holds(h, a, block)
  BY <1>1, HeldSlot
<1>3. PICK n \in Nat \ {0} : /\ n <= h.hdr[a].size
                             /\ block \in [0 .. n - 1 -> Cells]
                             /\ \A c \in Addr : a + H <= c /\ c < End(h, a) =>
                                  h.mem[c] = IF c - (a + H) < n THEN block[c - (a + H)] ELSE Zero
  BY <1>2 DEF Holds
<1>4. i \in Int /\ 0 <= i /\ i < n /\ n \in Nat /\ n <= h.hdr[a].size
  BY <1>1, <1>3
<1>5. /\ a \in Nat /\ H \in Nat /\ h.hdr[a].size \in Nat /\ MaxBrk \in Nat
      /\ End(h, a) = a + H + h.hdr[a].size /\ End(h, a) <= MaxBrk
  BY <1>2, Room, Numbers DEF Good, Used
<1>6. PICK c : c = a + H + i
  OBVIOUS
<1>7. c \in Int /\ a + H <= c /\ c < End(h, a) /\ c - (a + H) = i /\ 0 <= c /\ c < MaxBrk
  BY ONLY <1>4, <1>5, <1>6
<1>8. c \in Addr
  BY <1>7, Numbers
<1>9. h.mem[c] = block[i]
  BY <1>3, <1>4, <1>7, <1>8
<1> QED
  BY <1>1, <1>2, <1>6, <1>9

(* the slots being those of the heap,                                      *)
LEMMA SlotsAre == Slots = SlotsOf(heap)
  BY DEF Slots, SlotsOf

(* that the slots tile the memory,                                         *)
LEMMA TiledNow == AllocInv => Tiled
<1> SUFFICES ASSUME AllocInv, heap.isInit, theirs = {} PROVE Tiled
  BY DEF Tiled
<1>1. PICK h : h = heap
  OBVIOUS
<1>2. Listed(h, TRUE) /\ Stamped(h)
  BY <1>1 DEF AllocInv, Good
<1>3. ASSUME NEW a \in SlotsOf(h), NEW i \in 0 .. H - 1 PROVE h.mem[a + i] = Head
  <2>1. PICK c : c = a + i
    OBVIOUS
  <2>2. a \in Nat /\ a + H <= End(h, a) /\ End(h, a) <= MaxBrk /\ End(h, a) \in Int
        /\ H \in Nat /\ MaxBrk \in Nat
    BY <1>2, Room, Numbers
  <2>3. c \in Int /\ a <= c /\ c < a + H /\ 0 <= c /\ c < MaxBrk
    BY <2>1, <2>2
  <2>4. c \in Addr
    BY <2>3, Numbers
  <2> QED
    BY <1>2, <2>1, <2>3, <2>4 DEF Stamped
<1>4. ASSUME NEW a \in SlotsOf(h), h.hdr[a].next = Nil
      PROVE  h.tail = a /\ a + H + h.hdr[a].size = h.brk
  BY <1>2, <1>4 DEF Listed, End
<1>5. ASSUME NEW a \in SlotsOf(h), h.hdr[a].next # Nil
      PROVE  h.hdr[a].next = a + H + h.hdr[a].size /\ h.hdr[h.hdr[a].next].prev = a
  BY <1>2, <1>5 DEF Listed, Linked, End
<1> QED
  BY <1>1, <1>3, <1>4, <1>5, SlotsAre DEF Tiled

(* that nothing is wasted,                                                 *)
LEMMA NothingWastedNow == AllocInv => NothingWasted
<1> SUFFICES ASSUME AllocInv, heap.isInit PROVE NothingWasted
  BY DEF NothingWasted
<1>1. PICK h : h = heap
  OBVIOUS
<1>2. (\A a \in Addr : ~Pair(h, a)) /\ Held = {a + H : a \in Used(h)}
  BY <1>1 DEF AllocInv, Good
<1>3. Used(h) = {b \in Slots \ {head} : ~heap.hdr[b].isFree}
  BY <1>1, SlotsAre DEF Used
<1>4. ASSUME NEW a \in Slots, heap.hdr[a].isFree, heap.hdr[a].next # Nil
      PROVE  ~heap.hdr[heap.hdr[a].next].isFree
  <2>1. a \in SlotsOf(h) /\ a \in Addr
    BY <1>1, SlotsAre DEF SlotsOf
  <2> QED
    BY <1>1, <1>2, <1>4, <2>1 DEF Pair
<1> QED
  BY <1>2, <1>3, <1>4 DEF NothingWasted

(* that what is free is clear,                                             *)
LEMMA FreeIsClearNow == AllocInv => FreeIsClear
<1> SUFFICES ASSUME AllocInv, NEW a \in Slots, heap.hdr[a].isFree, NEW i \in 0 .. heap.hdr[a].size - 1
             PROVE  heap.mem[a + H + i] = Zero
  BY DEF FreeIsClear
<1>1. PICK h : h = heap
  OBVIOUS
<1>2. a \in SlotsOf(h)
  BY <1>1, SlotsAre
<1>3. heap.isInit
  <2>1. heap = NoHeap => SlotsOf(h) = {}
    BY <1>1 DEF NoHeap, SlotsOf
  <2> QED
    BY <1>2, <2>1 DEF AllocInv
<1>4. PICK tight : Listed(h, tight) /\ Stamped(h)
  BY <1>1, <1>3 DEF AllocInv, Good
<1>5. PICK c : c = a + H + i
  OBVIOUS
<1>6. /\ a \in Nat /\ h.hdr[a].size \in Nat /\ End(h, a) = a + H + h.hdr[a].size
      /\ End(h, a) <= MaxBrk /\ H \in Nat /\ MaxBrk \in Nat
  BY <1>2, <1>4, Room, Numbers
<1>7. c \in Int /\ a + H <= c /\ c < End(h, a) /\ 0 <= c /\ c < MaxBrk
  BY <1>1, <1>5, <1>6
<1>8. c \in Addr
  BY <1>7, Numbers
<1> QED
  BY <1>1, <1>2, <1>4, <1>5, <1>7, <1>8 DEF Stamped

(* and that the state is well-typed.                                       *)
LEMMA TypeNow == AllocInv /\ theirs \subseteq Addr => TypeOK
<1> SUFFICES ASSUME AllocInv, theirs \subseteq Addr PROVE TypeOK
  OBVIOUS
<1>1. CASE ~heap.isInit
  <2>1. heap = NoHeap /\ Held = {} /\ Slots = {}
    BY <1>1 DEF AllocInv, NoHeap, Slots
  <2>2. 0 \in 0 .. MaxBrk
    BY Numbers
  <2> QED
    BY <2>1, <2>2 DEF NoHeap, TypeOK
<1>2. CASE heap.isInit
  <2>1. PICK h, tight : h = heap /\ tight = (theirs = {})
    OBVIOUS
  <2>2. Listed(h, tight) /\ h \in Heaps
    BY <1>2, <2>1 DEF AllocInv, Good, Listed
  <2>3. /\ h.isInit \in BOOLEAN /\ h.brk \in 0 .. MaxBrk /\ h.tail \in SlotsOf(h)
        /\ h.mem \in [Addr -> Cells]
    BY <2>2, HeapType DEF Listed
  <2>4. ASSUME NEW a \in SlotsOf(h)
        PROVE  /\ {h.hdr[a].prev, h.hdr[a].next} \subseteq SlotsOf(h) \cup {Nil}
               /\ h.hdr[a].isFree \in BOOLEAN
               /\ h.hdr[a].size \in 0 .. MaxBrk
    <3>1. h.hdr[a].prev \in SlotsOf(h) \cup {Nil} /\ h.hdr[a].next \in SlotsOf(h) \cup {Nil}
      BY <2>2 DEF Listed, Linked
    <3>2. h.hdr[a].isFree \in BOOLEAN
      BY <2>2, HeapType DEF SlotsOf
    <3>3. h.hdr[a].size \in 0 .. MaxBrk
      BY <2>2, Room, Numbers
    <3> QED
      BY <3>1, <3>2, <3>3
  <2>5. ASSUME NEW p \in Held PROVE p \in Addr
    <3>1. PICK a \in Used(h) : p = a + H /\ Holds(h, a, live[p])
      BY <2>1, HeldSlot
    <3>2. h.hdr[a].size >= 1
      BY <2>2, <3>1, Room DEF Holds, Used
    <3>3. a \in Nat /\ h.hdr[a].size \in Nat /\ a + H + h.hdr[a].size <= MaxBrk
      BY <2>2, Room DEF Used
    <3>4. p \in Int /\ 0 <= p /\ p < MaxBrk
      BY <3>1, <3>2, <3>3, Numbers
    <3> QED
      BY <3>4, Numbers
  <2> QED
    BY <2>1, <2>3, <2>4, <2>5, SlotsAre DEF TypeOK, Cells
<1> QED
  BY <1>1, <1>2

(* The cells of the others are addresses.                                  *)
LEMMA TheirsAre == AllocInv /\ theirs \subseteq Addr /\ [Next]_vars => theirs' \subseteq Addr
<1> SUFFICES ASSUME AllocInv, theirs \subseteq Addr, [Next]_vars PROVE theirs' \subseteq Addr
  OBVIOUS
<1>1. ASSUME NEW n \in Foreign, ForeignBrk(n) PROVE theirs' \subseteq Addr
  <2>1. heap.brk \in 0 .. MaxBrk /\ n \in Nat /\ heap.brk + n <= MaxBrk
    BY <1>1, AllocAssumption, HeapType DEF ForeignBrk, AllocInv, Good, Listed
  <2>2. \A c \in heap.brk .. heap.brk + n - 1 : c \in Addr
    BY <2>1, Numbers
  <2> QED
    BY <1>1, <2>2 DEF ForeignBrk
<1> QED
  BY <1>1 DEF Next, Malloc, Free, Write, Realloc, vars

(* Any sequence of mm_malloc, mm_free, mm_realloc, writes to blocks and    *)
(* foreign moves of the break leaves a heap whose list, headers, free      *)
(* memory and blocks are as AllocInv says.                                 *)
THEOREM AllocCorrect == Spec => []AllocInv
<1>1. Init => AllocInv
  BY InitAlloc
<1>2. AllocInv /\ [Next]_vars => AllocInv'
  BY NextAlloc
<1> QED
  BY <1>1, <1>2, PTL DEF Spec

(* The state stays well-typed: every pointer of a header is Nil or a       *)
(* slot, the break stays in the memory, every block is in it.              *)
THEOREM TypeCorrect == Spec => []TypeOK
<1>1. Init => theirs \subseteq Addr
  BY DEF Init
<1>2. AllocInv /\ theirs \subseteq Addr /\ [Next]_vars => (theirs \subseteq Addr)'
  BY TheirsAre
<1> QED
  BY <1>1, <1>2, AllocCorrect, TypeNow, PTL DEF Spec

(* What the program writes to a block is there until it frees the block    *)
(* or writes to it again: no call for another block (mm_malloc,            *)
(* split_slot, mm_free, merge_free_space, mm_realloc) touches a cell of    *)
(* it, and mm_realloc carries its content over.                            *)
THEOREM BlocksStayIntact == Spec => []DataIntact
  BY AllocCorrect, IntactNow, PTL

(* As long as nobody else moves the break, the slots follow each other     *)
(* without gap or overlap from the first to the break, next, prev and      *)
(* tail agree (split_slot, merge_free_space, the new slot of mm_malloc),   *)
(* and no header is overwritten.                                           *)
THEOREM SlotsTile == Spec => []Tiled
  BY AllocCorrect, TiledNow, PTL

(* The slots in use are the blocks the program holds, none is lost and     *)
(* none is given twice, and no two free slots are neighbours after any     *)
(* call (merge_free_space).                                                *)
THEOREM NothingIsWasted == Spec => []NothingWasted
  BY AllocCorrect, NothingWastedNow, PTL

(* The data of a free slot is zero after every call (the memset of         *)
(* mm_free, of split_slot and of merge_free_space).                        *)
THEOREM FreeStaysClear == Spec => []FreeIsClear
  BY AllocCorrect, FreeIsClearNow, PTL
=============================================================================
