------------------------------ MODULE MMAlloc -------------------------------
(***************************************************************************)
(* The memory allocator of hw3/mm_alloc.c.                                 *)
(*                                                                         *)
(* The heap is a doubly linked list of slots; a slot is a header of H      *)
(* cells and the data behind it.  mm_malloc takes the first free slot that *)
(* is large enough and splits it, or moves the break; mm_free merges the   *)
(* slot with its free neighbours; mm_realloc is malloc, copy and free.     *)
(* The program is sequential: one action per call.  The memory itself is   *)
(* part of the state, so that an overrun or an overlap shows.              *)
(***************************************************************************)
EXTENDS Integers, FiniteSets

CONSTANTS
  H,           \* sizeof(slot), in cells
  MinData,     \* split_slot leaves at least so much data: 4 bytes
  MaxBrk,      \* the memory sbrk can give out, in cells
  Sizes,       \* the sizes the program asks for
  Foreign      \* cells another user of sbrk (the C library) may take

ASSUME AllocAssumption ==
  /\ {H, MinData} \subseteq Nat \ {0}
  /\ MaxBrk \in Nat /\ MaxBrk >= H
  /\ Sizes \subseteq Nat
  /\ Foreign \subseteq Nat \ {0}

VARIABLES
  heap,        \* isInit, the break, tail, the headers and the memory
  live,        \* what the program holds: live[p][i] is the cell it has in p + i
  theirs       \* the cells another user of sbrk has got

vars == <<heap, live, theirs>>

Nil  == -1                     \* the null pointer
Addr == 0 .. MaxBrk - 1
head == 0                      \* the first slot is where the break was

(* Contents of a cell: never written, a piece of a header, zero, what the  *)
(* program stores (the address of its block), or what others store.        *)
Unset == -2
Head  == -1
Zero  == 0
Alien == -3

slot(prev, next, isFree, size) ==
  [prev |-> prev, next |-> next, isFree |-> isFree, size |-> size]

NoSlot == slot(Nil, Nil, FALSE, Nil)

(* memset, and the write of a header.                                      *)
Fill(mem, from, n, val) ==
  [a \in Addr |-> IF a >= from /\ a < from + n THEN val ELSE mem[a]]

SetSlot(h, at, s) ==
  [h EXCEPT !.hdr[at] = s, !.mem = Fill(@, at, H, Head)]

Clear(h, at) == [h EXCEPT !.mem = Fill(@, at + H, h.hdr[at].size, Zero)]

-----------------------------------------------------------------------------
(* init_malloc.                                                            *)
init_malloc(h) ==
  IF h.isInit THEN h
  ELSE SetSlot([h EXCEPT !.isInit = TRUE, !.brk = @ + H, !.tail = head],
               head, slot(Nil, Nil, FALSE, 0))

(* find_list_elem: first fit.                                              *)
find_list_elem(h, size) ==
  LET from[a \in Addr \cup {Nil}] ==
        IF a = Nil \/ (h.hdr[a].isFree /\ h.hdr[a].size >= size) THEN a
        ELSE from[h.hdr[a].next]
  IN from[head]

(* Mutant of split_slot: the slot behind the rest still points to the old. *)
split_slot_no_back(h, at, size) ==
  LET s    == h.hdr[at]
      new  == at + H + size
      rest == slot(at, s.next, TRUE, s.size - size - H)
      h1   == SetSlot([h EXCEPT !.hdr[at] = slot(s.prev, new, s.isFree, size)], new, rest)
      h2   == IF rest.next = Nil THEN [h1 EXCEPT !.tail = new] ELSE h1
  IN Clear(IF s.size >= size + H + MinData THEN Clear(h2, new) ELSE h, at)

(* split_slot: what is too much becomes a free slot of its own, if it can. *)
split_slot(h, at, size) ==
  LET s    == h.hdr[at]
      new  == at + H + size
      rest == slot(at, s.next, TRUE, s.size - size - H)
      h1   == SetSlot([h EXCEPT !.hdr[at] = slot(s.prev, new, s.isFree, size)], new, rest)
      h2   == IF rest.next = Nil THEN [h1 EXCEPT !.tail = new]
                                 ELSE [h1 EXCEPT !.hdr[rest.next].prev = new]
  IN Clear(IF s.size >= size + H + MinData THEN Clear(h2, new) ELSE h, at)

(* mm_malloc, of a size above 0: the heap after it and the pointer.        *)
result(h, ptr) == [heap |-> h, ptr |-> ptr]

(* The free tail grows by what it lacks.                                   *)
ExtendTail(h, size) ==
  LET more == size - h.hdr[h.tail].size
      h1   == [h EXCEPT !.brk = @ + more, !.hdr[h.tail].size = size,
                        !.hdr[h.tail].isFree = FALSE]
  IN IF h.brk + more > MaxBrk THEN result(h, Nil)
     ELSE result(Clear(h1, h.tail), h.tail + H)

(* A new slot at the break.                                                *)
NewSlot(h, size) ==
  LET at == h.brk
      h1 == SetSlot([h EXCEPT !.brk = @ + H + size, !.hdr[h.tail].next = at, !.tail = at],
                    at, slot(h.tail, Nil, FALSE, size))
  IN IF h.brk + H + size > MaxBrk THEN result(h, Nil)
     ELSE result(Clear(h1, at), at + H)

mm_malloc(h0, size) ==
  LET h   == init_malloc(h0)
      fit == find_list_elem(h, size)
  IN CASE size = 0 -> result(h, Nil)
       [] size > 0 /\ fit # Nil ->
            result([split_slot(h, fit, size) EXCEPT !.hdr[fit].isFree = FALSE], fit + H)
       [] size > 0 /\ fit = Nil /\ h.hdr[h.tail].isFree -> ExtendTail(h, size)
       [] size > 0 /\ fit = Nil /\ ~h.hdr[h.tail].isFree -> NewSlot(h, size)

-----------------------------------------------------------------------------
(* The run of free slots that starts at a and goes on along next, or, back *)
(* to the head, along prev: its cells, headers and all, and what stops it. *)
run(cells, stop) == [cells |-> cells, stop |-> stop]

run_behind(h) ==
  LET from[a \in Addr \cup {Nil}] ==
        IF a = Nil \/ ~h.hdr[a].isFree THEN run(0, a)
        ELSE run(h.hdr[a].size + H + from[h.hdr[a].next].cells, from[h.hdr[a].next].stop)
  IN from

run_before(h) ==
  LET from[a \in Addr] ==
        IF a = head \/ ~h.hdr[a].isFree THEN run(0, a)
        ELSE run(h.hdr[a].size + H + from[h.hdr[a].prev].cells, from[h.hdr[a].prev].stop)
  IN from

(* The slots between first and after become a part of first.               *)
Join(h, first, size, after) ==
  LET h1 == [h EXCEPT !.hdr = [a \in Addr |->
               IF a = first THEN slot(h.hdr[a].prev, after, h.hdr[a].isFree, size)
               ELSE IF a > first /\ (after = Nil \/ a < after) THEN NoSlot
               ELSE IF a = after THEN slot(first, h.hdr[a].next, h.hdr[a].isFree, h.hdr[a].size)
               ELSE h.hdr[a]]]
  IN IF after = Nil THEN [h1 EXCEPT !.tail = first] ELSE h1

(* The free slots behind at, and then the free slots before it.            *)
merge_behind(h, at) ==
  LET behind == run_behind(h)[h.hdr[at].next]
  IN Clear(IF behind.stop = h.hdr[at].next THEN h
           ELSE Join(h, at, h.hdr[at].size + behind.cells, behind.stop), at)

(* Mutant of merge_before: the memory of the merged headers is not cleared. *)
merge_before_no_clear(h, at) ==
  LET before == run_before(h)[h.hdr[at].prev]
      first  == h.hdr[before.stop].next
  IN IF before.stop = h.hdr[at].prev THEN h
     ELSE Join(h, first, before.cells + h.hdr[at].size, h.hdr[at].next)

merge_before(h, at) ==
  LET before == run_before(h)[h.hdr[at].prev]
      first  == h.hdr[before.stop].next
  IN IF before.stop = h.hdr[at].prev THEN h
     ELSE Clear(Join(h, first, before.cells + h.hdr[at].size, h.hdr[at].next), first)

(* Mutant of merge_free_space: only the slots behind are merged.           *)
merge_forward_only(h, at) == merge_behind(h, at)

merge_free_space(h, at) == merge_before(merge_behind(h, at), at)

(* find_list_elem_data_location finds the slot in front of the pointer.    *)
mm_free(h, ptr) ==
  IF ptr = Nil THEN h
  ELSE merge_free_space([Clear(h, ptr - H) EXCEPT !.hdr[ptr - H].isFree = TRUE], ptr - H)

(* memcpy.                                                                 *)
Copy(mem, to, from, n) ==
  [a \in Addr |-> IF a >= to /\ a < to + n THEN mem[from + (a - to)] ELSE mem[a]]

(* Mutant of mm_realloc: the new size is copied, whatever the old one was. *)
mm_realloc_overrun(h, ptr, size) ==
  LET r    == mm_malloc(h, size)
      full == [r.heap EXCEPT !.mem = Copy(@, r.ptr, ptr, IF ptr + size <= MaxBrk THEN size ELSE 0)]
  IN CASE size = 0 -> result(mm_free(h, ptr), Nil)
       [] size > 0 /\ (ptr = Nil \/ r.ptr = Nil) -> r
       [] size > 0 /\ ptr # Nil /\ r.ptr # Nil -> result(mm_free(full, ptr), r.ptr)

mm_realloc(h, ptr, size) ==
  LET r    == mm_malloc(h, size)
      had  == h.hdr[ptr - H].size
      full == [r.heap EXCEPT !.mem = Copy(@, r.ptr, ptr, IF size >= had THEN had ELSE size)]
  IN CASE size = 0 -> result(mm_free(h, ptr), Nil)
       [] size > 0 /\ (ptr = Nil \/ r.ptr = Nil) -> r
       [] size > 0 /\ ptr # Nil /\ r.ptr # Nil -> result(mm_free(full, ptr), r.ptr)

-----------------------------------------------------------------------------
Init ==
  /\ heap = [isInit |-> FALSE, brk |-> 0, tail |-> Nil,
             hdr |-> [a \in Addr |-> NoSlot], mem |-> [a \in Addr |-> Unset]]
  /\ live = [p \in {} |-> << >>]
  /\ theirs = {}

Held == DOMAIN live
Without(p) == [q \in Held \ {p} |-> live[q]]
With(f, p, size, val(_)) ==
  [q \in DOMAIN f \cup {p} |-> IF q = p THEN [i \in 0 .. size - 1 |-> val(i)] ELSE f[q]]

Malloc(size) ==
  LET r == mm_malloc(heap, size) IN
  /\ heap' = r.heap
  /\ live' = IF r.ptr = Nil THEN live ELSE With(live, r.ptr, size, LAMBDA i : Zero)
  /\ UNCHANGED theirs

Free(p) ==
  /\ heap' = mm_free(heap, p)
  /\ live' = Without(p)
  /\ UNCHANGED theirs

(* What the program may count on: the old content, as far as it goes, and  *)
(* the old block if there is no memory.                                    *)
Realloc(p, size) ==
  LET r == mm_realloc(heap, p, size) IN
  /\ heap' = r.heap
  /\ live' = IF size = 0 THEN Without(p)
             ELSE IF r.ptr = Nil THEN live
             ELSE With(Without(p), r.ptr, size,
                       LAMBDA i : IF p # Nil /\ i \in DOMAIN live[p] THEN live[p][i] ELSE Zero)
  /\ UNCHANGED theirs

(* The program fills a block it holds.                                     *)
Write(p) ==
  /\ \E i \in DOMAIN live[p] : live[p][i] # p
  /\ heap' = [heap EXCEPT !.mem = Fill(@, p, Cardinality(DOMAIN live[p]), p)]
  /\ live' = [live EXCEPT ![p] = [i \in DOMAIN live[p] |-> p]]
  /\ UNCHANGED theirs

(* Someone else moves the break and uses the memory: the C library, for    *)
(* the buffer of printf, say.                                              *)
ForeignBrk(n) ==
  /\ heap.isInit
  /\ heap.brk + n <= MaxBrk
  /\ heap' = [heap EXCEPT !.brk = @ + n, !.mem = Fill(@, heap.brk, n, Alien)]
  /\ theirs' = theirs \cup heap.brk .. heap.brk + n - 1
  /\ UNCHANGED live

Next ==
  \/ \E size \in Sizes : Malloc(size)
  \/ \E p \in Held : Free(p) \/ Write(p)
  \/ \E p \in Held \cup {Nil}, size \in Sizes : Realloc(p, size)
  \/ \E n \in Foreign : ForeignBrk(n)

Spec == Init /\ [][Next]_vars

-----------------------------------------------------------------------------
Slots == {a \in Addr : heap.hdr[a] # NoSlot}

TypeOK ==
  /\ heap.isInit \in BOOLEAN
  /\ heap.brk \in 0 .. MaxBrk
  /\ heap.tail \in Slots \cup {Nil}
  /\ \A a \in Slots : /\ {heap.hdr[a].prev, heap.hdr[a].next} \subseteq Slots \cup {Nil}
                      /\ heap.hdr[a].isFree \in BOOLEAN
                      /\ heap.hdr[a].size \in 0 .. MaxBrk
  /\ \A a \in Addr : heap.mem[a] \in {Unset, Head, Zero, Alien} \cup Addr
  /\ Held \subseteq Addr
  /\ theirs \subseteq Addr

(* mm_alloc.h: a clone of malloc.  Every cell of every block holds what    *)
(* the program has put there, or zero, through any calls for other blocks  *)
(* and through reallocation: blocks never overlap each other, nor are they *)
(* overwritten by headers or by the clearing of free memory.               *)
DataIntact ==
  \A p \in Held : \A i \in DOMAIN live[p] : heap.mem[p + i] = live[p][i]

(* The slots tile the memory from the first to the break, in the order of  *)
(* the list, whose two directions and tail agree, and no header is         *)
(* overwritten, as long as nobody else moves the break (mm_malloc takes it *)
(* that sbrk continues where its last slot ends).                          *)
Tiled ==
  heap.isInit /\ theirs = {} =>
    \A a \in Slots :
      LET s == heap.hdr[a] IN
      /\ \A i \in 0 .. H - 1 : heap.mem[a + i] = Head
      /\ IF s.next = Nil THEN heap.tail = a /\ a + H + s.size = heap.brk
                         ELSE s.next = a + H + s.size /\ heap.hdr[s.next].prev = a

(* No memory is lost or fragmented without need: exactly the slots of the  *)
(* blocks the program holds are in use, and no two free slots are          *)
(* neighbours (merge_free_space).                                          *)
NothingWasted ==
  heap.isInit =>
    /\ Held = {a + H : a \in {b \in Slots \ {head} : ~heap.hdr[b].isFree}}
    /\ \A a \in Slots : heap.hdr[a].isFree /\ heap.hdr[a].next # Nil
                          => ~heap.hdr[heap.hdr[a].next].isFree

(* A free slot holds no data of the blocks, nor of the headers, that were  *)
(* there before it (mm_free, merge_free_space, split_slot).                *)
FreeIsClear ==
  \A a \in Slots : heap.hdr[a].isFree =>
    \A i \in 0 .. heap.hdr[a].size - 1 : heap.mem[a + H + i] = Zero
=============================================================================
