---------------------------- MODULE ShellProofs -----------------------------
(***************************************************************************)
(* The shell loses no child and waits for none twice, for any lines, any   *)
(* number of processes and any size of its table.                          *)
(*                                                                         *)
(* ChildrenAccounted speaks of the prompt only; Accounted says where the   *)
(* children are at every other step: also in cpid, or, while cmd_wait      *)
(* runs, in the rest of the table.  In the same way FdInv says where the   *)
(* terminal is while a descriptor of the shell is redirected.              *)
(***************************************************************************)
EXTENDS Shell, TLAPS

Live == {p \in Pids : proc[p] # "none"}

(* The pids in the table from the m-th on.                                 *)
Rest(m) == {table[n] : n \in m .. Len(table)}

ShellTypes ==
  /\ proc \in [Pids -> {"none", "forked", "lost", "run", "stopped", "zombie"}]
  /\ table \in Seq(Pids)
  /\ i \in Nat \ {0}
  /\ \A m, n \in 1 .. Len(table) : table[m] = table[n] => m = n

Accounted ==
  /\ pc \in {"prompt", "out", "in", "restore"} => Live = Rest(1) /\ i = 1
  /\ pc = "run" => Live = Rest(i) /\ (i = 1 \/ (IsBuiltin /\ line[1] = "wait"))
  /\ pc \in {"parent", "waitpid"} =>
       /\ cpid \in Pids \ Rest(1)
       /\ Live = Rest(1) \cup {cpid}
       /\ i = 1

ShellInv == ShellTypes /\ Accounted

LEMMA ShellInit == Init => ShellInv
BY DEF Init, ShellInv, ShellTypes, Accounted, Live, Rest

(* Steps that neither start a child nor wait for one.                      *)
LEMMA SameChildren ==
  ASSUME ShellInv, UNCHANGED <<table, i, cpid>>,
         proc' \in [Pids -> {"none", "forked", "lost", "run", "stopped", "zombie"}],
         \A p \in Pids : proc'[p] = "none" <=> proc[p] = "none",
         \/ pc' = pc /\ line' = line
         \/ pc' \in {"exited", "corrupt"}
         \/ pc = "prompt" /\ pc' = "out"
         \/ pc = "out" /\ pc' = "in"
         \/ pc = "in" /\ pc' = "run"
         \/ pc = "restore" /\ pc' = "prompt"
  PROVE  ShellInv'
<1>1. Live' = Live /\ Rest(1)' = Rest(1) /\ Rest(i)' = Rest(i)
  BY DEF Live, Rest
<1>2. ShellTypes'
  BY DEF ShellInv, ShellTypes
<1>3. Accounted'
  <2>1. CASE pc' = pc /\ line' = line
    BY <1>1, <2>1 DEF ShellInv, Accounted, IsBuiltin
  <2>2. CASE pc' \in {"exited", "corrupt"}
    BY <2>2 DEF Accounted
  <2>3. CASE <<pc, pc'>> \in {<<"prompt", "out">>, <<"out", "in">>, <<"restore", "prompt">>}
    BY <1>1, <2>3 DEF ShellInv, Accounted
  <2>4. CASE pc = "in" /\ pc' = "run"
    <3>1. Live = Rest(1) /\ i = 1 /\ i' = 1
      BY <2>4 DEF ShellInv, Accounted
    <3> QED
      BY <2>4, <3>1 DEF Accounted, Live, Rest
  <2> QED
    BY <2>1, <2>2, <2>3, <2>4
<1> QED
  BY <1>2, <1>3 DEF ShellInv

LEMMA WaitKeeps ==
  ASSUME ShellInv, WaitNext
  PROVE  ShellInv'
<1>1. /\ pc = "run" /\ IsBuiltin /\ line[1] = "wait" /\ line' = line /\ Live = Rest(i)
      /\ table \in Seq(Pids) /\ Len(table) \in Nat /\ i \in Nat \ {0}
  BY DEF WaitNext, ShellInv, ShellTypes, Accounted
<1>2. CASE i <= Len(table) /\ Reap(table[i]) /\ i' = i + 1 /\ UNCHANGED <<table, pc>>
  <2>1. table[i] \in Pids /\ proc' = [proc EXCEPT ![table[i]] = "none"]
    BY <1>1, <1>2 DEF Reap
  <2>2. ShellTypes'
    BY <1>1, <1>2, <2>1 DEF ShellInv, ShellTypes
  <2>3. Live' = Live \ {table[i]}
    BY <2>1 DEF Live, ShellInv, ShellTypes
  <2>4. Rest(i + 1) = Rest(i) \ {table[i]}
    <3>1. i .. Len(table) = {i} \cup (i + 1 .. Len(table)) /\ i \in 1 .. Len(table)
      BY <1>1, <1>2
    <3>2. \A n \in i + 1 .. Len(table) : n \in 1 .. Len(table) /\ n # i
      BY <1>1
    <3>3. \A n \in i + 1 .. Len(table) : table[n] # table[i]
      BY <3>1, <3>2 DEF ShellInv, ShellTypes
    <3> QED
      BY <3>1, <3>3 DEF Rest
  <2>5. Rest(i)' = Rest(i + 1)
    BY <1>2 DEF Rest
  <2> QED
    BY <1>1, <1>2, <2>2, <2>3, <2>4, <2>5 DEF ShellInv, Accounted, IsBuiltin
<1>3. CASE i > Len(table) /\ table' = << >> /\ i' = 1 /\ pc' = "restore" /\ UNCHANGED proc
  <2>1. i .. Len(table) = {}
    BY <1>1, <1>3
  <2>2. Live = {} /\ Live' = Live /\ Rest(1)' = {}
    BY <1>1, <1>3, <2>1 DEF Live, Rest
  <2> QED
    BY <1>3, <2>2 DEF ShellInv, ShellTypes, Accounted
<1> QED
  BY <1>2, <1>3 DEF WaitNext

LEMMA ForkKeeps ==
  ASSUME ShellInv, NEW p \in Pids, Fork(p)
  PROVE  ShellInv'
<1>1. /\ pc = "run" /\ i = 1 /\ proc[p] = "none" /\ Live = Rest(1)
      /\ pc' = "parent" /\ cpid' = p /\ UNCHANGED <<table, i>>
  BY DEF Fork, ShellInv, Accounted
<1>2. PICK s \in {"forked", "lost"} : proc' = [proc EXCEPT ![p] = s]
  BY DEF Fork
<1>3. ShellTypes'
  BY <1>1, <1>2 DEF ShellInv, ShellTypes
<1>4. Live' = Live \cup {p} /\ p \notin Live /\ Rest(1)' = Rest(1)
  BY <1>1, <1>2 DEF Live, Rest, ShellInv, ShellTypes
<1> QED
  BY <1>1, <1>3, <1>4 DEF ShellInv, Accounted

LEMMA ParentKeeps ==
  ASSUME ShellInv, Parent
  PROVE  ShellInv'
<1>1. /\ pc = "parent" /\ cpid \in Pids \ Rest(1) /\ Live = Rest(1) \cup {cpid} /\ i = 1
      /\ table \in Seq(Pids) /\ Len(table) \in Nat
      /\ UNCHANGED <<line, i, proc>>
  BY DEF Parent, ShellInv, ShellTypes, Accounted
<1>2. CASE pc' = "waitpid" /\ UNCHANGED <<cpid, table>>
  BY <1>1, <1>2 DEF ShellInv, ShellTypes, Accounted, Live, Rest
<1>3. CASE pc' = "corrupt" /\ UNCHANGED <<cpid, table>>
  BY <1>1, <1>3 DEF ShellInv, ShellTypes, Accounted
<1>4. CASE table' = Append(table, cpid) /\ pc' = "restore"
  <2>1. /\ table' \in Seq(Pids) /\ Len(table') = Len(table) + 1
        /\ table'[Len(table) + 1] = cpid
        /\ \A n \in 1 .. Len(table) : table'[n] = table[n]
    BY <1>1, <1>4
  <2>2. /\ 1 .. Len(table') = (1 .. Len(table)) \cup {Len(table) + 1}
        /\ Len(table) + 1 \notin 1 .. Len(table)
    BY <1>1, <2>1
  <2>3. \A n \in 1 .. Len(table) : table[n] # cpid
    BY <1>1 DEF Rest
  <2>4. \A m, n \in 1 .. Len(table') : table'[m] = table'[n] => m = n
    BY <2>1, <2>2, <2>3 DEF ShellInv, ShellTypes
  <2>5. Rest(1)' = Rest(1) \cup {cpid}
    BY <2>1, <2>2 DEF Rest
  <2>6. Live' = Live
    BY <1>1 DEF Live
  <2> QED
    BY <1>1, <1>4, <2>1, <2>4, <2>5, <2>6 DEF ShellInv, ShellTypes, Accounted
<1> QED
  BY <1>2, <1>3, <1>4 DEF Parent

LEMMA WaitForegroundKeeps ==
  ASSUME ShellInv, WaitForeground
  PROVE  ShellInv'
<1>1. /\ pc = "waitpid" /\ cpid \in Pids \ Rest(1) /\ Live = Rest(1) \cup {cpid} /\ i = 1
      /\ proc' = [proc EXCEPT ![cpid] = "none"] /\ pc' = "restore"
      /\ UNCHANGED <<table, i>>
  BY DEF WaitForeground, Reap, ShellInv, Accounted
<1>2. ShellTypes'
  BY <1>1 DEF ShellInv, ShellTypes
<1>3. Live' = Live \ {cpid} /\ Rest(1)' = Rest(1)
  BY <1>1 DEF Live, Rest, ShellInv, ShellTypes
<1> QED
  BY <1>1, <1>2, <1>3 DEF ShellInv, Accounted

LEMMA ShellNext ==
  ASSUME ShellInv, [Next]_vars
  PROVE  ShellInv'
<1>1. proc \in [Pids -> {"none", "forked", "lost", "run", "stopped", "zombie"}]
  BY DEF ShellInv, ShellTypes
<1>2. ASSUME NEW l \in Lines, ReadLine(l)
      PROVE  ShellInv'
  BY <1>1, <1>2, SameChildren DEF ReadLine
<1>3. CASE Exit \/ ForkFails
  BY <1>1, <1>3, SameChildren DEF Exit, ForkFails
<1>4. CASE RedirectOut
  BY <1>1, <1>4, SameChildren DEF RedirectOut
<1>5. CASE RedirectIn
  BY <1>1, <1>5, SameChildren DEF RedirectIn
<1>6. CASE Restore
  BY <1>1, <1>6, SameChildren DEF Restore
<1>7. CASE RunBuiltin
  <2>1. i = 1 /\ Live = Rest(1) /\ pc' = "restore" /\ UNCHANGED <<table, i, proc>>
    BY <1>7 DEF RunBuiltin, ShellInv, Accounted
  <2> QED
    BY <2>1 DEF ShellInv, ShellTypes, Accounted, Live, Rest
<1>8. CASE WaitNext
  BY <1>8, WaitKeeps
<1>9. ASSUME NEW p \in Pids, Fork(p)
      PROVE  ShellInv'
  BY <1>9, ForkKeeps
<1>10. CASE Parent
  BY <1>10, ParentKeeps
<1>11. CASE WaitForeground
  BY <1>11, WaitForegroundKeeps
<1>12. ASSUME NEW p \in Pids, ChildStarts(p) \/ ChildEnds(p)
       PROVE  ShellInv'
  <2>1. /\ proc' \in [Pids -> {"none", "forked", "lost", "run", "stopped", "zombie"}]
        /\ \A q \in Pids : proc'[q] = "none" <=> proc[q] = "none"
        /\ UNCHANGED <<pc, line, table, i, cpid>>
    BY <1>1, <1>12 DEF ChildStarts, ChildEnds
  <2> QED
    BY <2>1, SameChildren
<1>13. CASE CtrlC
  <2>1. \A q \in Pids : proc'[q] = IF Hit(q) THEN "zombie" ELSE proc[q]
    BY <1>13 DEF CtrlC
  <2>2. \A q \in Pids : Hit(q) => proc[q] # "none"
    BY DEF Hit
  <2>3. proc' \in [Pids -> {"none", "forked", "lost", "run", "stopped", "zombie"}]
    BY <1>1, <1>13 DEF CtrlC
  <2>4. \A q \in Pids : proc'[q] = "none" <=> proc[q] = "none"
    BY <2>1, <2>2
  <2>5. UNCHANGED <<line, table, i, cpid>> /\ pc' \in {pc, "exited"}
    BY <1>13 DEF CtrlC
  <2> QED
    BY <2>3, <2>4, <2>5, SameChildren
<1>14. CASE CtrlZ
  <2>1. \A q \in Pids : proc'[q] = IF Hit(q) THEN "stopped" ELSE proc[q]
    BY <1>14 DEF CtrlZ
  <2>2. \A q \in Pids : Hit(q) => proc[q] # "none"
    BY DEF Hit
  <2>3. proc' \in [Pids -> {"none", "forked", "lost", "run", "stopped", "zombie"}]
    BY <1>1, <1>14 DEF CtrlZ
  <2>4. \A q \in Pids : proc'[q] = "none" <=> proc[q] = "none"
    BY <2>1, <2>2
  <2> QED
    BY <1>14, <2>3, <2>4, SameChildren DEF CtrlZ
<1>15. CASE UNCHANGED vars
  BY <1>1, <1>15, SameChildren DEF vars
<1> QED
  BY <1>2, <1>3, <1>4, <1>5, <1>6, <1>7, <1>8, <1>9, <1>10, <1>11, <1>12, <1>13, <1>14, <1>15
  DEF Next, ShellStep

-----------------------------------------------------------------------------
(* At the prompt the children not waited for are those in the table, each  *)
(* once, whatever was typed, whoever ended or was stopped, and however     *)
(* often a pid came back (Fork takes any that is free).                    *)
THEOREM NoChildIsLost == Spec => []ChildrenAccounted
<1>1. ShellInv => ChildrenAccounted
  <2> SUFFICES ASSUME ShellInv, pc = "prompt"
               PROVE  /\ {p \in Pids : proc[p] # "none"} = {table[n] : n \in DOMAIN table}
                      /\ IsInjective(table)
    BY DEF ChildrenAccounted
  <2>1. DOMAIN table = 1 .. Len(table)
    BY DEF ShellInv, ShellTypes
  <2> QED
    BY <2>1 DEF ShellInv, ShellTypes, Accounted, Live, Rest, IsInjective
<1> QED
  BY <1>1, ShellInit, ShellNext, PTL DEF Spec

-----------------------------------------------------------------------------
(* The descriptors.  Between two prompts each standard descriptor is the   *)
(* terminal or has a copy of it, at a number of its own, that the shell    *)
(* remembers; no other descriptor is open.                                 *)
Files == {"terminal", Closed} \cup Writable \cup Readable

Kept(save, std) == \/ save = -1 /\ fds[std] = "terminal"
                   \/ save \in 3 .. 5 /\ fds[save] = "terminal" /\ fds[std] # Closed

Saved ==
  /\ fds \in [0 .. 5 -> Files]
  /\ Kept(out_save, 1) /\ Kept(in_save, 0) /\ fds[2] = "terminal"
  /\ out_save = in_save => out_save = -1
  /\ \A fd \in 3 .. 5 : fd \notin {out_save, in_save} => fds[fd] = Closed

Unchanged == fds = Terminal /\ out_save = -1 /\ in_save = -1

OutIsSet == fds[1] = Wanted(line, ">", Writable)
InIsSet  == fds[0] = Wanted(Before(line, ">"), "<", Readable)

FdInv ==
  /\ pc = "prompt" => Unchanged
  /\ pc = "out" => Unchanged /\ argv = line
  /\ pc = "in"  => Saved /\ in_save = -1 /\ OutIsSet /\ argv = Before(line, ">")
  /\ pc = "run" => Saved /\ OutIsSet /\ InIsSet
  /\ pc \in {"parent", "waitpid", "restore"} => Saved

(* There is room: open and dup get a number above the standard ones.       *)
LEMMA FreeIs ==
  ASSUME NEW t, NEW a \in 3 .. 5, t[a] = Closed, DOMAIN t = 0 .. 5,
         \A fd \in 0 .. 2 : t[fd] # Closed
  PROVE  Free(t) \in 3 .. 5 /\ t[Free(t)] = Closed
<1> DEFINE Lowest(fd) == t[fd] = Closed /\ \A e \in 0 .. fd - 1 : t[e] # Closed
<1>1. \E fd \in 0 .. 5 : Lowest(fd)
  <2>1. CASE t[3] = Closed
    <3>1. \A e \in 0 .. 3 - 1 : t[e] # Closed
      OBVIOUS
    <3>2. Lowest(3)
      BY <2>1, <3>1
    <3> QED
      BY <3>2
  <2>2. CASE t[3] # Closed /\ t[4] = Closed
    <3>1. \A e \in 0 .. 4 - 1 : e \in 0 .. 2 \/ e = 3
      OBVIOUS
    <3>2. Lowest(4)
      BY <2>2, <3>1
    <3> QED
      BY <3>2
  <2>3. CASE t[3] # Closed /\ t[4] # Closed
    <3>1. \A e \in 0 .. 5 - 1 : e \in 0 .. 2 \/ e = 3 \/ e = 4
      OBVIOUS
    <3>2. a = 3 \/ a = 4 \/ a = 5
      OBVIOUS
    <3>3. Lowest(5)
      BY <2>3, <3>1, <3>2
    <3> QED
      BY <3>3
  <2> QED
    BY <2>1, <2>2, <2>3
<1>2. Free(t) = CHOOSE fd \in 0 .. 5 : Lowest(fd)
  BY DEF Free
<1>3. Free(t) \in 0 .. 5 /\ Lowest(Free(t))
  <2> HIDE DEF Lowest
  <2> QED
    BY <1>1, <1>2
<1>4. Free(t) \notin 0 .. 2
  BY <1>3
<1> QED
  BY <1>3, <1>4

(* open, dup, dup2 and close change the standard descriptor and the copy.  *)
LEMMA RedirectedIs ==
  ASSUME NEW t \in [0 .. 5 -> Files], NEW a \in 3 .. 5, NEW b \in 3 .. 5, a # b,
         t[a] = Closed, t[b] = Closed, \A fd \in 0 .. 2 : t[fd] # Closed,
         NEW std \in {0, 1}, NEW file \in (Files \ {Closed}) \cup {NULL},
         NEW k, k = Free(Opened(t, file)),
         NEW r, r = Redirected(t, file, std)
  PROVE  /\ r \in [0 .. 5 -> Files]
         /\ k \in 3 .. 5 /\ t[k] = Closed /\ r[k] = t[std]
         /\ r[std] = (IF file = NULL THEN t[std] ELSE file)
         /\ \A fd \in (0 .. 5) \ {std, k} : r[fd] = t[fd]
<1>1. CASE file = NULL
  <2>1. k = Free(t) /\ r = [t EXCEPT ![k] = t[std]]
    BY <1>1 DEF Opened, Redirected
  <2>2. k \in 3 .. 5 /\ t[k] = Closed
    BY <2>1, FreeIs
  <2> QED
    BY <1>1, <2>1, <2>2
<1>2. CASE file # NULL
  <2>1. PICK f : f = Free(t)
    OBVIOUS
  <2>2. f \in 3 .. 5 /\ t[f] = Closed
    BY <2>1, FreeIs
  <2>3. PICK u : u = [t EXCEPT ![f] = file]
    OBVIOUS
  <2>4. u = Opened(t, file) /\ u \in [0 .. 5 -> Files] /\ u[f] = file /\ file # Closed
    BY <1>2, <2>1, <2>2, <2>3 DEF Opened
  <2>5. PICK c \in {a, b} : c # f
    OBVIOUS
  <2>6. k \in 3 .. 5 /\ u[k] = Closed
    <3>1. u[c] = Closed /\ c \in 3 .. 5 /\ DOMAIN u = 0 .. 5 /\ \A fd \in 0 .. 2 : u[fd] # Closed
      BY <2>2, <2>3, <2>4, <2>5
    <3> QED
      BY <2>4, <3>1, FreeIs
  <2>7. k # f /\ t[k] = Closed
    BY <2>3, <2>4, <2>6
  <2>8. r = [[u EXCEPT ![k] = t[std]] EXCEPT ![std] = file, ![f] = Closed]
    BY <1>2, <2>1, <2>4 DEF Redirected
  <2> QED
    BY <1>2, <2>2, <2>3, <2>4, <2>6, <2>7, <2>8 DEF Files
<1> QED
  BY <1>1, <1>2

LEMMA TerminalIs ==
  /\ Terminal \in [0 .. 5 -> Files]
  /\ \A fd \in 0 .. 2 : Terminal[fd] = "terminal"
  /\ \A fd \in 3 .. 5 : Terminal[fd] = Closed
  BY DEF Terminal, Files

(* Without a sign, or with one that names no such file, the line wants the *)
(* terminal.                                                               *)
LEMMA WantedIs ==
  ASSUME NEW toks, NEW sign, NEW files \in {Writable, Readable}
  PROVE  /\ Sign(toks, sign) = 0 => Wanted(toks, sign, files) = "terminal" /\ Before(toks, sign) = toks
         /\ FileOf(toks, sign) \notin files => Wanted(toks, sign, files) = "terminal"
         /\ FileOf(toks, sign) \in files => Wanted(toks, sign, files) = FileOf(toks, sign)
                                            /\ FileOf(toks, sign) \notin {NULL, Closed}
  BY ShellAssumption DEF Wanted, FileOf, Before, Closed

LEMMA FdInit == Init => FdInv
  BY DEF Init, FdInv, Unchanged

LEMMA RedirectOutKeeps ==
  ASSUME FdInv, RedirectOut
  PROVE  FdInv'
<1>1. /\ pc = "out" /\ pc' = "in" /\ fds = Terminal /\ out_save = -1 /\ in_save = -1
      /\ in_save' = -1 /\ line' = line /\ argv' = Before(line, ">") /\ argv = line
  BY DEF RedirectOut, FdInv, Unchanged
<1>2. CASE Sign(line, ">") = 0
  <2>1. fds' = Terminal /\ out_save' = -1
    BY <1>1, <1>2 DEF RedirectOut
  <2>2. OutIsSet'
    BY <1>1, <1>2, <2>1, WantedIs, TerminalIs DEF OutIsSet
  <2>3. Saved'
    BY <1>1, <2>1, TerminalIs DEF Saved, Kept
  <2> QED
    BY <1>1, <2>2, <2>3 DEF FdInv
<1>3. CASE Sign(line, ">") # 0
  <2>1. PICK name, file : name = FileOf(line, ">") /\ file = IF name \in Writable THEN name ELSE NULL
    OBVIOUS
  <2>2. PICK k, r : k = Free(Opened(Terminal, file)) /\ r = Redirected(Terminal, file, 1)
    OBVIOUS
  <2>3. fds' = r /\ out_save' = k
    BY <1>1, <1>3, <2>1, <2>2 DEF RedirectOut
  <2>4. /\ file \in (Files \ {Closed}) \cup {NULL}
        /\ file = NULL => Wanted(line, ">", Writable) = "terminal"
        /\ file # NULL => Wanted(line, ">", Writable) = file
    BY <2>1, WantedIs DEF Files
  <2>5. /\ r \in [0 .. 5 -> Files]
        /\ k \in 3 .. 5 /\ r[k] = "terminal"
        /\ r[1] = (IF file = NULL THEN "terminal" ELSE file)
        /\ \A fd \in (0 .. 5) \ {1, k} : r[fd] = Terminal[fd]
    <3>1. /\ 3 \in 3 .. 5 /\ 4 \in 3 .. 5 /\ 3 # 4 /\ Terminal[3] = Closed /\ Terminal[4] = Closed
          /\ \A fd \in 0 .. 2 : Terminal[fd] # Closed
          /\ Terminal[1] = "terminal" /\ 1 \in {0, 1} /\ Terminal \in [0 .. 5 -> Files]
      BY TerminalIs DEF Closed
    <3> QED
      BY <2>2, <2>4, <3>1, RedirectedIs
  <2>6. OutIsSet'
    BY <1>1, <2>3, <2>4, <2>5 DEF OutIsSet
  <2>7. Saved'
    BY <1>1, <2>3, <2>4, <2>5, TerminalIs DEF Saved, Kept, Closed
  <2> QED
    BY <1>1, <2>6, <2>7 DEF FdInv
<1> QED
  BY <1>2, <1>3

LEMMA RedirectInKeeps ==
  ASSUME FdInv, RedirectIn
  PROVE  FdInv'
<1>1. /\ pc = "in" /\ pc' = "run" /\ Saved /\ in_save = -1 /\ OutIsSet
      /\ out_save' = out_save /\ line' = line /\ argv = Before(line, ">")
  BY DEF RedirectIn, FdInv
<1>2. CASE Sign(argv, "<") = 0
  <2>1. UNCHANGED <<fds, in_save>>
    BY <1>2 DEF RedirectIn
  <2>2. fds[0] = "terminal"
    BY <1>1 DEF Saved, Kept
  <2>3. InIsSet' /\ OutIsSet'
    BY <1>1, <1>2, <2>1, <2>2, WantedIs DEF InIsSet, OutIsSet
  <2>4. Saved'
    BY <1>1, <2>1 DEF Saved, Kept
  <2> QED
    BY <1>1, <2>3, <2>4 DEF FdInv
<1>3. CASE Sign(argv, "<") # 0
  <2>1. PICK name, file : name = FileOf(argv, "<") /\ file = IF name \in Readable THEN name ELSE NULL
    OBVIOUS
  <2>2. PICK k, r : k = Free(Opened(fds, file)) /\ r = Redirected(fds, file, 0)
    OBVIOUS
  <2>3. fds' = r /\ in_save' = k
    BY <1>3, <2>1, <2>2 DEF RedirectIn
  <2>4. /\ file \in (Files \ {Closed}) \cup {NULL}
        /\ file = NULL => Wanted(argv, "<", Readable) = "terminal"
        /\ file # NULL => Wanted(argv, "<", Readable) = file
    BY <2>1, WantedIs DEF Files
  <2>5. /\ fds \in [0 .. 5 -> Files] /\ fds[0] = "terminal" /\ fds[2] = "terminal" /\ fds[1] # Closed
        /\ \A fd \in 3 .. 5 : fd # out_save => fds[fd] = Closed
        /\ \/ out_save = -1 /\ fds[1] = "terminal"
           \/ out_save \in 3 .. 5 /\ fds[out_save] = "terminal"
    BY <1>1 DEF Saved, Kept, Closed
  <2>6. \E a, b \in 3 .. 5 : a # b /\ a # out_save /\ b # out_save
    <3>1. 3 \in 3 .. 5 /\ 4 \in 3 .. 5 /\ 5 \in 3 .. 5
      OBVIOUS
    <3>2. out_save \notin {3, 4} \/ out_save \notin {4, 5} \/ out_save \notin {3, 5}
      BY <2>5
    <3> QED
      BY <3>1, <3>2
  <2>7. PICK a \in 3 .. 5, b \in 3 .. 5 : a # b /\ fds[a] = Closed /\ fds[b] = Closed
    BY <2>5, <2>6
  <2>8. /\ r \in [0 .. 5 -> Files]
        /\ k \in 3 .. 5 /\ fds[k] = Closed /\ r[k] = "terminal"
        /\ r[0] = (IF file = NULL THEN "terminal" ELSE file)
        /\ \A fd \in (0 .. 5) \ {0, k} : r[fd] = fds[fd]
    <3>1. \A fd \in 0 .. 2 : fds[fd] # Closed
      BY <2>5 DEF Closed
    <3>2. 0 \in {0, 1}
      OBVIOUS
    <3> QED
      BY <2>2, <2>4, <2>5, <2>7, <3>1, <3>2, RedirectedIs
  <2>9. OutIsSet' /\ InIsSet'
    BY <1>1, <2>3, <2>4, <2>8 DEF OutIsSet, InIsSet
  <2>10. Saved'
    <3>1. k # out_save
      BY <2>5, <2>8 DEF Closed
    <3>2. r[0] # Closed /\ r[2] = "terminal" /\ r[1] = fds[1]
      BY <2>4, <2>5, <2>8 DEF Closed
    <3>3. out_save \in 3 .. 5 => r[out_save] = fds[out_save]
      BY <2>8, <3>1
    <3>4. \A fd \in 3 .. 5 : fd \notin {out_save, k} => r[fd] = Closed
      BY <2>5, <2>8
    <3> QED
      BY <1>1, <2>3, <2>5, <2>8, <3>1, <3>2, <3>3, <3>4 DEF Saved, Kept
  <2> QED
    BY <1>1, <2>9, <2>10 DEF FdInv
<1> QED
  BY <1>2, <1>3

LEMMA RestoreKeeps ==
  ASSUME FdInv, Restore
  PROVE  FdInv'
<1>1. /\ pc' = "prompt" /\ Saved /\ out_save' = -1 /\ in_save' = -1
      /\ fds' = Restored(Restored(fds, out_save, 1), in_save, 0)
  BY DEF Restore, FdInv
<1>2. PICK r : r = Restored(fds, out_save, 1)
  OBVIOUS
<1>3. /\ r \in [0 .. 5 -> Files] /\ r[1] = "terminal" /\ r[0] = fds[0] /\ r[2] = "terminal"
      /\ \A fd \in 3 .. 5 : r[fd] = IF fd = in_save THEN fds[fd] ELSE Closed
  BY <1>1, <1>2 DEF Saved, Kept, Restored, Files
<1>4. fds' = Restored(r, in_save, 0)
  BY <1>1, <1>2
<1>5. fds' \in [0 .. 5 -> Files] /\ \A fd \in 0 .. 5 : fds'[fd] = IF fd <= 2 THEN "terminal" ELSE Closed
  <2>1. CASE in_save = -1
    <3>1. fds' = r
      BY <1>4, <2>1 DEF Restored
    <3>2. r[0] = "terminal" /\ \A fd \in 3 .. 5 : r[fd] = Closed
      BY <1>1, <1>3, <2>1 DEF Saved, Kept
    <3>3. \A fd \in 0 .. 5 : (fd <= 2 => fd \in {0, 1, 2}) /\ (~(fd <= 2) => fd \in 3 .. 5)
      OBVIOUS
    <3> QED
      BY <1>3, <3>1, <3>2, <3>3
  <2>2. CASE in_save \in 3 .. 5
    BY <1>1, <1>3, <1>4, <2>2 DEF Saved, Kept, Restored, Files
  <2> QED
    BY <1>1, <2>1, <2>2 DEF Saved, Kept
<1>6. fds' = Terminal
  BY <1>5 DEF Terminal
<1> QED
  BY <1>1, <1>6 DEF FdInv, Unchanged

LEMMA FdNext ==
  ASSUME FdInv, [Next]_vars
  PROVE  FdInv'
<1>1. CASE UNCHANGED <<fds, out_save, in_save, line, argv>> /\
           \/ pc' = pc \/ pc' \in {"exited", "corrupt"}
           \/ pc \in {"run", "parent", "waitpid"} /\ pc' \in {"parent", "waitpid", "restore"}
  BY <1>1 DEF FdInv, Saved, Kept, Unchanged, OutIsSet, InIsSet
<1>2. CASE Exit \/ ForkFails \/ RunBuiltin \/ WaitNext \/ Parent \/ WaitForeground \/ CtrlC \/ CtrlZ
  BY <1>1, <1>2 DEF Exit, ForkFails, RunBuiltin, WaitNext, Parent, WaitForeground, CtrlC, CtrlZ
<1>3. CASE \E p \in Pids : Fork(p) \/ ChildStarts(p) \/ ChildEnds(p)
  BY <1>1, <1>3 DEF Fork, ChildStarts, ChildEnds
<1>4. CASE \E l \in Lines : ReadLine(l)
  BY <1>4 DEF ReadLine, FdInv, Unchanged
<1>5. CASE UNCHANGED vars
  BY <1>1, <1>5 DEF vars
<1> QED
  BY <1>2, <1>3, <1>4, <1>5, RedirectOutKeeps, RedirectInKeeps, RestoreKeeps DEF Next, ShellStep

(* A command finds its standard descriptors as its line says, and at the   *)
(* next prompt the shell has its own back, with nothing else open,         *)
(* whichever of the files could be opened (the redirections of shell()).   *)
THEOREM DescriptorsReturn == Spec => []DescriptorsInPlace
<1>1. FdInv => DescriptorsInPlace
  BY DEF FdInv, DescriptorsInPlace, Unchanged, OutIsSet, InIsSet
<1> QED
  BY <1>1, FdInit, FdNext, PTL DEF Spec
=============================================================================
