------------------------------- MODULE Shell --------------------------------
(***************************************************************************)
(* The shell of hw1/src: shell.c over parse.c and io.c.  It reads a line,  *)
(* redirects its own standard descriptors, runs a builtin or forks a child *)
(* for the command, waits for the child or puts its pid into a table, and  *)
(* takes its descriptors back.  The kernel is modelled as far as the shell *)
(* sees it: its descriptor table, its children until they are waited for,  *)
(* and the signals of the terminal, which go to all of them alike.         *)
(*                                                                         *)
(* A line is the sequence of its words (get_toks).  What a builtin or a    *)
(* program prints, and the working directory, are left out.                *)
(***************************************************************************)
EXTENDS Integers, SequencesExt

CONSTANTS
  Lines,       \* what the user types
  Writable,    \* the file names that open() can create or truncate
  Readable,    \* the file names that it can read
  Programs,    \* the commands that are found, as they are or along PATH
  Pids,
  TableSize,   \* 1024
  NULL

ASSUME ShellAssumption ==
  /\ TableSize \in Nat
  /\ NULL \notin Pids \cup Writable \cup Readable
  /\ "closed" \notin Writable \cup Readable   \* a mark, and no file name

VARIABLES
  pc,          \* where the shell is; "exited", and "corrupt" when it has
               \*   written beyond its table
  line,        \* the words of the line
  argv,        \* tokens, as far as they are not set to NULL
  fds,         \* the descriptor table
  out_save, in_save,  \* stdout_save and stdin_save, -1 unless changeOut, changeIn
  isBack,
  cpid,        \* the foreground child, or the one just forked
  table,       \* pid_in_wait_array, as long as len_pid_queue
  i,           \* local to cmd_wait
  proc,        \* the children: "none", "forked" (before exec), "lost" (nothing to
               \*   exec), "run", "stopped" or "zombie"
  ignoring     \* the shell ignores the signals of the terminal

vars == <<pc, line, argv, fds, out_save, in_save, isBack, cpid, table, i, proc, ignoring>>

Builtins == {"?", "quit", "pwd", "cd", "wait"}

Closed    == "closed"
Terminal  == [fd \in 0 .. 5 |-> IF fd <= 2 THEN "terminal" ELSE Closed]

-----------------------------------------------------------------------------
(* isThereFileDirection: the words from the first sign on are set to NULL, *)
(* all of them, and the one after it names the file.                       *)
Sign(toks, sign) == SelectInSeq(toks, LAMBDA w : w = sign)
FileOf(toks, sign) ==
  IF Sign(toks, sign) \in 1 .. Len(toks) - 1 THEN toks[Sign(toks, sign) + 1] ELSE NULL
Before(toks, sign) ==
  IF Sign(toks, sign) = 0 THEN toks ELSE SubSeq(toks, 1, Sign(toks, sign) - 1)

(* The lowest free descriptor, which open() and dup() return.              *)
Free(t) == CHOOSE fd \in DOMAIN t : t[fd] = Closed /\ \A e \in 0 .. fd - 1 : t[e] # Closed

(* open, dup, dup2, close: the table in which std is file, and where its   *)
(* old target is kept.  When open fails, dup2 and close fail as well.      *)
Opened(t, file)  == IF file = NULL THEN t ELSE [t EXCEPT ![Free(t)] = file]
Redirected(t, file, std) ==
  LET kept == [Opened(t, file) EXCEPT ![Free(Opened(t, file))] = t[std]] IN
  IF file = NULL THEN kept ELSE [kept EXCEPT ![std] = file, ![Free(t)] = Closed]

(* Mutant of Restored: the copy is not closed.                             *)
RestoredOpen(t, save, std) ==
  IF save = -1 THEN t ELSE [t EXCEPT ![std] = t[save]]

(* dup2 and close, at the end of the loop.                                 *)
Restored(t, save, std) ==
  IF save = -1 THEN t ELSE [t EXCEPT ![std] = t[save], ![save] = Closed]

-----------------------------------------------------------------------------
Init ==
  /\ pc = "prompt"
  /\ line = << >> /\ argv = << >>
  /\ fds = Terminal
  /\ out_save = -1 /\ in_save = -1
  /\ isBack = FALSE
  /\ cpid = NULL
  /\ table = << >>
  /\ i = 1
  /\ proc = [p \in Pids |-> "none"]
  /\ ignoring = FALSE

(* freadln and get_toks.                                                   *)
ReadLine(l) ==
  /\ pc = "prompt"
  /\ line' = l
  /\ argv' = l
  /\ pc' = "out"
  /\ UNCHANGED <<fds, out_save, in_save, isBack, cpid, table, i, proc, ignoring>>

(* End of file, or the builtin quit: it looks at the first word only, and  *)
(* before the redirection.                                                 *)
Exit ==
  /\ pc = "prompt" \/ (pc = "run" /\ line # << >> /\ line[1] = "quit")
  /\ pc' = "exited"
  /\ UNCHANGED <<line, argv, fds, out_save, in_save, isBack, cpid, table, i, proc, ignoring>>

RedirectOut ==
  /\ pc = "out"
  /\ pc' = "in"
  /\ argv' = Before(argv, ">")
  /\ IF Sign(argv, ">") = 0 THEN UNCHANGED <<fds, out_save>>
     ELSE LET name == FileOf(argv, ">")
              file == IF name \in Writable THEN name ELSE NULL
          IN fds' = Redirected(fds, file, 1) /\ out_save' = Free(Opened(fds, file))
  /\ UNCHANGED <<line, in_save, isBack, cpid, table, i, proc, ignoring>>

RedirectIn ==
  /\ pc = "in"
  /\ pc' = "run"
  /\ argv' = Before(Before(argv, "<"), "&")
  /\ isBack' = (Sign(Before(argv, "<"), "&") # 0)
  /\ IF Sign(argv, "<") = 0 THEN UNCHANGED <<fds, in_save>>
     ELSE LET name == FileOf(argv, "<")
              file == IF name \in Readable THEN name ELSE NULL
          IN fds' = Redirected(fds, file, 0) /\ in_save' = Free(Opened(fds, file))
  /\ UNCHANGED <<line, out_save, cpid, table, i, proc, ignoring>>

IsBuiltin == line # << >> /\ line[1] \in Builtins

(* cmd_help, cmd_pwd, cmd_cd.                                              *)
RunBuiltin ==
  /\ pc = "run"
  /\ IsBuiltin /\ line[1] \notin {"quit", "wait"}
  /\ pc' = "restore"
  /\ UNCHANGED <<line, argv, fds, out_save, in_save, isBack, cpid, table, i, proc, ignoring>>

Reap(p) == proc' = [proc EXCEPT ![p] = "none"]

(* Mutant of WaitNext: the table is not emptied.                           *)
WaitNextKeep ==
  /\ pc = "run"
  /\ IsBuiltin /\ line[1] = "wait"
  /\ \/ /\ i <= Len(table)
        /\ proc[table[i]] \in {"none", "zombie"}
        /\ Reap(table[i])
        /\ i' = i + 1
        /\ UNCHANGED pc
     \/ /\ i > Len(table)
        /\ i' = 1
        /\ pc' = "restore"
        /\ UNCHANGED proc
  /\ UNCHANGED <<line, argv, fds, out_save, in_save, isBack, cpid, table, ignoring>>

(* Mutant of WaitNext: the loop does not come to the next pid.             *)
WaitNextSame ==
  /\ pc = "run"
  /\ IsBuiltin /\ line[1] = "wait"
  /\ \/ /\ i <= Len(table)
        /\ proc[table[i]] \in {"none", "zombie"}
        /\ Reap(table[i])
        /\ UNCHANGED <<i, table, pc>>
     \/ /\ i > Len(table)
        /\ table' = << >>
        /\ i' = 1
        /\ pc' = "restore"
        /\ UNCHANGED proc
  /\ UNCHANGED <<line, argv, fds, out_save, in_save, isBack, cpid, ignoring>>

(* cmd_wait: one pid of the table after the other.  (waitpid does not wait *)
(* for a pid that is not, or is no longer, a child.)                       *)
WaitNext ==
  /\ pc = "run"
  /\ IsBuiltin /\ line[1] = "wait"
  /\ \/ /\ i <= Len(table)
        /\ proc[table[i]] \in {"none", "zombie"}
        /\ Reap(table[i])
        /\ i' = i + 1
        /\ UNCHANGED <<table, pc>>
     \/ /\ i > Len(table)
        /\ table' = << >>
        /\ i' = 1
        /\ pc' = "restore"
        /\ UNCHANGED proc
  /\ UNCHANGED <<line, argv, fds, out_save, in_save, isBack, cpid, ignoring>>

(* get_multiplePath and isExecutable.  (A child that has no command at all *)
(* dies of strlen(NULL).)                                                  *)
Found(toks) == toks # << >> /\ toks[1] \in Programs

(* Whatever is no builtin, the empty line included, is run by a child; the *)
(* shell does not outlive a fork that fails.                               *)
Fork(p) ==
  /\ pc = "run" /\ ~IsBuiltin
  /\ proc[p] = "none"
  /\ proc' = [proc EXCEPT ![p] = IF Found(argv) THEN "forked" ELSE "lost"]
  /\ cpid' = p
  /\ pc' = "parent"
  /\ UNCHANGED <<line, argv, fds, out_save, in_save, isBack, table, i, ignoring>>

ForkFails ==
  /\ pc = "run" /\ ~IsBuiltin
  /\ pc' = "exited"
  /\ UNCHANGED <<line, argv, fds, out_save, in_save, isBack, cpid, table, i, proc, ignoring>>

(* The parent ignores the signals from now on, and waits, or puts the pid  *)
(* into the table without a look at its size.                              *)
Parent ==
  /\ pc = "parent"
  /\ ignoring' = TRUE
  /\ \/ ~isBack /\ pc' = "waitpid" /\ UNCHANGED <<cpid, table>>
     \/ /\ isBack /\ Len(table) < TableSize
        /\ table' = Append(table, cpid)
        /\ cpid' = NULL
        /\ pc' = "restore"
     \/ /\ isBack /\ Len(table) >= TableSize
        /\ pc' = "corrupt"
        /\ UNCHANGED <<cpid, table>>
  /\ UNCHANGED <<line, argv, fds, out_save, in_save, isBack, i, proc>>

(* waitpid, without WUNTRACED: it returns when the child has ended.        *)
WaitForeground ==
  /\ pc = "waitpid"
  /\ proc[cpid] = "zombie"
  /\ Reap(cpid)
  /\ cpid' = NULL
  /\ pc' = "restore"
  /\ UNCHANGED <<line, argv, fds, out_save, in_save, isBack, table, i, ignoring>>

Restore ==
  /\ pc = "restore"
  /\ fds' = Restored(Restored(fds, out_save, 1), in_save, 0)
  /\ out_save' = -1 /\ in_save' = -1
  /\ isBack' = FALSE
  /\ line' = << >> /\ argv' = << >>
  /\ pc' = "prompt"
  /\ UNCHANGED <<cpid, table, i, proc, ignoring>>

-----------------------------------------------------------------------------
(* The children.  A new one takes the default actions of the signals back  *)
(* and becomes the program.                                                *)
ChildStarts(p) ==
  /\ proc[p] = "forked"
  /\ proc' = [proc EXCEPT ![p] = "run"]
  /\ UNCHANGED <<pc, line, argv, fds, out_save, in_save, isBack, cpid, table, i, ignoring>>

ChildEnds(p) ==
  /\ proc[p] \in {"run", "lost"}
  /\ proc' = [proc EXCEPT ![p] = "zombie"]
  /\ UNCHANGED <<pc, line, argv, fds, out_save, in_save, isBack, cpid, table, i, ignoring>>

(* The signals of the terminal: they reach every process of its group, the *)
(* children in the background too.  (Before its first child the shell      *)
(* itself stops on Ctrl-Z, until it is continued: nothing changes.)        *)
Hit(p) == proc[p] \in {"run", "lost"} \/ (proc[p] = "forked" /\ ~ignoring)

Running == pc \notin {"exited", "corrupt"}

CtrlC ==
  /\ Running
  /\ proc' = [p \in Pids |-> IF Hit(p) THEN "zombie" ELSE proc[p]]
  /\ pc' = IF ignoring THEN pc ELSE "exited"
  /\ UNCHANGED <<line, argv, fds, out_save, in_save, isBack, cpid, table, i, ignoring>>

CtrlZ ==
  /\ Running /\ ignoring
  /\ proc' = [p \in Pids |-> IF Hit(p) THEN "stopped" ELSE proc[p]]
  /\ UNCHANGED <<pc, line, argv, fds, out_save, in_save, isBack, cpid, table, i, ignoring>>

-----------------------------------------------------------------------------
ShellStep ==
  \/ RedirectOut \/ RedirectIn
  \/ RunBuiltin \/ WaitNext
  \/ \E p \in Pids : Fork(p)
  \/ ForkFails
  \/ Parent \/ WaitForeground
  \/ Restore

Next ==
  \/ \E l \in Lines : ReadLine(l)
  \/ Exit
  \/ ShellStep
  \/ \E p \in Pids : ChildStarts(p) \/ ChildEnds(p)
  \/ CtrlC \/ CtrlZ

Spec == Init /\ [][Next]_vars

(* Fairness: the shell runs, and so do its children, whose programs end.   *)
Fairness ==
  /\ WF_vars(ShellStep) /\ WF_vars(Exit /\ pc = "run")
  /\ \A p \in Pids : WF_vars(ChildStarts(p)) /\ WF_vars(ChildEnds(p))

FairSpec == Spec /\ Fairness

-----------------------------------------------------------------------------
(* What a line asks of a descriptor: the file after the first sign, if it  *)
(* can be opened; the "<" of a line that has a ">" must stand before it.   *)
Wanted(toks, sign, files) ==
  IF FileOf(toks, sign) \in files THEN FileOf(toks, sign) ELSE "terminal"

(* A command finds its descriptors as the line says, and the shell has its *)
(* own back at the next prompt, whichever of the files could be opened     *)
(* (the open, dup, dup2, close and dup2, close of shell()).                *)
DescriptorsInPlace ==
  /\ pc = "prompt" => fds = Terminal
  /\ pc = "run" => /\ fds[1] = Wanted(line, ">", Writable)
                   /\ fds[0] = Wanted(Before(line, ">"), "<", Readable)

(* At the prompt the children that are not waited for are those in the     *)
(* table, each of them once: no zombie is left behind for ever, and wait   *)
(* never waits for a process of another line that got an old pid           *)
(* (cmd_wait, and the waitpid and pid_in_wait_array of shell()).           *)
ChildrenAccounted ==
  pc = "prompt" => /\ {p \in Pids : proc[p] # "none"} = {table[n] : n \in DOMAIN table}
                   /\ IsInjective(table)

(* After every line the shell prompts again, or ends, as long as nobody    *)
(* stops a child: it does not see that one has stopped (waitpid without    *)
(* WUNTRACED).                                                             *)
PromptReturns ==
  [](\A p \in Pids : proc[p] # "stopped") => (pc = "out" ~> pc = "prompt" \/ ~Running)
=============================================================================
