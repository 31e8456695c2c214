------------------------------ MODULE Syscall ------------------------------
(***************************************************************************)
(* System calls as user programs make them: kernel/api/syscall.c and the   *)
(* copies of kernel/api/access.c, around the calls of module Files.        *)
(*                                                                         *)
(* A wrapper is the sequence of what it does to kernel memory: copies in   *)
(* and out, buffers and strings that it allocates and frees, and the call. *)
(* Any copy or allocation may fail.  Wrappers of calls that are not in     *)
(* Files run in one step and the call succeeds or fails.  A thread may be  *)
(* cancelled at any time (module Proc says by whom).                       *)
(***************************************************************************)
EXTENDS Files, Sequences

VARIABLES
  trap,        \* per process, the system call it is in: the rest of the wrapper
               \* and the buffers it has, or Null in user mode
  cancelled,   \* the processes whose thread is cancelled
  kmem         \* what wrappers that are over have left allocated, and whether one
               \* has freed what it did not have

svars == <<vars, trap, cancelled, kmem>>

(***************************************************************************)
(* Wrappers                                                                *)
(***************************************************************************)

\* The steps of wrappers: what is got or freed, whether a failure is noticed
\* and what is freed then.
Copy(freed) == [op |-> "copy", buf |-> "", noticed |-> TRUE, freed |-> freed]
CopyUnnoticed == [op |-> "copy", buf |-> "", noticed |-> FALSE, freed |-> {}]
Alloc(buf) == [op |-> "alloc", buf |-> buf, noticed |-> FALSE, freed |-> {}]
Call(freed) == [op |-> "call", buf |-> "", noticed |-> TRUE, freed |-> freed]
Free(buf) == [op |-> "free", buf |-> buf, noticed |-> FALSE, freed |-> {}]

\* A string is copied from the user; it is freed here if the copy fails.
user_strdup(buf, freed) == [op |-> "dup", buf |-> buf, noticed |-> TRUE, freed |-> freed]

\* The same for a vector of strings, which is there only if the caller gave one.
\* The array itself is taken to be copied: if it is not, what is freed depends on
\* what the new memory held.
user_vecdup(buf, freed) == [op |-> "vec", buf |-> buf, noticed |-> TRUE, freed |-> freed]

\* One step of a wrapper that has come that far; it fails if bad, which ends the
\* wrapper with -1 and an error number.
Step(s, x, bad) ==
  IF s.done THEN s
  ELSE IF bad
  THEN [s EXCEPT !.done = TRUE, !.wrong = @ \/ ~(x.freed \subseteq s.held),
                 !.held = @ \ x.freed]
  ELSE CASE x.op \in {"alloc", "dup", "vec"} -> [s EXCEPT !.held = @ \cup {x.buf}]
         [] x.op = "free" ->
              [s EXCEPT !.wrong = @ \/ x.buf \notin s.held, !.held = @ \ {x.buf}]
         [] OTHER -> s

\* A wrapper with buffers held, up to its first step that fails and is noticed,
\* or to its end if bad is 0.
Run(steps, held, bad) ==
  LET after[i \in 0..Len(steps)] ==
        IF i = 0 THEN [held |-> held, done |-> FALSE, wrong |-> FALSE]
        ELSE Step(after[i - 1], steps[i], i = bad)
  IN  after[Len(steps)]

\* The wrappers up to the call, and from it on.
Before(steps) == Min({i \in DOMAIN steps : steps[i].op = "call"}) - 1
Prefix(steps) == SubSeq(steps, 1, Before(steps))
Suffix(steps) == SubSeq(steps, Before(steps) + 1, Len(steps))

\* Where a wrapper may fail; a failure that nobody notices changes nothing here.
Bad(steps) == {0} \cup {i \in DOMAIN steps : steps[i].noticed}

sys_close == <<Call({})>>
sys_dup == <<Call({})>>
sys_dup2 == <<Copy({}), Call({})>>
sys_lseek == <<Copy({}), Call({})>>
sys_fork == <<Call({})>>
sys_open == <<Copy({}), user_strdup("path", {}), Call({"path"}), Free("path")>>

sys_read == <<CopyUnnoticed, Alloc("page"), Call({"page"}), CopyUnnoticed, Free("page")>>
sys_write ==
  <<CopyUnnoticed, Alloc("page"), CopyUnnoticed, Call({"page"}), Free("page")>>

\* The call and the copy are repeated until the user's buffer is full or
\* do_getdent returns 0.
sys_getdents == <<CopyUnnoticed, Alloc("dirent"), Call({"dirent"}), CopyUnnoticed, Free("dirent")>>

\* The same with no room for a single entry.
sys_getdents_none == <<CopyUnnoticed, Alloc("dirent"), Free("dirent")>>

sys_mkdir == <<Copy({}), user_strdup("path", {}), Call({"path"}), Free("path")>>
sys_rmdir == <<Copy({}), user_strdup("path", {}), Call({"path"}), Free("path")>>
sys_unlink == <<Copy({}), user_strdup("path", {}), Call({"path"}), Free("path")>>
sys_chdir == <<Copy({}), user_strdup("path", {}), Call({"path"}), Free("path")>>
sys_stat ==
  <<Copy({}), user_strdup("path", {}), Call({"path"}), Copy({"path"}), Free("path")>>

\* A variant that keeps the first string if the second cannot be copied.
sys_link_Leak ==
  <<Copy({}), user_strdup("to", {}), user_strdup("from", {}),
    Call({"to", "from"}), Free("to"), Free("from")>>

sys_link ==
  <<Copy({}), user_strdup("to", {}), user_strdup("from", {"to"}),
    Call({"to", "from"}), Free("to"), Free("from")>>

sys_rename ==
  <<Copy({}), user_strdup("oldname", {}), user_strdup("newname", {"oldname"}),
    Call({"newname", "oldname"}), Free("newname"), Free("oldname")>>

sys_munmap == <<Copy({}), Call({})>>
sys_mmap == <<Copy({}), Call({})>>
sys_brk == <<Call({})>>
sys_waitpid == <<Copy({}), Call({}), Copy({})>>
sys_pipe == <<Call({}), Copy({})>>
sys_uname == <<Copy({}), Copy({}), Copy({}), Copy({}), Copy({})>>

\* The vectors are optional: without one there is nothing to free.
sys_execve(argv, envp) ==
  LET vectors == argv \o envp
      freed(n) == {"filename"} \cup {vectors[i] : i \in 1..n}
  IN  <<Copy({}), user_strdup("filename", {})>>
      \o [i \in DOMAIN vectors |-> user_vecdup(vectors[i], freed(i - 1))]
      \o <<Call(freed(Len(vectors))), Free("filename")>>
      \o [i \in DOMAIN vectors |-> Free(vectors[i])]

(***************************************************************************)
(* The trap                                                                *)
(***************************************************************************)

\* A process in user mode.  Threads are not preempted in the kernel: a step goes
\* on until the thread sleeps or returns to user mode.
InUser(p) == Ready(p) /\ trap[p] = Null

\* The wrapper is over, with outcome s.
Ends(s) == kmem' = [left |-> kmem.left \cup s.held, wrong |-> kmem.wrong \/ s.wrong]

\* The outcomes of the wrappers of the calls in Files up to the call.
FileWrappers ==
  {sys_open, sys_close, sys_dup, sys_dup2, sys_lseek, sys_read, sys_write, sys_getdents, sys_fork}
Starts ==
  [steps \in FileWrappers |->
     {Run(Prefix(steps), {}, bad) : bad \in Bad(Prefix(steps))}]

\* The outcomes of the rest of a wrapper, from its call on, that returned res.
Rest(steps, held, res) ==
  {Run(steps, held, bad) : bad \in {b \in Bad(steps) : b = 1 <=> res \notin {"ok", "end"}}}

\* The call that a wrapper makes, with result res.  Wrappers of one shape are equal.
syscall_dispatch(p, steps, res) ==
  \/ /\ steps = sys_open
     /\ \E flags \in Flags, v \in Vnodes \cup {Null} : do_open(p, flags, v, res)
  \/ steps = sys_close /\ \E fd \in Fds : do_close(p, fd, res)
  \/ steps = sys_dup /\ \E fd \in Fds : do_dup(p, fd, res)
  \/ steps = sys_dup2 /\ \E fd \in Fds, nfd \in Fds \cup {NFILES} : do_dup2(p, fd, nfd, res)
  \/ /\ steps = sys_lseek
     /\ \E fd \in Fds, seek \in Seeks : do_lseek(p, fd, seek[1], seek[2], res)
  \/ steps = sys_read /\ \E fd \in Fds, n \in Sizes : do_read(p, fd, n, res)
  \/ steps = sys_write /\ \E fd \in Fds, n \in Sizes : do_write(p, fd, n, res)
  \/ steps = sys_getdents /\ \E fd \in Fds : do_getdent(p, fd, res)
  \/ steps = sys_fork /\ \E child \in Procs : do_fork(p, child, res)

\* The handler's beginning, the wrapper up to its call, and the call; if that does
\* not sleep, the rest of the wrapper too.
syscall_handler(p) ==
  /\ InUser(p)
  /\ \E steps \in FileWrappers : \E s \in Starts[steps] :
       IF s.done THEN Ends(s) /\ UNCHANGED <<vars, trap>>
       ELSE \E res \in Results :
              /\ syscall_dispatch(p, steps, res)
              /\ IF res = "wait"
                 THEN /\ trap' = [trap EXCEPT ![p] = [rest |-> Suffix(steps), held |-> s.held]]
                      /\ UNCHANGED kmem
                 ELSE /\ \E t \in Rest(Suffix(steps), s.held, res) : Ends(t)
                      /\ UNCHANGED trap
  /\ UNCHANGED cancelled

\* The handler's end: a thread that was cancelled exits, another returns to user
\* mode.
handler_end(p) == IF p \in cancelled THEN "exit" ELSE "return"

\* The thread wakes up, the call returns, and so does the wrapper.
Wake(p, k) ==
  /\ \E res \in Results :
       /\ Finish(p, k, res, handler_end(p))
       /\ \E s \in Rest(trap[p].rest, trap[p].held, res) : Ends(s)
  /\ trap' = [trap EXCEPT ![p] = Null]
  /\ cancelled' = cancelled \ {p}

\* sys_getdents calls do_getdent again: the user's buffer is not full yet.
sys_getdents_loop(p, k) ==
  /\ Finish(p, k, "ok", "again")
  /\ io[p].call = "getdent"
  /\ UNCHANGED <<trap, cancelled, kmem>>

\* The wrappers of calls that module Files does not have, and their outcomes.
OtherWrappers ==
  {sys_mkdir, sys_rmdir, sys_unlink, sys_chdir, sys_stat, sys_link, sys_rename, sys_munmap,
   sys_mmap, sys_brk, sys_waitpid, sys_pipe, sys_uname, sys_getdents_none}
  \cup {sys_execve(argv, envp) : argv \in {<<>>, <<"argv">>}, envp \in {<<>>, <<"envp">>}}
Outcomes == UNION {{Run(steps, {}, bad) : bad \in Bad(steps)} : steps \in OtherWrappers}

OtherCall(p) ==
  /\ InUser(p)
  /\ \E s \in Outcomes : Ends(s)
  /\ UNCHANGED <<vars, trap, cancelled>>

\* The thread enters the kernel and was cancelled, or has called exit.
sys_exit(p) == InUser(p) /\ do_exit(p) /\ UNCHANGED <<trap, cancelled, kmem>>

\* The thread is cancelled while it sleeps in a call.  One that is cancelled in user
\* mode exits as it enters the kernel, like one that calls exit.
Cancel(p) ==
  /\ Running(p) /\ p \notin cancelled
  /\ io[p] # Null
  /\ cancelled' = cancelled \cup {p}
  /\ UNCHANGED <<vars, trap, kmem>>

SysInit ==
  /\ Init
  /\ trap = [p \in Procs |-> Null]
  /\ cancelled = {}
  /\ kmem = [left |-> {}, wrong |-> FALSE]

SysNext ==
  \E p \in Procs :
    \/ syscall_handler(p)
    \/ OtherCall(p)
    \/ \E k \in -1..Max(Sizes \cup {1}) : Wake(p, k) \/ sys_getdents_loop(p, k)
    \/ sys_exit(p)
    \/ Cancel(p)

Spec == SysInit /\ [][SysNext]_svars

(***************************************************************************)
(* Properties                                                              *)
(***************************************************************************)

\* Every variable has its type.
TypeOK ==
  /\ FilesTypeOK
  /\ \A p \in Procs : trap[p] # Null => p \in alive /\ trap[p].rest[1].op = "call"
  /\ cancelled \subseteq alive
  /\ kmem.left \subseteq
       {"page", "dirent", "path", "to", "from", "oldname", "newname", "filename", "argv", "envp"}
  /\ kmem.wrong \in BOOLEAN

\* Whatever fails on its way, a wrapper frees each string and buffer it has got
\* exactly once, and nothing it has not got.
BuffersFreed == kmem.left = {} /\ ~kmem.wrong
=============================================================================
