-------------------------------- MODULE Proc --------------------------------
(***************************************************************************)
(* Processes: kernel/proc/proc.c, the process side of kernel/proc/fork.c   *)
(* and kernel/proc/kthread.c, the boot sequence of kernel/main/kmain.c and *)
(* the cancellation checks of kernel/api/syscall.c.                        *)
(*                                                                         *)
(* A process has one thread.  Threads are not preempted, so a step is the  *)
(* code between two calls that may sleep.  The scheduler is taken from     *)
(* module Sched as what it promises: any runnable thread may be dispatched *)
(* next.  Exit statuses, names, files and memory are left out; of a wait   *)
(* queue only which thread is on it matters, since a process's p_wait has  *)
(* at most its own thread on it.  Lists that are searched for any element  *)
(* with a property are sets.                                               *)
(***************************************************************************)
EXTENDS Integers

CONSTANTS
  Procs,           \* proc_t slots of the slab allocator
  Idle, InitProc, Pageoutd,   \* the slots of the first three processes
  PROC_MAX_COUNT,  \* the number of pids
  CleanupBlocks,   \* whether closing files and freeing memory may sleep
  Null

ASSUME ProcConstants ==
  /\ {Idle, InitProc, Pageoutd} \subseteq Procs
  /\ Idle # InitProc /\ Idle # Pageoutd /\ InitProc # Pageoutd
  /\ PROC_MAX_COUNT \in Nat /\ PROC_MAX_COUNT > 2
  /\ CleanupBlocks \in BOOLEAN
  /\ Null \notin Procs

VARIABLES
  curproc,       \* the current process; Null while sched_switch has none
  p_state, p_pid, p_pproc, p_children,
  next_pid,
  proc_initproc,
  kt_state, kt_cancelled,
  queue,         \* per thread, the kind of queue it is on
  pc,            \* per thread, the code it is in
  arg,           \* per thread, do_waitpid's tmp_proc, Null for pid -1
  fault          \* "none", a failed KASSERT, or a thread freed while in use

procVars == <<p_state, p_pid, p_pproc, p_children, next_pid, proc_initproc>>
threadVars == <<kt_state, kt_cancelled, queue, pc, arg>>
vars == <<curproc, procVars, threadVars, fault>>

PID_IDLE == 0
PID_INIT == 1
PID_PAGEOUTD == 2   \* a literal in proc_kill_all

Listed == {p \in Procs : p_state[p] # "FREE"}   \* _proc_list

\* curproc executes at the given place.
At(place) == fault = "none" /\ curproc # Null /\ pc[curproc] = place

(***************************************************************************)
(* Creation                                                                *)
(***************************************************************************)

UsedPids == {p_pid[p] : p \in Listed}

\* A variant that trusts next_pid.
proc_getid_NoCheck == next_pid

\* The first unused pid from next_pid on, cyclically, or -1.
proc_getid ==
  LET pid(k) == (next_pid + k) % PROC_MAX_COUNT
      free == {k \in 0..(PROC_MAX_COUNT - 1) : pid(k) \notin UsedPids}
  IN  IF free = {} THEN -1
      ELSE pid(CHOOSE k \in free : \A j \in free : k <= j)

KASSERT(cond) == fault' = IF cond THEN "none" ELSE "kassert"

\* proc_create's KASSERTs: pid 0 is only for the first process and pid 1 only for
\* a child of the idle process.
PidAllowed ==
  /\ proc_getid # PID_IDLE
  /\ proc_getid = PID_INIT => p_pid[curproc] = PID_IDLE

\* A new child of curproc in slot c; the caller checks the KASSERTs.
proc_create(c) ==
  LET pid == proc_getid
  IN  /\ p_state[c] = "FREE"
      /\ p_state' = [p_state EXCEPT ![c] = "RUNNING"]
      /\ p_pid' = [p_pid EXCEPT ![c] = pid]
      /\ p_pproc' = [p_pproc EXCEPT ![c] = curproc]
      /\ p_children' = [p_children EXCEPT ![c] = {}, ![curproc] = @ \cup {c}]
      /\ next_pid' = IF pid = -1 THEN next_pid ELSE (pid + 1) % PROC_MAX_COUNT
      /\ proc_initproc' = IF pid = PID_INIT THEN c ELSE proc_initproc

\* The thread of the new process c, on q; its creator goes on at next.
NewThread(c, state, place, q, next) ==
  /\ kt_state' = [kt_state EXCEPT ![c] = state]
  /\ kt_cancelled' = [kt_cancelled EXCEPT ![c] = FALSE]
  /\ queue' = [queue EXCEPT ![c] = q]
  /\ pc' = [pc EXCEPT ![c] = place, ![curproc] = next]
  /\ UNCHANGED <<arg, curproc>>

\* do_fork; kthread_clone copies kt_state, which it KASSERTs to be KT_RUN, and
\* kt_cancelled, which syscall_handler has found clear.
do_fork(c) ==
  /\ At("user")
  /\ ~kt_cancelled[curproc]
  /\ proc_create(c)
  /\ KASSERT(PidAllowed /\ kt_state[curproc] = "RUN")
  /\ NewThread(c, kt_state[curproc], "user", "run", "user")

(***************************************************************************)
(* do_waitpid                                                              *)
(***************************************************************************)

\* Entry: -ECHILD without children or for a pid that is not a child's, which
\* changes nothing.  child is the search's tmp_proc, Null for pid -1.
do_waitpid(child) ==
  /\ At("user")
  /\ ~kt_cancelled[curproc]
  /\ p_children[curproc] # {}
  /\ child \in p_children[curproc] \cup {Null}
  /\ pc' = [pc EXCEPT ![curproc] = "waitpid"]
  /\ arg' = [arg EXCEPT ![curproc] = child]
  /\ UNCHANGED <<curproc, procVars, kt_state, kt_cancelled, queue, fault>>

Exited(c) == c \in p_children[curproc] /\ p_state[c] = "DEAD" /\ arg[curproc] \in {c, Null}

\* Dispose of the dead child c and of its thread.  If that thread has not left
\* the CPU for good, what happens when it runs again is undefined: the model
\* stops there.  The idle process KASSERTs that the child was init.
WaitpidReap(c) ==
  /\ At("waitpid")
  /\ Exited(c)
  /\ p_state' = [p_state EXCEPT ![c] = "FREE"]
  /\ p_pid' = [p_pid EXCEPT ![c] = -1]
  /\ p_pproc' = [p_pproc EXCEPT ![c] = Null]
  /\ p_children' = [p_children EXCEPT ![curproc] = @ \ {c}, ![c] = {}]
  /\ kt_state' = [kt_state EXCEPT ![c] = "NO_STATE"]
  /\ kt_cancelled' = [kt_cancelled EXCEPT ![c] = FALSE]
  /\ queue' = [queue EXCEPT ![c] = "none"]
  /\ pc' = [pc EXCEPT ![c] = "none",
                      ![curproc] = IF curproc = Idle THEN "shutdown" ELSE "user"]
  /\ arg' = [arg EXCEPT ![curproc] = Null]
  /\ fault' = IF pc[c] # "exited" THEN "freed"
              ELSE IF curproc = Idle /\ p_pid[c] # PID_INIT THEN "kassert"
              ELSE "none"
  /\ UNCHANGED <<curproc, next_pid, proc_initproc>>

\* curproc's thread sleeps on a queue of kind q; sched_switch.
Sleep(q, state) ==
  /\ queue' = [queue EXCEPT ![curproc] = q]
  /\ kt_state' = [kt_state EXCEPT ![curproc] = state]
  /\ curproc' = Null

WaitpidSleep ==
  /\ At("waitpid")
  /\ \A c \in Procs : ~Exited(c)
  /\ Sleep("p_wait", "SLEEP")
  /\ UNCHANGED <<procVars, kt_cancelled, pc, arg, fault>>

(***************************************************************************)
(* Exit                                                                    *)
(***************************************************************************)

\* Variants of proc_cleanup's parts: children keep their dead parent; the
\* parent is not woken.
Reparent_None == UNCHANGED <<p_pproc, p_children>>
WakeParent_Never == UNCHANGED <<kt_state, queue>>

\* The children go to init.  They are linked into its list without being
\* unlinked from curproc's, whose head is left as it was.
Reparent ==
  LET kids == p_children[curproc]
  IN  /\ p_pproc' = [p \in Procs |-> IF p \in kids THEN proc_initproc ELSE p_pproc[p]]
      /\ p_children' = [p_children EXCEPT ![proc_initproc] = @ \cup kids]

\* kthread_exit and proc_cleanup up to the calls that may sleep.
ExitStart ==
  /\ p_state' = [p_state EXCEPT ![curproc] = "DEAD"]
  /\ Reparent
  /\ pc' = [pc EXCEPT ![curproc] = "cleanup"]
  /\ fault' = IF p_pid[curproc] >= 1 THEN "none" ELSE "kassert"
  /\ UNCHANGED <<curproc, p_pid, next_pid, proc_initproc, arg>>

\* Closing a file or freeing memory sleeps.
CleanupSleep ==
  /\ CleanupBlocks
  /\ At("cleanup")
  /\ Sleep("io", "SLEEP")
  /\ UNCHANGED <<procVars, kt_cancelled, pc, arg, fault>>

\* If the parent is on its p_wait, broadcast and set KT_EXITED (again).
WakeParent ==
  LET parent == p_pproc[curproc]
  IN  IF queue[parent] = "p_wait"
      THEN /\ queue' = [queue EXCEPT ![parent] = "run"]
           /\ kt_state' = [kt_state EXCEPT ![parent] = "RUN", ![curproc] = "EXITED"]
      ELSE UNCHANGED <<kt_state, queue>>

\* The end of proc_cleanup, which KASSERTs KT_EXITED, and sched_switch.
CleanupEnd ==
  /\ At("cleanup")
  /\ WakeParent
  /\ pc' = [pc EXCEPT ![curproc] = "exited"]
  /\ fault' = IF kt_state'[curproc] = "EXITED" THEN "none" ELSE "kassert"
  /\ curproc' = Null
  /\ UNCHANGED <<procVars, kt_cancelled, arg>>

\* SYS_exit and SYS_thr_exit.  By proc_cleanup's contract init has no children
\* left when it exits.
do_exit ==
  /\ At("user")
  /\ ~kt_cancelled[curproc]
  /\ curproc = proc_initproc => p_children[curproc] = {}
  /\ ExitStart
  /\ kt_state' = [kt_state EXCEPT ![curproc] = "EXITED"]
  /\ UNCHANGED <<kt_cancelled, queue>>

\* syscall_handler ends a cancelled thread before and after every system call.
SyscallCancelled ==
  /\ At("user")
  /\ kt_cancelled[curproc]
  /\ ExitStart
  /\ kt_state' = [kt_state EXCEPT ![curproc] = "EXITED"]
  /\ UNCHANGED <<kt_cancelled, queue>>

(***************************************************************************)
(* proc_kill_all (sys_halt)                                                *)
(***************************************************************************)

Spared(p) == p_pid[p] \in {PID_IDLE, PID_INIT, PID_PAGEOUTD}

\* kthread_cancel each other process's thread: set kt_cancelled, and put a
\* thread in KT_SLEEP_CANCELLABLE on the run queue.  Then exit, unless spared.
proc_kill_all ==
  LET others == {p \in Listed \ {curproc} : ~Spared(p)}
  IN  /\ At("user")
      /\ ~kt_cancelled[curproc]
      /\ kt_cancelled' = [p \in Procs |-> p \in others \/ kt_cancelled[p]]
      /\ queue' = [p \in Procs |->
                     IF p \in others /\ kt_state[p] = "SLEEP_CANCELLABLE"
                     THEN "run" ELSE queue[p]]
      /\ \/ /\ Spared(curproc)
            /\ UNCHANGED <<curproc, procVars, kt_state, pc, arg, fault>>
         \/ /\ ~Spared(curproc)
            /\ ExitStart
            /\ kt_state' = [kt_state EXCEPT ![curproc] = "EXITED"]

(***************************************************************************)
(* Boot: idleproc_run                                                      *)
(***************************************************************************)

initproc_create ==
  /\ At("boot")
  /\ proc_create(InitProc)
  /\ KASSERT(PidAllowed /\ proc_getid = PID_INIT)
  /\ NewThread(InitProc, "NO_STATE", "user", "none", "init_call_all")

\* init_call_all runs pageoutd_init.
pageoutd_init ==
  /\ At("init_call_all")
  /\ proc_create(Pageoutd)
  /\ KASSERT(PidAllowed)
  /\ NewThread(Pageoutd, "NO_STATE", "pageoutd_run", "run", "mknod")

\* After the file system calls: make init runnable and wait for it.
RunInit ==
  /\ At("mknod")
  /\ queue' = [queue EXCEPT ![InitProc] = "run"]
  /\ pc' = [pc EXCEPT ![Idle] = "waitpid"]
  /\ UNCHANGED <<curproc, procVars, kt_state, kt_cancelled, arg, fault>>

\* pageoutd found nothing to do: it sleeps until it is cancelled, after
\* shutdown.
PageoutdSleep ==
  /\ At("pageoutd_run")
  /\ Sleep("pageoutd_waitq", "SLEEP_CANCELLABLE")
  /\ UNCHANGED <<procVars, kt_cancelled, pc, arg, fault>>

(***************************************************************************)
(* The scheduler, and all else that a thread may sleep for                 *)
(***************************************************************************)

Dispatch(p) ==
  /\ fault = "none"
  /\ curproc = Null
  /\ queue[p] = "run"
  /\ queue' = [queue EXCEPT ![p] = "none"]
  /\ curproc' = p
  /\ UNCHANGED <<procVars, kt_state, kt_cancelled, pc, arg, fault>>

\* Some other system call sleeps, cancellably (a terminal) or not (a disk).
Block(state) ==
  /\ At("user") \/ At("mknod") \/ At("pageoutd_run")
  /\ ~kt_cancelled[curproc]
  /\ pc[curproc] # "user" => state = "SLEEP"
  /\ Sleep("io", state)
  /\ UNCHANGED <<procVars, kt_cancelled, pc, arg, fault>>

thr_yield ==
  /\ At("user")
  /\ ~kt_cancelled[curproc]
  /\ queue' = [queue EXCEPT ![curproc] = "run"]
  /\ curproc' = Null
  /\ UNCHANGED <<procVars, kt_state, kt_cancelled, pc, arg, fault>>

\* A variant that leaves kt_state as it was.
Wakeup_KeepState(p) ==
  /\ fault = "none"
  /\ queue[p] = "io"
  /\ queue' = [queue EXCEPT ![p] = "run"]
  /\ UNCHANGED <<curproc, procVars, kt_state, kt_cancelled, pc, arg, fault>>

\* What p sleeps for on a device or a lock happens.
Wakeup(p) ==
  /\ fault = "none"
  /\ queue[p] = "io"
  /\ queue' = [queue EXCEPT ![p] = "run"]
  /\ kt_state' = [kt_state EXCEPT ![p] = "RUN"]
  /\ UNCHANGED <<curproc, procVars, kt_cancelled, pc, arg, fault>>

\* The machine has halted or panicked.
Stopped ==
  /\ fault # "none" \/ pc[Idle] = "shutdown"
  /\ UNCHANGED vars

Init ==
  /\ curproc = Idle
  /\ p_state = [p \in Procs |-> IF p = Idle THEN "RUNNING" ELSE "FREE"]
  /\ p_pid = [p \in Procs |-> IF p = Idle THEN PID_IDLE ELSE -1]
  /\ p_pproc = [p \in Procs |-> Null]
  /\ p_children = [p \in Procs |-> {}]
  /\ next_pid = 1
  /\ proc_initproc = Null
  /\ kt_state = [p \in Procs |-> IF p = Idle THEN "RUN" ELSE "NO_STATE"]
  /\ kt_cancelled = [p \in Procs |-> FALSE]
  /\ queue = [p \in Procs |-> "none"]
  /\ pc = [p \in Procs |-> IF p = Idle THEN "boot" ELSE "none"]
  /\ arg = [p \in Procs |-> Null]
  /\ fault = "none"

Next ==
  \/ initproc_create \/ pageoutd_init \/ RunInit \/ PageoutdSleep
  \/ \E c \in Procs : do_fork(c)
  \/ \E c \in Procs \cup {Null} : do_waitpid(c)
  \/ \E c \in Procs : WaitpidReap(c)
  \/ WaitpidSleep
  \/ do_exit \/ SyscallCancelled \/ CleanupSleep \/ CleanupEnd
  \/ proc_kill_all
  \/ \E p \in Procs : Dispatch(p)
  \/ \E state \in {"SLEEP", "SLEEP_CANCELLABLE"} : Block(state)
  \/ thr_yield
  \/ \E p \in Procs : Wakeup(p)
  \/ Stopped

Spec == Init /\ [][Next]_vars

(***************************************************************************)
(* Fairness: a runnable thread is dispatched (RunnableRuns of Sched), what *)
(* a thread sleeps for happens, kernel code runs on, and a process does    *)
(* not keep the CPU for ever.                                              *)
(***************************************************************************)

KernelStep ==
  \/ initproc_create \/ pageoutd_init \/ RunInit \/ PageoutdSleep
  \/ \E c \in Procs : WaitpidReap(c)
  \/ WaitpidSleep \/ SyscallCancelled \/ CleanupEnd

Fairness ==
  /\ WF_vars(KernelStep)
  /\ \A p \in Procs : SF_vars(Dispatch(p)) /\ WF_vars(Wakeup(p))
  /\ WF_vars(thr_yield)

FairSpec == Spec /\ Fairness

(***************************************************************************)
(* Properties                                                              *)
(***************************************************************************)

User == Procs \ {Idle, InitProc, Pageoutd}

\* Every variable has its type.
TypeOK ==
  /\ curproc \in Procs \cup {Null}
  /\ p_state \in [Procs -> {"FREE", "RUNNING", "DEAD"}]
  /\ p_pid \in [Procs -> -1..(PROC_MAX_COUNT - 1)]
  /\ p_pproc \in [Procs -> Procs \cup {Null}]
  /\ p_children \in [Procs -> SUBSET Procs]
  /\ next_pid \in 0..(PROC_MAX_COUNT - 1)
  /\ proc_initproc \in Procs \cup {Null}
  /\ kt_state \in [Procs -> {"NO_STATE", "RUN", "SLEEP", "SLEEP_CANCELLABLE", "EXITED"}]
  /\ kt_cancelled \in [Procs -> BOOLEAN]
  /\ queue \in [Procs -> {"none", "run", "p_wait", "io", "pageoutd_waitq"}]
  /\ pc \in [Procs -> {"none", "boot", "init_call_all", "mknod", "shutdown",
                       "pageoutd_run", "user", "waitpid", "cleanup", "exited"}]
  /\ arg \in [Procs -> Procs \cup {Null}]
  /\ fault \in {"none", "kassert", "freed"}

\* No two processes have the same pid, however often the pids have wrapped
\* around; a process that got -1 for want of a pid is excepted.
PidsUnique ==
  \A p, q \in Listed : p_pid[p] = p_pid[q] /\ p_pid[p] # -1 => p = q

\* p_pproc and the running processes' p_children agree, and nobody's parent is
\* dead: proc_cleanup leaves no child behind, zombies included.
FamilyConsistent ==
  /\ \A p \in Listed \ {Idle} :
       /\ p_pproc[p] \in Procs
       /\ p_state[p_pproc[p]] = "RUNNING"
       /\ p \in p_children[p_pproc[p]]
  /\ \A p \in Procs : p_state[p] = "RUNNING" =>
       \A c \in p_children[p] : c \in Listed /\ p_pproc[c] = p

\* When init has exited no process is left but the idle process and pageoutd,
\* so that final_shutdown finds the system quiet.
InitLast ==
  pc[InitProc] \in {"cleanup", "exited"} => \A p \in User : p_state[p] = "FREE"

\* The exit of a child is not missed: no process sleeps in do_waitpid while a
\* child it waits for is a zombie.  Init waiting for any child is excepted.
NoMissedExit ==
  \A p, c \in Procs :
    /\ queue[p] = "p_wait"
    /\ c \in p_children[p]
    /\ pc[c] = "exited"
    => arg[p] \notin {c, Null} \/ (p = proc_initproc /\ arg[p] = Null)

\* A cleanup of c has slept and is not over: KT_EXITED is gone.
SleptCleanup(c) == pc[c] = "cleanup" /\ kt_state[c] # "EXITED"

\* No KASSERT of the process code fails and no process is freed while its thread
\* still has code to run, but in two cases.  A cleanup has slept: its thread is
\* woken into KT_RUN, and its parent may find the process dead before it has
\* finished.  Or init forks before it has ever slept: only a wakeup puts a thread
\* into the KT_RUN that kthread_clone asks for, and all forked ones inherit it.
NoFault ==
  [][fault = "none" /\ fault' # "none" =>
       \/ SleptCleanup(curproc)
       \/ pc[curproc] = "waitpid" /\ \E c \in p_children[curproc] : SleptCleanup(c)
       \/ curproc = InitProc /\ pc[InitProc] = "user" /\ kt_state[InitProc] = "NO_STATE"]_vars

\* After proc_kill_all every cancelled process exits, whatever it sleeps for.
HaltKills ==
  \A p \in Procs : kt_cancelled[p] ~> p_state[p] # "RUNNING"

\* A process that waits for a child which has exited gets to dispose of it.
WaitReturns ==
  \A c \in Procs :
    p_state[c] = "DEAD" /\ (\E p \in Procs : pc[p] = "waitpid" /\ arg[p] = c)
      ~> p_state[c] = "FREE"

\* When init exits the idle process shuts the system down.
InitExitHalts == p_state[InitProc] = "DEAD" ~> pc[Idle] = "shutdown"
=============================================================================
