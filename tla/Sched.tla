------------------------------- MODULE Sched -------------------------------
(***************************************************************************)
(* The uniprocessor scheduler, kernel mutexes and thread cancellation of   *)
(* kernel/proc/{sched,sched_helper,kmutex,kthread}.c.                      *)
(*                                                                         *)
(* Kernel threads are not preempted: one thread, curthr, executes until it *)
(* enters sched_switch.  Interrupt handlers run between any two steps      *)
(* while interrupts are enabled and the IPL is low, and wake threads that  *)
(* sleep on device queues.  A step is therefore the code between two       *)
(* points at which an interrupt may matter: the masked section of          *)
(* sched_make_runnable, the idle loop of sched_switch and the window       *)
(* between the test and the removal in sched_cancel are steps of their own.*)
(*                                                                         *)
(* A queue is the sequence of its threads in the order they are dequeued.  *)
(* tq_size, which no modelled code reads, kt_errno and kt_retval are left  *)
(* out.  A KASSERT on the caller's arguments is a guard; the ones on the   *)
(* scheduler's own state are consequences of the invariants below.         *)
(***************************************************************************)
EXTENDS Integers, Sequences

CONSTANTS
  Threads,      \* kthread_t slots
  FirstThread,  \* the idle process's thread, current after bootstrap
  Mutexes,      \* kmutex_t objects; a mutex also names its km_waitq
  SoftQueues,   \* wait queues woken by threads only (p_wait, pf_waitq)
  DevQueues,    \* wait queues woken by interrupt handlers
  Cancellers,   \* threads that may call kthread_cancel on another thread
  RunQ,         \* kt_runq
  Null

ASSUME SchedConstants ==
  /\ FirstThread \in Threads
  /\ Cancellers \subseteq Threads
  /\ Null \notin Threads \cup Mutexes \cup SoftQueues \cup DevQueues
  /\ RunQ \notin Mutexes \cup SoftQueues \cup DevQueues \cup {Null}
  /\ Mutexes \cap SoftQueues = {}
  /\ Mutexes \cap DevQueues = {}
  /\ SoftQueues \cap DevQueues = {}

VARIABLES
  curthr,        \* the current thread
  pc,            \* what the CPU executes
  ipl,           \* the interrupt priority level, "LOW" or "HIGH"
  intr,          \* the interrupt flag
  old_IPL,       \* per thread, the local old_IPL of its sched_switch
  kt_state, kt_cancelled, kt_wchan,
  tq_list,       \* the threads of each queue, next to be dequeued first
  km_holder,
  call,          \* per thread, the blocking call it is to return from
  held,          \* per thread, the mutexes whose lock call returned 0 to it
  mk             \* the locals of sched_cancel, sched_make_runnable and callers

threadVars == <<kt_state, kt_cancelled, kt_wchan>>
clientVars == <<call, held>>
cpuVars == <<curthr, pc, ipl, intr, old_IPL>>
vars == <<cpuVars, threadVars, tq_list, km_holder, clientVars, mk>>

WaitQueues == Mutexes \cup SoftQueues \cup DevQueues
Queues == WaitQueues \cup {RunQ}

States == {"UNUSED", "NO_STATE", "RUN", "SLEEP", "SLEEP_CANCELLABLE", "EXITED"}

\* curthr runs its own code, or is about to be or has been switched away from.
Executing == {"run", "cancel", "mkrun", "broadcast"}
Switching == {"resched", "switch", "idle", "halt", "woken"}

NoCall == [op |-> "plain", mtx |-> Null]
Locals(thr, q) == [thr |-> thr, then |-> "run", q |-> q, ipl |-> "LOW", snap |-> <<>>]
NoMk == Locals(Null, Null)

(***************************************************************************)
(* Queues                                                                  *)
(***************************************************************************)

ktqueue_enqueue(q, thr) ==
  /\ tq_list' = [tq_list EXCEPT ![q] = Append(@, thr)]
  /\ kt_wchan' = [kt_wchan EXCEPT ![thr] = q]

\* The sequence s without its element e.
Unlink(s, e) ==
  LET k == CHOOSE j \in 1..Len(s) : s[j] = e
  IN  [i \in 1..(Len(s) - 1) |-> s[IF i < k THEN i ELSE i + 1]]

ktqueue_dequeue(q) ==
  /\ tq_list' = [tq_list EXCEPT ![q] = Tail(@)]
  /\ kt_wchan' = [kt_wchan EXCEPT ![Head(tq_list[q])] = Null]

ktqueue_remove(q, thr) ==
  /\ tq_list' = [tq_list EXCEPT ![q] = Unlink(@, thr)]
  /\ kt_wchan' = [kt_wchan EXCEPT ![thr] = Null]

(***************************************************************************)
(* sched_make_runnable: the first part masks interrupts and reads the run  *)
(* queue's list head, the second links the thread in and restores the IPL. *)
(* "then" is what the caller goes on to do; "q" the queue it works on.     *)
(***************************************************************************)

sched_make_runnable(thr, then, q) ==
  /\ pc' = "mkrun"
  /\ mk' = [thr |-> thr, then |-> then, q |-> q, ipl |-> ipl,
            snap |-> tq_list'[RunQ]]
  /\ ipl' = "HIGH"

\* Variants: the thread is put where it is dequeued next; kmutex_unlock drops
\* the result of sched_wakeup_on.
LinkedRunQ_Lifo == <<mk.thr>> \o mk.snap
HandOver_Dropped == UNCHANGED km_holder

LinkedRunQ == Append(mk.snap, mk.thr)
HandOver == km_holder' = [km_holder EXCEPT ![mk.q] = mk.thr]

MakeRunnableLink ==
  /\ pc = "mkrun"
  /\ tq_list' = [tq_list EXCEPT ![RunQ] = LinkedRunQ]
  /\ kt_wchan' = [kt_wchan EXCEPT ![mk.thr] = RunQ]
  /\ ipl' = mk.ipl
  /\ \/ /\ mk.then = "run"
        /\ pc' = "run"
        /\ mk' = NoMk
        /\ UNCHANGED km_holder
     \/ /\ mk.then = "unlock"
        /\ HandOver
        /\ pc' = "run"
        /\ mk' = NoMk
     \/ /\ mk.then = "broadcast"
        /\ pc' = "broadcast"
        /\ mk' = Locals(Null, mk.q)
        /\ UNCHANGED km_holder
     \/ /\ mk.then = "resched"
        /\ pc' = "resched"
        /\ mk' = NoMk
        /\ UNCHANGED km_holder
  /\ UNCHANGED <<curthr, intr, old_IPL, kt_state, kt_cancelled, clientVars>>

(***************************************************************************)
(* sched_switch                                                            *)
(***************************************************************************)

\* Entry: save the IPL and mask interrupts.
sched_switch ==
  /\ old_IPL' = [old_IPL EXCEPT ![curthr] = ipl]
  /\ ipl' = "HIGH"
  /\ pc' = "switch"
  /\ UNCHANGED <<curthr, intr, mk>>

\* Variants of the next step: without intr_disable, without lowering the IPL.
IdleDisable_IntrOn ==
  /\ pc = "switch"
  /\ tq_list[RunQ] = <<>>
  /\ ipl' = "LOW"
  /\ pc' = "idle"
  /\ UNCHANGED <<curthr, intr, old_IPL, threadVars, tq_list, km_holder, clientVars, mk>>

IdleDisable_IplHigh ==
  /\ pc = "switch"
  /\ tq_list[RunQ] = <<>>
  /\ intr' = FALSE
  /\ pc' = "idle"
  /\ UNCHANGED <<curthr, ipl, old_IPL, threadVars, tq_list, km_holder, clientVars, mk>>

\* The run queue is empty: intr_disable, then lower the IPL.
IdleDisable ==
  /\ pc = "switch"
  /\ tq_list[RunQ] = <<>>
  /\ intr' = FALSE
  /\ ipl' = "LOW"
  /\ pc' = "idle"
  /\ UNCHANGED <<curthr, old_IPL, threadVars, tq_list, km_holder, clientVars, mk>>

\* intr_wait enables interrupts and halts in one step.
IdleWait ==
  /\ pc = "idle"
  /\ intr' = TRUE
  /\ pc' = "halt"
  /\ UNCHANGED <<curthr, ipl, old_IPL, threadVars, tq_list, km_holder, clientVars, mk>>

\* After the interrupt: mask again and go back to the loop's test.
IdleMask ==
  /\ pc = "woken"
  /\ ipl' = "HIGH"
  /\ pc' = "switch"
  /\ UNCHANGED <<curthr, intr, old_IPL, threadVars, tq_list, km_holder, clientVars, mk>>

\* A variant that ignores kt_cancelled.
LockGranted_IgnoreCancel(t) == call[t].op \in {"lock", "clock"}

\* The blocking call t returns from is a lock, and returns success: kmutex_lock
\* always does, kmutex_lock_cancellable unless kt_cancelled is set by now.
LockGranted(t) ==
  call[t].op = "lock" \/ (call[t].op = "clock" /\ ~kt_cancelled[t])

\* Dequeue, switch contexts, and return in the new thread: out of its own
\* sched_switch and the blocking call around it, or into its entry function,
\* which starts with interrupts open.
Dispatch ==
  /\ pc = "switch"
  /\ tq_list[RunQ] # <<>>
  /\ LET t == Head(tq_list[RunQ])
     IN  /\ curthr' = t
         /\ ktqueue_dequeue(RunQ)
         /\ ipl' = IF call[t].op = "new" THEN "LOW" ELSE old_IPL[t]
         /\ old_IPL' = [old_IPL EXCEPT ![t] = "LOW"]   \* dead from here on
         /\ intr' = (intr \/ call[t].op = "new")
         /\ held' = [held EXCEPT ![t] = IF LockGranted(t) THEN @ \cup {call[t].mtx} ELSE @]
         /\ call' = [call EXCEPT ![t] = NoCall]
  /\ pc' = "run"
  /\ UNCHANGED <<kt_state, kt_cancelled, km_holder, mk>>

\* SYS_thr_yield's second half: the caller is on the run queue.
Resched ==
  /\ pc = "resched"
  /\ sched_switch
  /\ UNCHANGED <<threadVars, tq_list, km_holder, clientVars>>

(***************************************************************************)
(* Sleeping and waking                                                     *)
(***************************************************************************)

\* curthr goes to sleep on q in the given state, inside the given call.
Sleep(q, state, op, m) ==
  /\ kt_state' = [kt_state EXCEPT ![curthr] = state]
  /\ ktqueue_enqueue(q, curthr)
  /\ call' = [call EXCEPT ![curthr] = [op |-> op, mtx |-> m]]
  /\ sched_switch
  /\ UNCHANGED <<kt_cancelled, km_holder, held>>

\* Drivers raise the IPL before they sleep on a queue an interrupt wakes.
sched_sleep_on(q) ==
  /\ pc = "run"
  /\ q \in DevQueues => ipl = "HIGH"
  /\ Sleep(q, "SLEEP", "plain", Null)

\* A cancelled thread gets -EINTR at once, which changes nothing.
sched_cancellable_sleep_on(q) ==
  /\ pc = "run"
  /\ q \in DevQueues => ipl = "HIGH"
  /\ ~kt_cancelled[curthr]
  /\ Sleep(q, "SLEEP_CANCELLABLE", "plain", Null)

\* Dequeue the first sleeper of q, mark it KT_RUN and make it runnable.
Wake(q, then) ==
  /\ tq_list[q] # <<>>
  /\ kt_state' = [kt_state EXCEPT ![Head(tq_list[q])] = "RUN"]
  /\ ktqueue_dequeue(q)
  /\ sched_make_runnable(Head(tq_list[q]), then, q)
  /\ UNCHANGED <<curthr, intr, old_IPL, kt_cancelled, clientVars>>

sched_wakeup_on(q) ==
  /\ pc = "run"
  /\ Wake(q, "run")
  /\ UNCHANGED km_holder

sched_broadcast_on(q) ==
  /\ pc = "run"
  /\ Wake(q, "broadcast")
  /\ UNCHANGED km_holder

BroadcastNext ==
  /\ pc = "broadcast"
  /\ Wake(mk.q, "broadcast")
  /\ UNCHANGED km_holder

BroadcastDone ==
  /\ pc = "broadcast"
  /\ tq_list[mk.q] = <<>>
  /\ pc' = "run"
  /\ mk' = NoMk
  /\ UNCHANGED <<curthr, ipl, intr, old_IPL, threadVars, tq_list, km_holder, clientVars>>

\* A device interrupt.  Its handler runs sched_wakeup_on(q) with interrupts
\* masked, so it is one step; it ends the intr_wait of the idle loop.
Interrupt(q) ==
  /\ intr
  /\ ipl = "LOW"
  /\ pc' = IF pc = "halt" THEN "woken" ELSE pc
  /\ IF tq_list[q] = <<>>
     THEN UNCHANGED <<kt_state, kt_wchan, tq_list>>
     ELSE LET t == Head(tq_list[q])
          IN  /\ kt_state' = [kt_state EXCEPT ![t] = "RUN"]
              /\ tq_list' = [tq_list EXCEPT ![q] = Tail(@), ![RunQ] = Append(@, t)]
              /\ kt_wchan' = [kt_wchan EXCEPT ![t] = RunQ]
  /\ UNCHANGED <<curthr, ipl, intr, old_IPL, kt_cancelled, km_holder, clientVars, mk>>

(***************************************************************************)
(* Mutexes.  A caller does not lock a mutex it was told it has, and only   *)
(* unlocks one it was told it has; both KASSERTs are guards.               *)
(***************************************************************************)

TakeFree(m) ==
  /\ km_holder[m] = Null
  /\ km_holder' = [km_holder EXCEPT ![m] = curthr]
  /\ held' = [held EXCEPT ![curthr] = @ \cup {m}]
  /\ UNCHANGED <<cpuVars, threadVars, tq_list, call, mk>>

kmutex_lock(m) ==
  /\ pc = "run"
  /\ km_holder[m] # curthr
  /\ \/ TakeFree(m)
     \/ /\ km_holder[m] # Null
        /\ Sleep(m, "SLEEP", "lock", m)

kmutex_lock_cancellable(m) ==
  /\ pc = "run"
  /\ km_holder[m] # curthr
  /\ \/ TakeFree(m)
     \/ /\ km_holder[m] # Null
        /\ ~kt_cancelled[curthr]
        /\ Sleep(m, "SLEEP_CANCELLABLE", "clock", m)

\* A variant that wakes nobody.
kmutex_unlock_NoWake(m) ==
  /\ pc = "run"
  /\ m \in held[curthr]
  /\ km_holder[m] = curthr
  /\ km_holder' = [km_holder EXCEPT ![m] = Null]
  /\ held' = [held EXCEPT ![curthr] = @ \ {m}]
  /\ UNCHANGED <<cpuVars, threadVars, tq_list, call, mk>>

kmutex_unlock(m) ==
  /\ pc = "run"
  /\ m \in held[curthr]
  /\ km_holder[m] = curthr
  /\ km_holder' = [km_holder EXCEPT ![m] = Null]
  /\ held' = [held EXCEPT ![curthr] = @ \ {m}]
  /\ IF tq_list[m] = <<>>
     THEN UNCHANGED <<cpuVars, threadVars, tq_list, call, mk>>
     ELSE /\ kt_state' = [kt_state EXCEPT ![Head(tq_list[m])] = "RUN"]
          /\ ktqueue_dequeue(m)
          /\ sched_make_runnable(Head(tq_list[m]), "unlock", m)
          /\ UNCHANGED <<curthr, intr, old_IPL, kt_cancelled, call>>

(***************************************************************************)
(* Threads                                                                 *)
(***************************************************************************)

\* A fresh kthread_t, made runnable by its creator.
NewThread(t, state, cancelled) ==
  /\ pc = "run"
  /\ kt_state[t] = "UNUSED"
  /\ kt_state' = [kt_state EXCEPT ![t] = state]
  /\ kt_cancelled' = [kt_cancelled EXCEPT ![t] = cancelled]
  /\ call' = [call EXCEPT ![t] = [op |-> "new", mtx |-> Null]]
  /\ tq_list' = tq_list
  /\ sched_make_runnable(t, "run", Null)
  /\ UNCHANGED <<curthr, intr, old_IPL, kt_wchan, km_holder, held>>

kthread_create(t) == NewThread(t, "NO_STATE", FALSE)

\* do_fork's kthread_clone(curthr): KASSERTs KT_RUN, copies kt_cancelled.
kthread_clone(t) ==
  /\ kt_state[curthr] = "RUN"
  /\ NewThread(t, kt_state[curthr], kt_cancelled[curthr])

\* kthread_cancel of another thread, up to sched_cancel's test of kt_state.
kthread_cancel(t) ==
  /\ pc = "run"
  /\ curthr \in Cancellers
  /\ t # curthr
  /\ kt_state[t] # "UNUSED"
  /\ kt_cancelled' = [kt_cancelled EXCEPT ![t] = TRUE]
  /\ IF kt_state[t] = "SLEEP_CANCELLABLE"
     THEN pc' = "cancel" /\ mk' = Locals(t, Null)
     ELSE UNCHANGED <<pc, mk>>
  /\ UNCHANGED <<curthr, ipl, intr, old_IPL, kt_state, kt_wchan, tq_list,
                 km_holder, clientVars>>

\* The rest of sched_cancel: off whatever queue the thread is on by now, and
\* onto the run queue.  kt_state stays as it is.
SchedCancelRemove ==
  /\ pc = "cancel"
  /\ ktqueue_remove(kt_wchan[mk.thr], mk.thr)
  /\ sched_make_runnable(mk.thr, "run", Null)
  /\ UNCHANGED <<curthr, intr, old_IPL, kt_state, kt_cancelled, km_holder, clientVars>>

\* kthread_exit, whose proc_thread_exited ends in sched_switch.  A thread does
\* not exit while it has a mutex it knows of.
kthread_exit ==
  /\ pc = "run"
  /\ held[curthr] = {}
  /\ kt_state' = [kt_state EXCEPT ![curthr] = "EXITED"]
  /\ sched_switch
  /\ UNCHANGED <<kt_cancelled, kt_wchan, tq_list, km_holder, clientVars>>

\* do_waitpid's reaping of a dead process's thread.
kthread_destroy(t) ==
  /\ pc = "run"
  /\ kt_state[t] = "EXITED"
  /\ kt_state' = [kt_state EXCEPT ![t] = "UNUSED"]
  /\ kt_cancelled' = [kt_cancelled EXCEPT ![t] = FALSE]
  /\ UNCHANGED <<cpuVars, kt_wchan, tq_list, km_holder, clientVars, mk>>

\* SYS_thr_yield: sched_make_runnable(curthr), then sched_switch.
thr_yield ==
  /\ pc = "run"
  /\ tq_list' = tq_list
  /\ sched_make_runnable(curthr, "resched", Null)
  /\ UNCHANGED <<curthr, intr, old_IPL, threadVars, km_holder, clientVars>>

\* A driver raises the IPL around its queue, and lowers it again.
intr_setipl(level) ==
  /\ pc = "run"
  /\ ipl' = level
  /\ UNCHANGED <<curthr, pc, intr, old_IPL, threadVars, tq_list, km_holder, clientVars, mk>>

(***************************************************************************)
(* The specification, from the end of bootstrap                            *)
(***************************************************************************)

Init ==
  /\ curthr = FirstThread
  /\ pc = "run"
  /\ ipl = "LOW"
  /\ intr = TRUE
  /\ old_IPL = [t \in Threads |-> "LOW"]
  /\ kt_state = [t \in Threads |-> IF t = FirstThread THEN "RUN" ELSE "UNUSED"]
  /\ kt_cancelled = [t \in Threads |-> FALSE]
  /\ kt_wchan = [t \in Threads |-> Null]
  /\ tq_list = [q \in Queues |-> <<>>]
  /\ km_holder = [m \in Mutexes |-> Null]
  /\ call = [t \in Threads |-> NoCall]
  /\ held = [t \in Threads |-> {}]
  /\ mk = NoMk

Scheduler ==
  \/ MakeRunnableLink
  \/ IdleDisable \/ IdleWait \/ IdleMask \/ Dispatch \/ Resched
  \/ BroadcastNext \/ BroadcastDone
  \/ SchedCancelRemove

ThreadOp ==
  \/ \E q \in SoftQueues \cup DevQueues : sched_sleep_on(q)
  \/ \E q \in SoftQueues \cup DevQueues : sched_cancellable_sleep_on(q)
  \/ \E q \in SoftQueues : sched_wakeup_on(q)
  \/ \E q \in SoftQueues : sched_broadcast_on(q)
  \/ \E m \in Mutexes : kmutex_lock(m)
  \/ \E m \in Mutexes : kmutex_lock_cancellable(m)
  \/ \E m \in Mutexes : kmutex_unlock(m)
  \/ \E t \in Threads : kthread_create(t)
  \/ \E t \in Threads : kthread_clone(t)
  \/ \E t \in Threads : kthread_cancel(t)
  \/ \E t \in Threads : kthread_destroy(t)
  \/ kthread_exit
  \/ thr_yield
  \/ \E level \in {"LOW", "HIGH"} : intr_setipl(level)

Next ==
  \/ Scheduler
  \/ ThreadOp
  \/ \E q \in DevQueues : Interrupt(q)

Spec == Init /\ [][Next]_vars

(***************************************************************************)
(* Fairness.  The CPU does not stop inside the scheduler.  The kernel does *)
(* not preempt, so progress rests on what each thread does when it runs:   *)
(* it eventually yields, sleeps or exits, releases the mutexes it has, and *)
(* lowers an IPL it raised.  A device whose queue has sleepers eventually  *)
(* interrupts when it may.                                                 *)
(***************************************************************************)

LeaveCPU ==
  \/ thr_yield
  \/ kthread_exit
  \/ \E q \in SoftQueues \cup DevQueues : sched_sleep_on(q)

Fairness ==
  /\ WF_vars(Scheduler)
  /\ \A q \in DevQueues : SF_vars(tq_list[q] # <<>> /\ Interrupt(q))
  /\ SF_vars(LeaveCPU)
  /\ SF_vars(\E m \in Mutexes : kmutex_unlock(m))
  /\ SF_vars(intr_setipl("LOW"))

FairSpec == Spec /\ Fairness

(***************************************************************************)
(* Properties                                                              *)
(***************************************************************************)

On(t, q) == \E i \in 1..Len(tq_list[q]) : tq_list[q][i] = t

\* Every variable has its type.
TypeOK ==
  /\ curthr \in Threads
  /\ pc \in Executing \cup Switching
  /\ ipl \in {"LOW", "HIGH"}
  /\ intr \in BOOLEAN
  /\ old_IPL \in [Threads -> {"LOW", "HIGH"}]
  /\ kt_state \in [Threads -> States]
  /\ kt_cancelled \in [Threads -> BOOLEAN]
  /\ kt_wchan \in [Threads -> Queues \cup {Null}]
  /\ tq_list \in [Queues -> Seq(Threads)]
  /\ km_holder \in [Mutexes -> Threads \cup {Null}]
  /\ call \in [Threads -> [op : {"plain", "new", "lock", "clock"},
                           mtx : Mutexes \cup {Null}]]
  /\ held \in [Threads -> SUBSET Mutexes]
  /\ mk \in [thr : Threads \cup {Null},
             then : {"run", "unlock", "broadcast", "resched"},
             q : Queues \cup {Null}, ipl : {"LOW", "HIGH"}, snap : Seq(Threads)]

\* A thread is on the queue its kt_wchan names, once, and on no other: what
\* ktqueue_enqueue's and ktqueue_remove's KASSERTs rely on, whatever interrupt
\* handlers and cancellations do to the queues in between.
QueuesConsistent ==
  \A q \in Queues :
    /\ \A i, j \in 1..Len(tq_list[q]) : tq_list[q][i] = tq_list[q][j] => i = j
    /\ \A t \in Threads : kt_wchan[t] = q <=> On(t, q)

\* sched_cancel's comment: unless a thread is in KT_NO_STATE or KT_EXITED it is
\* on some queue, or it would never run again.  The exceptions are the thread
\* that executes and the one on its way to the run queue.
NoLostThread ==
  \A t \in Threads :
    \/ kt_state[t] \in {"UNUSED", "NO_STATE", "EXITED"}
    \/ kt_wchan[t] # Null
    \/ pc \in Executing /\ t = curthr
    \/ pc = "mkrun" /\ t = mk.thr

\* A thread that sleeps on a wait queue is in one of the two sleep states
\* (the KASSERT of sched_wakeup_on), and a thread that executes is on no queue
\* and has not exited (the KASSERTs of ktqueue_enqueue and kthread_exit).
SleepersAsleep ==
  /\ \A t \in Threads : kt_wchan[t] \in WaitQueues =>
       kt_state[t] \in {"SLEEP", "SLEEP_CANCELLABLE"}
  /\ pc \in Executing =>
       kt_wchan[curthr] = Null /\ kt_state[curthr] \notin {"UNUSED", "EXITED"}

\* The CPU never halts while a thread is ready to run: no wakeup is lost
\* between sched_switch's test of the run queue and its intr_wait.
NoHaltWithWork == pc = "halt" => tq_list[RunQ] = <<>>

\* A thread that was told it has a mutex is its holder, so two threads are
\* never inside the same mutex, whatever is cancelled.
LockedIsHolder ==
  \A t \in Threads : \A m \in held[t] : km_holder[m] = t

\* kmutex_unlock hands the mutex over: it is never free while a thread waits
\* for it, and no thread waits for a mutex it already holds.
NoWaiterOnFreeMutex ==
  \A t \in Threads, m \in Mutexes :
    kt_wchan[t] = m =>
      /\ km_holder[m] # t
      /\ km_holder[m] # Null \/ (pc = "mkrun" /\ mk.then = "unlock" /\ mk.q = m)

\* kthread_clone KASSERTs that the forking thread is in KT_RUN: the only threads
\* for which that may fail are cancelled ones, whose state sched_cancel leaves
\* behind, and ones that have never slept.
RunningState ==
  pc = "run" /\ ~kt_cancelled[curthr] => kt_state[curthr] \in {"RUN", "NO_STATE"}

(***************************************************************************)
(* What the scheduler's steps rely on of each other: together with the     *)
(* properties above, the inductive invariant.                              *)
(***************************************************************************)

\* The locals of sched_make_runnable and its callers while they are live.
LocalsOK ==
  /\ pc = "mkrun" =>
       /\ mk.thr \in Threads
       /\ kt_wchan[mk.thr] = Null
       /\ kt_state[mk.thr] \notin {"UNUSED", "EXITED"}
       /\ mk.snap = tq_list[RunQ]
       /\ ipl = "HIGH"
       /\ mk.then = "resched" <=> mk.thr = curthr
       /\ mk.then = "broadcast" => mk.q \in SoftQueues
       /\ mk.then = "unlock" =>
            /\ mk.q \in Mutexes
            /\ km_holder[mk.q] = Null
            /\ call[mk.thr].op \in {"lock", "clock"}
            /\ call[mk.thr].mtx = mk.q
       /\ mk.then # "unlock" =>
            /\ call[mk.thr].op # "lock"
            /\ call[mk.thr].op = "clock" => kt_cancelled[mk.thr]
  /\ pc = "cancel" =>
       /\ mk.thr \in Threads \ {curthr}
       /\ kt_wchan[mk.thr] # Null
       /\ kt_state[mk.thr] \in {"RUN", "SLEEP_CANCELLABLE"}
       /\ kt_cancelled[mk.thr]
       /\ call[mk.thr].op # "lock"
  /\ pc = "broadcast" => mk.q \in SoftQueues

\* What kt_state says of where a thread is.
StatesOK ==
  \A t \in Threads :
    /\ kt_state[t] \in {"UNUSED", "EXITED"} => kt_wchan[t] = Null
    /\ kt_state[t] = "SLEEP" => kt_wchan[t] \in WaitQueues
    /\ kt_state[t] = "SLEEP_CANCELLABLE" =>
         kt_wchan[t] \in WaitQueues \/ kt_cancelled[t]

\* What the call a thread is to return from says of where it is, and of the
\* mutex it asked for.
CallsOK ==
  /\ pc \in Executing => call[curthr] = NoCall
  /\ \A t \in Threads :
       /\ call[t].op \in {"lock", "clock"} => call[t].mtx \in Mutexes
       /\ kt_wchan[t] \in SoftQueues \cup DevQueues => call[t].op = "plain"
       /\ kt_wchan[t] \in Mutexes =>
            /\ call[t].mtx = kt_wchan[t]
            /\ call[t].op \in {"lock", "clock"}
       /\ call[t].op = "lock" => kt_state[t] # "SLEEP_CANCELLABLE"
       /\ kt_wchan[t] = RunQ /\ LockGranted(t) => km_holder[call[t].mtx] = t

\* The idle loop's window is closed to interrupts.
IdleOK ==
  /\ pc \in {"idle", "halt"} => tq_list[RunQ] = <<>>
  /\ pc = "idle" => ~intr

SchedInv ==
  /\ TypeOK
  /\ QueuesConsistent
  /\ NoLostThread
  /\ SleepersAsleep
  /\ LockedIsHolder
  /\ NoWaiterOnFreeMutex
  /\ LocalsOK
  /\ StatesOK
  /\ CallsOK
  /\ IdleOK

\* kmutex_lock_cancellable's comment: "if you are cancelled while holding mtx,
\* you should unlock mtx".  A thread that executes holds only the mutexes it was
\* told it has.
HolderKnows ==
  pc = "run" => \A m \in Mutexes : km_holder[m] = curthr => m \in held[curthr]

\* A thread on the run queue eventually executes: the queue is first in, first
\* out and a context switch never leaves it behind.  (A thread cancelled twice
\* is moved to the back of the queue, so cancellation is excepted.)
RunnableRuns ==
  \A t \in Threads :
    kt_wchan[t] = RunQ ~> (curthr = t /\ pc \in Executing) \/ kt_cancelled[t]

\* A thread that waits for a mutex eventually has it, in the absence of
\* cancellation, however many other threads keep locking it.
WaiterGetsMutex ==
  \A t \in Threads, m \in Mutexes :
    kt_wchan[t] = m ~> m \in held[t] \/ kt_cancelled[t]

\* A thread asleep on a device queue is woken: interrupts reach the CPU also
\* when every thread sleeps and sched_switch was entered at a high IPL.
SleeperWoken ==
  \A t \in Threads, q \in DevQueues : kt_wchan[t] = q ~> kt_wchan[t] # q
============================================================================
