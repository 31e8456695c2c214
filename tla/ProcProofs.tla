----------------------------- MODULE ProcProofs -----------------------------
(***************************************************************************)
(* The inductive invariant ProcInv of Proc, for any set of slots and any   *)
(* number of pids: every step preserves it, and the properties it implies. *)
(***************************************************************************)
EXTENDS Proc, FiniteSets, FiniteSetTheorems, WellFoundedInduction, TLAPS

\* A thread's place in the code tells whether its process is free, runs or is
\* dead, and the first processes execute code of their own.
PlacesOK ==
  /\ pc[Idle] \in {"boot", "init_call_all", "mknod", "waitpid", "shutdown"}
  /\ pc[Pageoutd] \in {"none", "pageoutd_run"}
  /\ \A p \in Procs \ {Idle, Pageoutd} :
       pc[p] \in {"none", "user", "waitpid", "cleanup", "exited"}
  /\ \A p \in Procs :
       /\ pc[p] = "none" <=> p_state[p] = "FREE"
       /\ pc[p] \in {"cleanup", "exited"} <=> p_state[p] = "DEAD"

\* Which threads may be on a queue or execute: the current one is on none, one
\* that has exited is not woken, and a cleanup that has not slept has the CPU.
ThreadsOK ==
  /\ curproc # Null => queue[curproc] = "none" /\ pc[curproc] \notin {"none", "exited"}
  /\ \A p \in Procs :
       /\ queue[p] # "none" => pc[p] \notin {"none", "exited"}
       /\ queue[p] = "p_wait" => pc[p] = "waitpid"
       /\ pc[p] = "cleanup" /\ kt_state[p] = "EXITED" => curproc = p
       /\ pc[p] = "exited" /\ fault = "none" => kt_state[p] = "EXITED"

\* A process that executes or may be dispatched, and is not cancelled, is in
\* KT_RUN, as kthread_clone asks: every wakeup sets it, and forked threads inherit
\* it.  Init has no state before its first sleep.
RunStateOK ==
  fault = "none" =>
    \A p \in Procs \ {Idle} :
      pc[p] \in {"user", "waitpid"} /\ queue[p] \in {"none", "run"} /\ ~kt_cancelled[p] =>
        kt_state[p] = "RUN" \/ (p = InitProc /\ kt_state[p] = "NO_STATE")

\* The order of idleproc_run: init gets pid 1 and pageoutd is there before init
\* runs; init stays until the idle process has disposed of it.
BootOK ==
  /\ p_pid[Idle] = PID_IDLE
  /\ pc[Idle] = "boot" =>
       curproc = Idle /\ Listed = {Idle} /\ next_pid = PID_INIT
  /\ pc[Idle] = "init_call_all" =>
       curproc = Idle /\ Listed = {Idle, InitProc} /\ next_pid = PID_PAGEOUTD
  /\ pc[Idle] \in {"init_call_all", "mknod"} =>
       /\ pc[InitProc] = "user" /\ queue[InitProc] = "none" /\ curproc # InitProc
       /\ Listed \subseteq {Idle, InitProc, Pageoutd}
  /\ pc[Idle] # "boot" => proc_initproc = InitProc
  /\ pc[Idle] \in {"init_call_all", "mknod", "waitpid"} =>
       InitProc \in Listed /\ p_pid[InitProc] = PID_INIT
  /\ pc[Idle] \notin {"boot", "init_call_all"} => Pageoutd \in Listed
  /\ pc[Idle] = "shutdown" => curproc = Idle
  /\ ~kt_cancelled[InitProc]
  /\ arg[Idle] = Null

\* Every process that was forked descends from one that was not: no set of them
\* is closed under p_pproc.
Descends ==
  \A S \in SUBSET (Listed \cap User) : S # {} => \E p \in S : p_pproc[p] \notin S

\* The idle process has the children it made and pageoutd none, so that forked
\* processes descend from init; do_waitpid's tmp_proc is a child.
FamilyOK ==
  /\ InitProc \in Listed => p_pproc[InitProc] = Idle
  /\ p_children[Idle] \subseteq {InitProc, Pageoutd}
  /\ p_children[Pageoutd] = {}
  /\ Descends
  /\ \A p \in Procs : pc[p] = "waitpid" /\ arg[p] # Null => arg[p] \in p_children[p]

ProcInv ==
  /\ TypeOK /\ PlacesOK /\ ThreadsOK /\ RunStateOK /\ BootOK
  /\ PidsUnique /\ FamilyConsistent /\ FamilyOK /\ InitLast /\ NoMissedExit

(***************************************************************************)
(* Steps that change no process: threads sleep, wake up and are dispatched *)
(***************************************************************************)

\* The idle process is there, and nobody else.
LEMMA InitInv == Init => ProcInv
<1> SUFFICES ASSUME Init PROVE ProcInv
  OBVIOUS
<1> USE ProcConstants DEF Init, PID_IDLE, PID_INIT, Listed
<1>1. TypeOK
  BY DEF TypeOK
<1>2. PlacesOK /\ ThreadsOK /\ BootOK
  BY Zenon DEF PlacesOK, ThreadsOK, BootOK
<1>3. PidsUnique /\ FamilyConsistent
  BY Zenon DEF PidsUnique, FamilyConsistent
<1>4. FamilyOK
  BY Zenon DEF FamilyOK, Descends, User
<1>5. InitLast /\ NoMissedExit
  BY Zenon DEF InitLast, NoMissedExit
<1>r. RunStateOK
  BY Zenon DEF RunStateOK
<1> QED
  BY <1>r, <1>1, <1>2, <1>3, <1>4, <1>5, Zenon DEF ProcInv

\* What does not depend on the queues, the states of threads and who executes.
LEMMA SameProcesses ==
  ASSUME ProcInv, UNCHANGED <<procVars, kt_cancelled, pc, arg>>
  PROVE  PlacesOK' /\ PidsUnique' /\ FamilyConsistent' /\ FamilyOK' /\ InitLast'
<1> USE DEF ProcInv, procVars
<1>1. PlacesOK'
  BY Zenon DEF PlacesOK
<1>2. PidsUnique'
  BY Zenon DEF PidsUnique, Listed
<1>3. FamilyConsistent'
  BY Zenon DEF FamilyConsistent, Listed
<1>4. FamilyOK'
  BY Zenon DEF FamilyOK, Descends, Listed, User
<1>5. InitLast'
  BY Zenon DEF InitLast, User
<1> QED
  BY <1>1, <1>2, <1>3, <1>4, <1>5, Zenon

\* Any runnable thread is dispatched.
LEMMA DispatchStep ==
  ASSUME ProcInv, NEW p \in Procs, Dispatch(p)
  PROVE  ProcInv'
<1> USE ProcConstants DEF ProcInv, Dispatch, procVars
<1>1. PlacesOK' /\ PidsUnique' /\ FamilyConsistent' /\ FamilyOK' /\ InitLast'
  BY SameProcesses, Zenon
<1>2. TypeOK'
  BY Zenon DEF TypeOK
<1>3. ThreadsOK'
  BY ZenonT(40) DEF ThreadsOK, TypeOK
<1>4. BootOK'
  BY Zenon DEF BootOK, TypeOK, Listed
<1>5. NoMissedExit'
  BY Zenon DEF NoMissedExit, TypeOK
<1>r. RunStateOK'
  BY Zenon DEF RunStateOK, TypeOK
<1> QED
  BY <1>r, <1>1, <1>2, <1>3, <1>4, <1>5, Zenon

\* The current thread goes to sleep: in do_waitpid only if no child it waits for
\* is dead.
LEMMA SleepStep ==
  ASSUME ProcInv, fault = "none", curproc # Null,
         pc[curproc] \notin {"boot", "init_call_all", "shutdown"},
         NEW q \in {"p_wait", "io", "pageoutd_waitq"},
         NEW state \in {"SLEEP", "SLEEP_CANCELLABLE"},
         q = "p_wait" => pc[curproc] = "waitpid" /\ \A c \in Procs : ~Exited(c),
         Sleep(q, state), UNCHANGED <<procVars, kt_cancelled, pc, arg, fault>>
  PROVE  ProcInv'
<1> USE ProcConstants DEF ProcInv, Sleep, procVars
<1>1. PlacesOK' /\ PidsUnique' /\ FamilyConsistent' /\ FamilyOK' /\ InitLast'
  BY SameProcesses, Zenon
<1>2. TypeOK'
  BY Zenon DEF TypeOK
<1>3. ThreadsOK'
  BY ZenonT(40) DEF ThreadsOK, TypeOK
<1>4. BootOK'
  BY Zenon DEF BootOK, TypeOK, Listed
<1>5. NoMissedExit'
  BY ZenonT(40) DEF NoMissedExit, TypeOK, Exited, PlacesOK
<1>r. RunStateOK'
  BY Zenon DEF RunStateOK, TypeOK
<1> QED
  BY <1>r, <1>1, <1>2, <1>3, <1>4, <1>5, Zenon

\* Every sleep is one on a queue its thread may be on.
LEMMA SleepSteps ==
  ASSUME ProcInv,
         \/ WaitpidSleep \/ CleanupSleep \/ PageoutdSleep
         \/ \E state \in {"SLEEP", "SLEEP_CANCELLABLE"} : Block(state)
  PROVE  ProcInv'
<1>1. CASE WaitpidSleep
  BY <1>1, SleepStep, Zenon DEF WaitpidSleep, At
<1>2. CASE CleanupSleep
  BY <1>2, SleepStep, Zenon DEF CleanupSleep, At
<1>3. CASE PageoutdSleep
  BY <1>3, SleepStep, Zenon DEF PageoutdSleep, At
<1>4. CASE \E state \in {"SLEEP", "SLEEP_CANCELLABLE"} : Block(state)
  BY <1>4, SleepStep, Zenon DEF Block, At
<1> QED
  BY <1>1, <1>2, <1>3, <1>4, Zenon

\* thr_yield puts the current thread on the run queue.
LEMMA YieldStep ==
  ASSUME ProcInv, thr_yield
  PROVE  ProcInv'
<1> USE ProcConstants DEF ProcInv, thr_yield, At, procVars
<1>1. PlacesOK' /\ PidsUnique' /\ FamilyConsistent' /\ FamilyOK' /\ InitLast'
  BY SameProcesses, Zenon
<1>2. TypeOK'
  BY Zenon DEF TypeOK
<1>3. ThreadsOK'
  BY Zenon DEF ThreadsOK, TypeOK
<1>4. BootOK'
  BY Zenon DEF BootOK, TypeOK, Listed
<1>5. NoMissedExit'
  BY Zenon DEF NoMissedExit, TypeOK
<1>r. RunStateOK'
  <2>1. \A p \in Procs : queue'[p] \in {"none", "run"} => queue[p] \in {"none", "run"}
    BY Zenon DEF TypeOK, ThreadsOK
  <2> QED
    BY <2>1, Zenon DEF RunStateOK
<1> QED
  BY <1>r, <1>1, <1>2, <1>3, <1>4, <1>5, Zenon

\* A thread that sleeps for a device or a lock is woken.
LEMMA WakeupStep ==
  ASSUME ProcInv, NEW p \in Procs, Wakeup(p)
  PROVE  ProcInv'
<1> USE ProcConstants DEF ProcInv, Wakeup, procVars
<1>1. PlacesOK' /\ PidsUnique' /\ FamilyConsistent' /\ FamilyOK' /\ InitLast'
  BY SameProcesses, Zenon
<1>2. TypeOK'
  BY Zenon DEF TypeOK
<1>3. ThreadsOK'
  BY ZenonT(40) DEF ThreadsOK, TypeOK
<1>4. BootOK'
  BY Zenon DEF BootOK, TypeOK, Listed
<1>5. NoMissedExit'
  BY Zenon DEF NoMissedExit, TypeOK
<1>r. RunStateOK'
  BY Zenon DEF RunStateOK, TypeOK
<1> QED
  BY <1>r, <1>1, <1>2, <1>3, <1>4, <1>5, Zenon

\* The idle process makes init runnable and waits for it.
LEMMA RunInitStep ==
  ASSUME ProcInv, RunInit
  PROVE  ProcInv'
<1> USE ProcConstants DEF ProcInv, RunInit, At, procVars
<1>1. curproc = Idle
  BY Zenon DEF PlacesOK, TypeOK
<1>2. TypeOK'
  BY <1>1, Zenon DEF TypeOK
<1>3. PlacesOK' /\ ThreadsOK'
  BY <1>1 DEF PlacesOK, ThreadsOK, BootOK, TypeOK
<1>4. BootOK'
  BY <1>1 DEF BootOK, TypeOK, Listed, ThreadsOK, PlacesOK
<1>5. PidsUnique' /\ FamilyConsistent' /\ InitLast'
  BY DEF PidsUnique, FamilyConsistent, InitLast, Listed, User, TypeOK
<1>6. FamilyOK'
  BY DEF FamilyOK, Descends, Listed, User, TypeOK, BootOK
<1>7. NoMissedExit'
  BY Zenon DEF NoMissedExit, TypeOK
<1>r. RunStateOK'
  BY <1>1, Zenon DEF RunStateOK, TypeOK, BootOK
<1> QED
  BY <1>r, <1>2, <1>3, <1>4, <1>5, <1>6, <1>7, Zenon

\* do_waitpid searches the children of the current process.
LEMMA WaitpidStep ==
  ASSUME ProcInv, NEW c \in Procs \cup {Null}, do_waitpid(c)
  PROVE  ProcInv'
<1> USE ProcConstants DEF ProcInv, do_waitpid, At, procVars
<1>1. curproc \in Procs /\ curproc # Idle /\ curproc # Pageoutd
  BY Zenon DEF PlacesOK, TypeOK
<1>2. TypeOK'
  BY <1>1, Zenon DEF TypeOK
<1>3. PlacesOK' /\ ThreadsOK'
  BY <1>1 DEF PlacesOK, ThreadsOK, TypeOK
<1>4. BootOK'
  BY <1>1, Zenon DEF BootOK, TypeOK, Listed
<1>5. PidsUnique' /\ FamilyConsistent' /\ InitLast'
  BY DEF PidsUnique, FamilyConsistent, InitLast, Listed, User, TypeOK
<1>6. FamilyOK'
  BY <1>1, Zenon DEF FamilyOK, Descends, Listed, User, TypeOK
<1>7. NoMissedExit'
  BY <1>1, ZenonT(40) DEF NoMissedExit, TypeOK, ThreadsOK
<1>r. RunStateOK'
  BY <1>1, Zenon DEF RunStateOK, TypeOK
<1> QED
  BY <1>r, <1>2, <1>3, <1>4, <1>5, <1>6, <1>7, Zenon


\* The current process, unless it is exiting, has its slot.
LEMMA RunningPlace ==
  ASSUME ProcInv, curproc # Null, pc[curproc] \notin {"cleanup", "exited", "none"}
  PROVE  curproc \in Procs /\ p_state[curproc] = "RUNNING" /\ curproc \in Listed
  BY Zenon DEF ProcInv, TypeOK, PlacesOK, Listed

\* While a process executes user code the idle process waits for init, which has
\* pid 1 and has not exited.
LEMMA UserRuns ==
  ASSUME ProcInv, At("user")
  PROVE  /\ curproc \in Procs \ {Idle, Pageoutd} /\ p_state[curproc] = "RUNNING"
         /\ pc[Idle] = "waitpid" /\ p_state[Idle] = "RUNNING"
         /\ proc_initproc = InitProc /\ p_pid[InitProc] = PID_INIT
         /\ p_state[InitProc] = "RUNNING" /\ pc[InitProc] \in {"user", "waitpid"}
         /\ {Idle, InitProc, Pageoutd} \subseteq Listed
<1> USE ProcConstants DEF ProcInv, At
<1>1. curproc \in Procs \ {Idle, Pageoutd} /\ p_state[curproc] = "RUNNING"
  BY RunningPlace, Zenon DEF PlacesOK
<1>2. pc[Idle] = "waitpid"
  <2>1. pc[Idle] \notin {"boot", "init_call_all", "shutdown"}
    BY <1>1, Zenon DEF BootOK
  <2>2. pc[Idle] # "mknod"
    BY <1>1, Zenon DEF BootOK, Listed
  <2> QED
    BY <2>1, <2>2, Zenon DEF PlacesOK
<1>3. /\ proc_initproc = InitProc /\ p_pid[InitProc] = PID_INIT
      /\ {Idle, InitProc, Pageoutd} \subseteq Listed
  BY <1>2, Zenon DEF BootOK, PlacesOK, Listed
<1>4. pc[InitProc] \in {"user", "waitpid"}
  <2>1. pc[InitProc] \notin {"cleanup", "exited"}
    BY <1>1, Zenon DEF InitLast, User
  <2> QED
    BY <1>3, <2>1, Zenon DEF PlacesOK, Listed
<1> QED
  BY <1>1, <1>2, <1>3, <1>4, Zenon DEF PlacesOK, TypeOK

(***************************************************************************)
(* Exit                                                                    *)
(***************************************************************************)

\* If init has no child, no process is left that was forked.
LEMMA ChildlessInit ==
  ASSUME ProcInv, p_children[InitProc] = {}
  PROVE  \A p \in User : p_state[p] = "FREE"
<1> USE ProcConstants DEF ProcInv
<1> DEFINE S == Listed \cap User
<1>1. CASE S # {}
  <2>1. PICK p \in S : p_pproc[p] \notin S
    BY <1>1, Zenon DEF FamilyOK, Descends
  <2>2. /\ p \in User /\ p_pproc[p] \in Procs
        /\ p_state[p_pproc[p]] = "RUNNING"
        /\ p \in p_children[p_pproc[p]]
    BY <2>1, Zenon DEF FamilyConsistent, User
  <2>3. p_pproc[p] \in {Idle, InitProc, Pageoutd}
    BY <2>1, <2>2, Zenon DEF Listed, User
  <2> QED
    BY <2>2, <2>3, Zenon DEF FamilyOK, User
<1>2. CASE S = {}
  BY <1>2, Zenon DEF Listed, User
<1> QED
  BY <1>1, <1>2, Zenon

\* proc_cleanup leaves no child behind: all go to init.
LEMMA ReparentFamily ==
  ASSUME ProcInv, At("user"), ExitStart,
         curproc = InitProc => p_children[curproc] = {}
  PROVE  /\ Listed' = Listed
         /\ p_state' \in [Procs -> {"FREE", "RUNNING", "DEAD"}]
         /\ p_pproc' \in [Procs -> Procs \cup {Null}]
         /\ p_children' \in [Procs -> SUBSET Procs]
         /\ PidsUnique' /\ FamilyConsistent' /\ FamilyOK'
<1> DEFINE kids == p_children[curproc]
<1> USE ProcConstants DEF ProcInv
<1>1. /\ curproc \in Procs \ {Idle, Pageoutd} /\ p_state[curproc] = "RUNNING"
      /\ proc_initproc = InitProc /\ p_state[InitProc] = "RUNNING"
      /\ {Idle, InitProc, Pageoutd} \subseteq Listed
  BY UserRuns, Zenon
<1>2. /\ p_state' = [p_state EXCEPT ![curproc] = "DEAD"]
      /\ p_pproc' = [p \in Procs |-> IF p \in kids THEN InitProc ELSE p_pproc[p]]
      /\ p_children' = [p_children EXCEPT ![InitProc] = @ \cup kids]
      /\ pc' = [pc EXCEPT ![curproc] = "cleanup"]
      /\ UNCHANGED <<p_pid, arg>>
  BY <1>1, Zenon DEF ExitStart, Reparent
<1>3. \A p \in Procs : p \in kids => p \in Listed /\ p_pproc[p] = curproc
  BY <1>1, Zenon DEF FamilyConsistent
<1>4. kids \subseteq Procs
  BY <1>1, Zenon DEF TypeOK
<1> HIDE DEF kids
<1>5. Listed' = Listed
  BY <1>1, <1>2, Zenon DEF Listed, TypeOK
<1>6. /\ p_state' \in [Procs -> {"FREE", "RUNNING", "DEAD"}]
      /\ p_pproc' \in [Procs -> Procs \cup {Null}]
      /\ p_children' \in [Procs -> SUBSET Procs]
  BY <1>1, <1>2, <1>4, Zenon DEF TypeOK
<1>7. PidsUnique'
  BY <1>2, <1>5, Zenon DEF PidsUnique
<1>8. /\ \A p \in Procs \ {curproc} : p_state'[p] = p_state[p]
      /\ p_state'[curproc] = "DEAD"
      /\ \A p \in Procs \ {InitProc} : p_children'[p] = p_children[p]
      /\ p_children'[InitProc] = p_children[InitProc] \cup kids
  BY <1>1, <1>2, Zenon DEF TypeOK
<1>9. FamilyConsistent'
  <2>1. ASSUME NEW p \in Listed' \ {Idle}
        PROVE  /\ p_pproc'[p] \in Procs
               /\ p_state'[p_pproc'[p]] = "RUNNING"
               /\ p \in p_children'[p_pproc'[p]]
    <3>0. p \in Procs /\ p \in Listed \ {Idle}
      BY <1>5, <2>1, Zenon DEF Listed
    <3>1. CASE p \in kids
      <4>1. InitProc # curproc
        BY <3>1, Zenon DEF kids
      <4> QED
        BY <1>1, <1>2, <1>8, <3>0, <3>1, <4>1, Zenon
    <3>2. CASE p \notin kids
      <4>1. /\ p_pproc[p] \in Procs
            /\ p_state[p_pproc[p]] = "RUNNING"
            /\ p \in p_children[p_pproc[p]]
        BY <3>0, Zenon DEF FamilyConsistent
      <4>2. p_pproc[p] # curproc
        BY <3>2, <4>1, Zenon DEF kids
      <4> QED
        BY <1>2, <1>8, <3>0, <3>2, <4>1, <4>2, Zenon
    <3> QED
      BY <3>1, <3>2, Zenon
  <2>2. ASSUME NEW p \in Procs, p_state'[p] = "RUNNING", NEW c \in p_children'[p]
        PROVE  c \in Listed' /\ p_pproc'[c] = p
    <3>1. p # curproc /\ p_state[p] = "RUNNING" /\ c \in Procs
      BY <1>6, <1>8, <2>2, Zenon
    <3>2. CASE c \in kids
      <4>1. p = InitProc
        <5>1. c \notin p_children[p]
          BY <1>3, <3>1, <3>2 DEF FamilyConsistent
        <5> QED
          BY <1>8, <2>2, <5>1, Zenon
      <4> QED
        BY <1>2, <1>3, <1>5, <3>1, <3>2, <4>1, Zenon
    <3>3. CASE c \notin kids
      <4>1. c \in p_children[p]
        BY <1>8, <2>2, <3>3, Zenon
      <4>2. c \in Listed /\ p_pproc[c] = p
        BY <3>1, <4>1, Zenon DEF FamilyConsistent
      <4> QED
        BY <1>2, <1>5, <3>1, <3>3, <4>2, Zenon
    <3> QED
      BY <3>2, <3>3, Zenon
  <2> QED
    BY <2>1, <2>2, Zenon DEF FamilyConsistent
<1>10. Descends'
  <2> SUFFICES ASSUME NEW S \in SUBSET (Listed \cap User), S # {}
               PROVE  \E p \in S : p_pproc'[p] \notin S
    BY <1>5, Zenon DEF Descends, User
  <2>1. InitProc \notin S /\ S \subseteq Procs
    BY Zenon DEF User
  <2>2. PICK p \in S : p_pproc[p] \notin S
    BY Zenon DEF FamilyOK, Descends
  <2> QED
    BY <1>2, <2>1, <2>2, Zenon
<1>11. FamilyOK'
  <2>1. p_pproc'[InitProc] = Idle
    BY <1>1, <1>2, <1>3, Zenon DEF FamilyOK
  <2>2. p_children'[Idle] \subseteq {InitProc, Pageoutd} /\ p_children'[Pageoutd] = {}
    BY <1>8, Zenon DEF FamilyOK
  <2>3. \A p \in Procs : pc'[p] = "waitpid" /\ arg'[p] # Null => arg'[p] \in p_children'[p]
    BY <1>1, <1>2, <1>8 DEF FamilyOK, TypeOK
  <2> QED
    BY <1>10, <2>1, <2>2, <2>3, Zenon DEF FamilyOK
<1> QED
  BY <1>5, <1>6, <1>7, <1>9, <1>11, Zenon

\* The current process exits; proc_kill_all may have made others runnable.
LEMMA ExitStep ==
  ASSUME ProcInv, At("user"), ExitStart,
         curproc = InitProc => p_children[curproc] = {},
         kt_state' = [kt_state EXCEPT ![curproc] = "EXITED"],
         kt_cancelled' \in [Procs -> BOOLEAN], ~kt_cancelled'[InitProc],
         queue' \in [Procs -> {"none", "run", "p_wait", "io", "pageoutd_waitq"}],
         \A p \in Procs : kt_cancelled[p] => kt_cancelled'[p],
         \A p \in Procs : queue'[p] # queue[p] =>
           /\ queue'[p] = "run" /\ kt_cancelled'[p]
           /\ p \in Listed \ {curproc} /\ kt_state[p] = "SLEEP_CANCELLABLE"
  PROVE  ProcInv'
<1> USE ProcConstants DEF ProcInv
<1>1. /\ curproc \in Procs \ {Idle, Pageoutd} /\ p_state[curproc] = "RUNNING"
      /\ pc[Idle] = "waitpid" /\ p_state[Idle] = "RUNNING"
      /\ proc_initproc = InitProc /\ p_pid[InitProc] = PID_INIT
      /\ p_state[InitProc] = "RUNNING"
      /\ {Idle, InitProc, Pageoutd} \subseteq Listed
  BY UserRuns, Zenon
<1>2. /\ p_state' = [p_state EXCEPT ![curproc] = "DEAD"]
      /\ p_children' = [p_children EXCEPT ![InitProc] = @ \cup p_children[curproc]]
      /\ pc' = [pc EXCEPT ![curproc] = "cleanup"]
      /\ fault' \in {"none", "kassert"}
      /\ UNCHANGED <<curproc, p_pid, next_pid, proc_initproc, arg>>
  BY <1>1, Zenon DEF ExitStart, Reparent
<1>3. /\ Listed' = Listed
      /\ p_state' \in [Procs -> {"FREE", "RUNNING", "DEAD"}]
      /\ p_pproc' \in [Procs -> Procs \cup {Null}]
      /\ p_children' \in [Procs -> SUBSET Procs]
      /\ PidsUnique' /\ FamilyConsistent' /\ FamilyOK'
  BY ReparentFamily, Zenon
<1>4. pc[curproc] = "user" /\ fault = "none" /\ curproc # Null
  BY Zenon DEF At
<1>5. TypeOK'
  BY <1>1, <1>2, <1>3, Zenon DEF TypeOK
<1>6. PlacesOK'
  BY <1>1, <1>2, <1>4 DEF PlacesOK, TypeOK
<1>7. ThreadsOK'
  <2>1. \A p \in Listed \ {curproc} :
          kt_state[p] = "SLEEP_CANCELLABLE" => pc'[p] \notin {"none", "exited"}
    BY <1>1, <1>2, <1>4 DEF ThreadsOK, PlacesOK, TypeOK, Listed
  <2>2. queue'[curproc] = "none"
    BY <1>1, <1>4, Zenon DEF ThreadsOK
  <2>3. \A p \in Procs : queue'[p] # "none" => pc'[p] \notin {"none", "exited"}
    BY <1>1, <1>2, <1>4, <2>1 DEF ThreadsOK, TypeOK
  <2>4. \A p \in Procs : queue'[p] = "p_wait" => pc'[p] = "waitpid"
    BY <1>1, <1>2, <1>4 DEF ThreadsOK, TypeOK
  <2>5. \A p \in Procs :
          /\ pc'[p] = "cleanup" /\ kt_state'[p] = "EXITED" => curproc' = p
          /\ pc'[p] = "exited" => kt_state'[p] = "EXITED"
    BY <1>1, <1>2, <1>4 DEF ThreadsOK, TypeOK
  <2> QED
    BY <1>1, <1>2, <2>2, <2>3, <2>4, <2>5 DEF ThreadsOK, TypeOK
<1>8. BootOK'
  BY <1>1, <1>2, <1>3, <1>4, Zenon DEF BootOK, TypeOK
<1>9. InitLast'
  <2>1. CASE curproc = InitProc
    BY <1>2, <2>1, ChildlessInit, Zenon DEF User, TypeOK, InitLast
  <2>2. CASE curproc # InitProc
    BY <1>1, <1>2, <2>2, Zenon DEF InitLast, User, TypeOK
  <2> QED
    BY <2>1, <2>2, Zenon
<1>10. NoMissedExit'
  <2> SUFFICES ASSUME NEW p \in Procs, NEW c \in Procs, queue'[p] = "p_wait",
                      c \in p_children'[p], pc'[c] = "exited",
                      arg'[p] \in {c, Null}
               PROVE  p = proc_initproc' /\ arg'[p] = Null
    BY Zenon DEF NoMissedExit
  <2>1. queue[p] = "p_wait" /\ pc[c] = "exited" /\ arg[p] \in {c, Null} /\ pc[p] = "waitpid"
    BY <1>1, <1>2 DEF TypeOK, ThreadsOK
  <2>2. CASE c \in p_children[p]
    BY <1>1, <1>2, <2>1, <2>2, Zenon DEF NoMissedExit
  <2>3. CASE c \notin p_children[p]
    <3>1. p = InitProc
      BY <1>1, <1>2, <2>3, Zenon DEF TypeOK
    <3>2. arg[p] # c
      BY <2>1, <2>3, ProcConstants, Zenon DEF FamilyOK
    <3> QED
      BY <1>1, <1>2, <2>1, <3>1, <3>2, Zenon
  <2> QED
    BY <2>2, <2>3, Zenon
<1>r. RunStateOK'
  <2> SUFFICES ASSUME fault' = "none", NEW p \in Procs \ {Idle}, ~kt_cancelled'[p],
                      pc'[p] \in {"user", "waitpid"}, queue'[p] \in {"none", "run"}
               PROVE  kt_state'[p] = "RUN" \/ (p = InitProc /\ kt_state'[p] = "NO_STATE")
    BY Zenon DEF RunStateOK
  <2>1. p # curproc
    BY <1>1, <1>2, Zenon DEF TypeOK
  <2>2. pc'[p] = pc[p] /\ kt_state'[p] = kt_state[p]
    BY <1>1, <1>2, <2>1, Zenon DEF TypeOK
  <2>3. queue'[p] = queue[p] /\ ~kt_cancelled[p]
    BY Zenon
  <2> QED
    BY <1>4, <2>2, <2>3, Zenon DEF RunStateOK
<1> QED
  BY <1>r, <1>3, <1>5, <1>6, <1>7, <1>8, <1>9, <1>10, Zenon

\* exit, and the exit of a cancelled thread.
LEMMA ExitSteps ==
  ASSUME ProcInv, do_exit \/ SyscallCancelled
  PROVE  ProcInv'
<1> USE DEF ProcInv
<1>1. /\ At("user") /\ ExitStart
      /\ kt_state' = [kt_state EXCEPT ![curproc] = "EXITED"]
      /\ UNCHANGED <<kt_cancelled, queue>>
  BY Zenon DEF do_exit, SyscallCancelled
<1>2. curproc = InitProc => p_children[curproc] = {}
  BY <1>1, UserRuns, Zenon DEF do_exit, SyscallCancelled, BootOK
<1> QED
  BY <1>1, <1>2, ExitStep, Zenon DEF TypeOK, BootOK

\* proc_kill_all cancels neither init nor, twice, the caller.
LEMMA KillStep ==
  ASSUME ProcInv, proc_kill_all
  PROVE  ProcInv'
<1> DEFINE others == {p \in Listed \ {curproc} : ~Spared(p)}
<1> USE ProcConstants DEF ProcInv
<1>1. /\ At("user")
      /\ kt_cancelled' = [p \in Procs |-> p \in others \/ kt_cancelled[p]]
      /\ queue' = [p \in Procs |->
                     IF p \in others /\ kt_state[p] = "SLEEP_CANCELLABLE"
                     THEN "run" ELSE queue[p]]
  BY Zenon DEF proc_kill_all
<1>2. /\ curproc \in Procs \ {Idle, Pageoutd}
      /\ pc[Idle] = "waitpid"
      /\ proc_initproc = InitProc /\ p_pid[InitProc] = PID_INIT
  BY <1>1, UserRuns, Zenon
<1>3. Spared(InitProc)
  BY <1>2, Zenon DEF Spared
<1>4. /\ kt_cancelled' \in [Procs -> BOOLEAN] /\ ~kt_cancelled'[InitProc]
      /\ queue' \in [Procs -> {"none", "run", "p_wait", "io", "pageoutd_waitq"}]
      /\ \A p \in Procs : kt_cancelled[p] => kt_cancelled'[p]
      /\ \A p \in Procs : queue'[p] # queue[p] =>
           /\ queue'[p] = "run" /\ kt_cancelled'[p]
           /\ p \in Listed \ {curproc} /\ kt_state[p] = "SLEEP_CANCELLABLE"
  BY <1>1, <1>3, Zenon DEF TypeOK, BootOK
<1> HIDE DEF others
<1>5. CASE ~Spared(curproc)
  <2>1. ExitStart /\ kt_state' = [kt_state EXCEPT ![curproc] = "EXITED"]
    BY <1>5, Zenon DEF proc_kill_all
  <2>2. curproc # InitProc
    BY <1>3, <1>5, Zenon
  <2> QED
    BY <1>1, <1>4, <2>1, <2>2, ExitStep, Zenon
<1>6. CASE Spared(curproc)
  <2>1. UNCHANGED <<curproc, procVars, kt_state, pc, arg, fault>>
    BY <1>6, Zenon DEF proc_kill_all
  <2>2. TypeOK'
    BY <1>4, <2>1, Zenon DEF TypeOK, procVars
  <2>3. PlacesOK'
    BY <2>1, Zenon DEF PlacesOK, procVars
  <2>4. ThreadsOK'
    <3>1. \A p \in Listed : kt_state[p] = "SLEEP_CANCELLABLE" => pc[p] \notin {"none", "exited"}
      BY <1>1, Zenon DEF ThreadsOK, PlacesOK, TypeOK, Listed, At
    <3> QED
      BY <1>2, <1>4, <2>1, <3>1, Zenon DEF ThreadsOK, procVars
  <2>5. BootOK'
    BY <1>2, <1>4, <2>1, Zenon DEF BootOK, procVars, Listed
  <2>6. PidsUnique' /\ FamilyConsistent' /\ InitLast'
    BY <2>1, Zenon DEF PidsUnique, FamilyConsistent, InitLast, Listed, User, procVars
  <2>7. FamilyOK'
    BY <2>1, Zenon DEF FamilyOK, Descends, Listed, User, procVars
  <2>8. NoMissedExit'
    BY <1>4, <2>1, Zenon DEF NoMissedExit, procVars
  <2>9. RunStateOK'
    BY <1>4, <2>1, Zenon DEF RunStateOK
  <2> QED
    BY <2>9, <2>2, <2>3, <2>4, <2>5, <2>6, <2>7, <2>8, Zenon
<1> QED
  BY <1>5, <1>6, Zenon

\* The end of proc_cleanup wakes the parent if it waits.
LEMMA CleanupEndStep ==
  ASSUME ProcInv, CleanupEnd
  PROVE  ProcInv'
<1> DEFINE parent == p_pproc[curproc]
<1> USE ProcConstants DEF ProcInv
<1>1. /\ fault = "none" /\ curproc # Null /\ pc[curproc] = "cleanup"
      /\ pc' = [pc EXCEPT ![curproc] = "exited"]
      /\ fault' = IF kt_state'[curproc] = "EXITED" THEN "none" ELSE "kassert"
      /\ curproc' = Null
      /\ UNCHANGED <<procVars, kt_cancelled, arg>>
  BY Zenon DEF CleanupEnd, At
<1>2. \/ /\ queue[parent] = "p_wait"
         /\ queue' = [queue EXCEPT ![parent] = "run"]
         /\ kt_state' = [kt_state EXCEPT ![parent] = "RUN", ![curproc] = "EXITED"]
      \/ /\ queue[parent] # "p_wait"
         /\ UNCHANGED <<kt_state, queue>>
  BY Zenon DEF CleanupEnd, WakeParent
<1>3. /\ curproc \in Procs \ {Idle, Pageoutd} /\ p_state[curproc] = "DEAD"
      /\ parent \in Procs \ {curproc} /\ p_state[parent] = "RUNNING"
  BY <1>1, Zenon DEF PlacesOK, TypeOK, FamilyConsistent, Listed
<1>4. pc[parent] \notin {"cleanup", "exited", "none"}
  BY <1>3, Zenon DEF PlacesOK
<1>5. TypeOK'
  BY <1>1, <1>2, <1>3 DEF TypeOK, procVars
<1>6. PlacesOK'
  BY <1>1, <1>3 DEF PlacesOK, TypeOK, procVars
<1>7. ThreadsOK'
  BY <1>1, <1>2, <1>3, <1>4 DEF ThreadsOK, TypeOK
<1>8. BootOK'
  <2>1. pc[Idle] \in {"waitpid"}
    BY <1>1, <1>3, Zenon DEF BootOK, PlacesOK, Listed
  <2> QED
    BY <1>1, <1>3, <2>1, Zenon DEF BootOK, TypeOK, procVars, Listed
<1>9. PidsUnique' /\ FamilyConsistent'
  BY <1>1, Zenon DEF PidsUnique, FamilyConsistent, Listed, procVars
<1>10. InitLast'
  BY <1>1, <1>3, Zenon DEF InitLast, User, TypeOK, procVars
<1>11. FamilyOK'
  BY <1>1, <1>3 DEF FamilyOK, Descends, Listed, User, TypeOK, procVars
<1>12. NoMissedExit'
  <2> SUFFICES ASSUME NEW p \in Procs, NEW c \in Procs, queue'[p] = "p_wait",
                      c \in p_children'[p], pc'[c] = "exited"
               PROVE  arg'[p] \notin {c, Null} \/ (p = proc_initproc' /\ arg'[p] = Null)
    BY Zenon DEF NoMissedExit
  <2>1. queue[p] = "p_wait" /\ p # parent /\ c \in p_children[p]
    BY <1>1, <1>2, <1>3, ZenonT(40) DEF TypeOK, procVars
  <2>2. p_state[p] = "RUNNING"
    BY <2>1, Zenon DEF ThreadsOK, PlacesOK, TypeOK
  <2>3. c # curproc
    BY <2>1, <2>2, Zenon DEF FamilyConsistent
  <2>4. pc[c] = "exited"
    BY <1>1, <1>3, <2>3, Zenon DEF TypeOK
  <2> QED
    BY <1>1, <2>1, <2>4, Zenon DEF NoMissedExit, procVars
<1>r. RunStateOK'
  <2> SUFFICES ASSUME fault' = "none", NEW p \in Procs \ {Idle}, ~kt_cancelled'[p],
                      pc'[p] \in {"user", "waitpid"}, queue'[p] \in {"none", "run"}
               PROVE  kt_state'[p] = "RUN" \/ (p = InitProc /\ kt_state'[p] = "NO_STATE")
    BY Zenon DEF RunStateOK
  <2>1. p # curproc /\ pc'[p] = pc[p] /\ kt_cancelled'[p] = kt_cancelled[p]
    BY <1>1, <1>3, Zenon DEF TypeOK
  <2>2. CASE p = parent /\ queue[parent] = "p_wait"
    BY <1>2, <1>3, <2>2, Zenon DEF TypeOK
  <2>3. CASE p # parent \/ queue[parent] # "p_wait"
    <3>1. kt_state'[p] = kt_state[p] /\ queue'[p] = queue[p]
      BY <1>2, <1>3, <2>1, <2>3 DEF TypeOK
    <3> QED
      BY <1>1, <2>1, <3>1, Zenon DEF RunStateOK
  <2> QED
    BY <2>2, <2>3, Zenon
<1> QED
  BY <1>r, <1>5, <1>6, <1>7, <1>8, <1>9, <1>10, <1>11, <1>12, Zenon

\* do_waitpid disposes of a dead child: nobody's parent, and on nobody's list.
LEMMA ReapStep ==
  ASSUME ProcInv, NEW c \in Procs, WaitpidReap(c)
  PROVE  ProcInv'
<1> USE ProcConstants DEF ProcInv
<1>1. /\ fault = "none" /\ curproc # Null /\ pc[curproc] = "waitpid"
      /\ c \in p_children[curproc] /\ p_state[c] = "DEAD"
      /\ p_state' = [p_state EXCEPT ![c] = "FREE"]
      /\ p_pid' = [p_pid EXCEPT ![c] = -1]
      /\ p_pproc' = [p_pproc EXCEPT ![c] = Null]
      /\ p_children' = [p_children EXCEPT ![curproc] = @ \ {c}, ![c] = {}]
      /\ kt_state' = [kt_state EXCEPT ![c] = "NO_STATE"]
      /\ kt_cancelled' = [kt_cancelled EXCEPT ![c] = FALSE]
      /\ queue' = [queue EXCEPT ![c] = "none"]
      /\ pc' = [pc EXCEPT ![c] = "none",
                          ![curproc] = IF curproc = Idle THEN "shutdown" ELSE "user"]
      /\ arg' = [arg EXCEPT ![curproc] = Null]
      /\ fault' \in {"none", "kassert", "freed"}
      /\ UNCHANGED <<curproc, next_pid, proc_initproc>>
  BY Zenon DEF WaitpidReap, At, Exited
<1>2. /\ curproc \in Procs /\ curproc # Pageoutd /\ p_state[curproc] = "RUNNING"
      /\ c # curproc /\ c # Idle /\ c # Pageoutd
      /\ c \in Listed /\ p_pproc[c] = curproc
      /\ Listed' = Listed \ {c}
  <2>1. curproc \in Procs /\ p_state[curproc] = "RUNNING" /\ curproc # Pageoutd
    BY <1>1, RunningPlace, Zenon DEF PlacesOK
  <2>2. c # curproc /\ c # Idle /\ c # Pageoutd
    BY <1>1, <2>1, Zenon DEF PlacesOK
  <2>3. c \in Listed /\ p_pproc[c] = curproc
    BY <1>1, <2>1, Zenon DEF FamilyConsistent
  <2>4. p_state' = [p_state EXCEPT ![c] = "FREE"] /\ p_state \in [Procs -> {"FREE", "RUNNING", "DEAD"}]
    BY <1>1, Zenon DEF TypeOK
  <2>5. Listed' = Listed \ {c}
    BY <2>4, Zenon DEF Listed
  <2> QED
    BY <2>1, <2>2, <2>3, <2>5, Zenon
<1>3. curproc = Idle => c = InitProc
  BY <1>1, <1>2, Zenon DEF FamilyOK
<1>4. curproc # Idle => c # InitProc /\ pc[Idle] = "waitpid"
  <2>1. ASSUME curproc # Idle
        PROVE  c # InitProc
    BY <1>2, <2>1, Zenon DEF FamilyOK
  <2>2. ASSUME curproc # Idle
        PROVE  pc[Idle] = "waitpid"
    BY <1>1, <1>2, <2>2, Zenon DEF BootOK, PlacesOK, Listed
  <2> QED
    BY <2>1, <2>2, Zenon
<1>5. TypeOK'
  BY <1>1, <1>2 DEF TypeOK
<1>6. PlacesOK'
  BY <1>1, <1>2 DEF PlacesOK, TypeOK
<1>7. ThreadsOK'
  BY <1>1, <1>2, ZenonT(40) DEF ThreadsOK, TypeOK
<1>8. BootOK'
  BY <1>1, <1>2, <1>3, <1>4, Zenon DEF BootOK, TypeOK
<1>9. PidsUnique'
  BY <1>1, <1>2, ZenonT(40) DEF PidsUnique, TypeOK, Listed
<1>10. FamilyConsistent'
  <2>1. ASSUME NEW p \in Listed' \ {Idle}
        PROVE  /\ p_pproc'[p] \in Procs
               /\ p_state'[p_pproc'[p]] = "RUNNING"
               /\ p \in p_children'[p_pproc'[p]]
    <3>1. /\ p \in Procs /\ p # c
          /\ p_pproc[p] \in Procs
          /\ p_state[p_pproc[p]] = "RUNNING"
          /\ p \in p_children[p_pproc[p]]
      BY <1>2, <2>1, Zenon DEF FamilyConsistent, Listed
    <3> QED
      BY <1>1, <1>2, <3>1, Zenon DEF TypeOK
  <2>2. ASSUME NEW p \in Procs, p_state'[p] = "RUNNING", NEW d \in p_children'[p]
        PROVE  d \in Listed' /\ p_pproc'[d] = p
    <3>1. p # c /\ p_state[p] = "RUNNING" /\ d \in p_children[p]
      BY <1>1, <1>2, <2>2, Zenon DEF TypeOK
    <3>2. d \in Listed /\ p_pproc[d] = p
      BY <3>1, Zenon DEF FamilyConsistent
    <3>3. d # c
      BY <1>1, <1>2, <2>2, <3>2, Zenon DEF TypeOK
    <3> QED
      BY <1>1, <1>2, <3>2, <3>3, Zenon DEF TypeOK, Listed
  <2> QED
    BY <2>1, <2>2, Zenon DEF FamilyConsistent
<1>11. Descends'
  <2> SUFFICES ASSUME NEW S \in SUBSET (Listed' \cap User), S # {}
               PROVE  \E p \in S : p_pproc'[p] \notin S
    BY Zenon DEF Descends, User
  <2>1. S \in SUBSET (Listed \cap User) /\ c \notin S /\ S \subseteq Procs
    BY <1>2, Zenon DEF Listed
  <2>2. PICK p \in S : p_pproc[p] \notin S
    BY <2>1, Zenon DEF FamilyOK, Descends
  <2> QED
    BY <1>1, <2>1, <2>2, Zenon DEF TypeOK
<1>12. FamilyOK'
  <2>1. InitProc \in Listed' => p_pproc'[InitProc] = Idle
    BY <1>1, <1>2, Zenon DEF FamilyOK, TypeOK
  <2>2. p_children'[Idle] \subseteq {InitProc, Pageoutd} /\ p_children'[Pageoutd] = {}
    BY <1>1, <1>2, Zenon DEF FamilyOK, TypeOK
  <2>3. \A p \in Procs : pc'[p] = "waitpid" /\ arg'[p] # Null => arg'[p] \in p_children'[p]
    BY <1>1, <1>2, Zenon DEF FamilyOK, TypeOK
  <2> QED
    BY <1>11, <2>1, <2>2, <2>3, Zenon DEF FamilyOK
<1>13. InitLast'
  BY <1>1, <1>2, <1>3, Zenon DEF InitLast, User, TypeOK
<1>14. NoMissedExit'
  BY <1>1, <1>2 DEF NoMissedExit, TypeOK, ThreadsOK
<1>r. RunStateOK'
  <2> SUFFICES ASSUME fault' = "none", NEW p \in Procs \ {Idle}, ~kt_cancelled'[p],
                      pc'[p] \in {"user", "waitpid"}, queue'[p] \in {"none", "run"}
               PROVE  kt_state'[p] = "RUN" \/ (p = InitProc /\ kt_state'[p] = "NO_STATE")
    BY Zenon DEF RunStateOK
  <2>1. p # c
    BY <1>1, <1>2, Zenon DEF TypeOK
  <2>2. /\ kt_state'[p] = kt_state[p] /\ queue'[p] = queue[p]
        /\ kt_cancelled'[p] = kt_cancelled[p]
    BY <1>1, <2>1, Zenon DEF TypeOK
  <2>3. pc[p] \in {"user", "waitpid"}
    BY <1>1, <1>2, <2>1, Zenon DEF TypeOK
  <2> QED
    BY <1>1, <2>2, <2>3, Zenon DEF RunStateOK
<1> QED
  BY <1>r, <1>5, <1>6, <1>7, <1>8, <1>9, <1>10, <1>12, <1>13, <1>14, Zenon

(***************************************************************************)
(* proc_getid                                                              *)
(***************************************************************************)

\* A set of natural numbers has a least element, so that proc_getid's search for
\* the first unused pid is well defined.
LEMMA LeastNat ==
  ASSUME NEW T, T \subseteq Nat, T # {}
  PROVE  \E m \in T : \A n \in T : m <= n
<1> DEFINE R == OpToRel(<, Nat)
<1>1. \E x \in T : \A y \in T : ~(<<y, x>> \in R)
  <2>1. IsWellFoundedOn(R, Nat)
    BY NatLessThanWellFounded, Zenon
  <2> HIDE DEF R
  <2> QED BY <2>1, WFMin, Zenon
<1>2. \A x, y \in Nat : <<y, x>> \in R <=> y < x
  BY Zenon DEF OpToRel
<1> HIDE DEF R
<1>3. PICK x \in T : \A y \in T : ~(<<y, x>> \in R)
  BY <1>1, Zenon
<1>4. ASSUME NEW y \in T
      PROVE  x <= y
  <2>1. ~(<<y, x>> \in R) /\ x \in Nat /\ y \in Nat
    BY <1>3, Zenon
  <2>2. ~(y < x)
    BY <2>1, <1>2, Zenon
  <2> QED BY <2>1, <2>2
<1> QED BY <1>4

\* proc_getid returns a pid that no process has, or -1.
LEMMA GetidUnused ==
  ASSUME TypeOK
  PROVE  proc_getid = -1 \/ (proc_getid \in 0..(PROC_MAX_COUNT - 1) /\ proc_getid \notin UsedPids)
<1> DEFINE pid(k) == (next_pid + k) % PROC_MAX_COUNT
           free == {k \in 0..(PROC_MAX_COUNT - 1) : pid(k) \notin UsedPids}
           least == CHOOSE k \in free : \A j \in free : k <= j
<1>1. proc_getid = IF free = {} THEN -1 ELSE pid(least)
  BY Zenon DEF proc_getid
<1>2. ASSUME free # {}
      PROVE  least \in free
  <2>1. free \subseteq Nat
    BY ProcConstants
  <2>2. \E k \in free : \A j \in free : k <= j
    <3> HIDE DEF free
    <3> QED BY <1>2, <2>1, LeastNat, Zenon
  <2> HIDE DEF free
  <2> QED BY <2>2
<1>3. \A k \in Nat : pid(k) \in 0..(PROC_MAX_COUNT - 1)
  BY ProcConstants DEF TypeOK
<1> HIDE DEF least
<1>4. ASSUME free # {}
      PROVE  pid(least) \in 0..(PROC_MAX_COUNT - 1) /\ pid(least) \notin UsedPids
  <2>1. least \in 0..(PROC_MAX_COUNT - 1) /\ pid(least) \notin UsedPids
    BY <1>2, <1>4, Zenon
  <2>2. least \in Nat
    BY <2>1, ProcConstants
  <2> HIDE DEF pid
  <2> QED BY <1>3, <2>1, <2>2
<1> HIDE DEF pid, free
<1> QED BY <1>1, <1>4

\* If next_pid is unused, it is the one.
LEMMA GetidNext ==
  ASSUME TypeOK, next_pid \notin UsedPids
  PROVE  proc_getid = next_pid
<1> DEFINE pid(k) == (next_pid + k) % PROC_MAX_COUNT
           free == {k \in 0..(PROC_MAX_COUNT - 1) : pid(k) \notin UsedPids}
           least == CHOOSE k \in free : \A j \in free : k <= j
<1>1. proc_getid = IF free = {} THEN -1 ELSE pid(least)
  BY Zenon DEF proc_getid
<1>2. pid(0) = next_pid
  BY ProcConstants DEF TypeOK
<1>3. 0 \in free
  BY <1>2, ProcConstants
<1>4. \A j \in free : 0 <= j /\ j \in Int
  OBVIOUS
<1>5. least = 0
  <2>1. \A k \in free : (\A j \in free : k <= j) => k = 0
    <3> HIDE DEF free
    <3> QED BY <1>3, <1>4
  <2> HIDE DEF free
  <2> QED BY <1>3, <1>4, <2>1
<1> HIDE DEF pid, free, least
<1> QED BY <1>1, <1>2, <1>3, <1>5

(***************************************************************************)
(* proc_create and its callers                                             *)
(***************************************************************************)

\* A new process gets a pid of its own, and the current one as its parent.
LEMMA CreateFamily ==
  ASSUME ProcInv, curproc \in Procs, p_state[curproc] = "RUNNING",
         NEW c \in Procs, proc_create(c)
  PROVE  /\ c # curproc /\ c \notin Listed /\ Listed' = Listed \cup {c}
         /\ p_state' \in [Procs -> {"FREE", "RUNNING", "DEAD"}]
         /\ p_pid' \in [Procs -> -1..(PROC_MAX_COUNT - 1)]
         /\ p_pproc' \in [Procs -> Procs \cup {Null}]
         /\ p_children' \in [Procs -> SUBSET Procs]
         /\ next_pid' \in 0..(PROC_MAX_COUNT - 1)
         /\ proc_initproc' \in Procs \cup {Null}
         /\ PidsUnique' /\ FamilyConsistent' /\ Descends'
<1> DEFINE pid == proc_getid
<1> USE ProcConstants DEF ProcInv
<1>1. pid = -1 \/ (pid \in 0..(PROC_MAX_COUNT - 1) /\ pid \notin UsedPids)
  BY GetidUnused, Zenon
<1>2. /\ p_state[c] = "FREE"
      /\ p_state' = [p_state EXCEPT ![c] = "RUNNING"]
      /\ p_pid' = [p_pid EXCEPT ![c] = pid]
      /\ p_pproc' = [p_pproc EXCEPT ![c] = curproc]
      /\ p_children' = [p_children EXCEPT ![c] = {}, ![curproc] = @ \cup {c}]
      /\ next_pid' = IF pid = -1 THEN next_pid ELSE (pid + 1) % PROC_MAX_COUNT
      /\ proc_initproc' = IF pid = PID_INIT THEN c ELSE proc_initproc
  BY Zenon DEF proc_create
<1> HIDE DEF pid
<1>3. c # curproc /\ c \notin Listed /\ Listed' = Listed \cup {c}
  BY <1>2, Zenon DEF Listed, TypeOK
<1>4. next_pid' \in 0..(PROC_MAX_COUNT - 1)
  BY <1>1, <1>2 DEF TypeOK
<1>5. /\ p_state' \in [Procs -> {"FREE", "RUNNING", "DEAD"}]
      /\ p_pid' \in [Procs -> -1..(PROC_MAX_COUNT - 1)]
      /\ p_pproc' \in [Procs -> Procs \cup {Null}]
      /\ p_children' \in [Procs -> SUBSET Procs]
      /\ proc_initproc' \in Procs \cup {Null}
  <2>1. pid \in -1..(PROC_MAX_COUNT - 1)
    BY <1>1
  <2> QED
    BY <1>2, <2>1, Zenon DEF TypeOK
<1>6. PidsUnique'
  <2>1. \A p \in Listed : p_pid'[p] = p_pid[p] /\ p_pid[p] \in UsedPids
    BY <1>2, <1>3, Zenon DEF Listed, UsedPids, TypeOK
  <2>2. p_pid'[c] = pid
    BY <1>2, Zenon DEF TypeOK
  <2> QED
    BY <1>1, <1>3, <2>1, <2>2, Zenon DEF PidsUnique
<1>7. FamilyConsistent'
  <2>1. \A p \in Listed : p_pproc'[p] = p_pproc[p]
    BY <1>2, <1>3, Zenon DEF Listed, TypeOK
  <2>2. p_pproc'[c] = curproc /\ p_state'[curproc] = "RUNNING" /\ p_children'[c] = {}
    BY <1>2, <1>3, Zenon DEF TypeOK
  <2>3. p_children'[curproc] = p_children[curproc] \cup {c}
    BY <1>2, <1>3, Zenon DEF TypeOK
  <2>4. \A p \in Procs \ {c, curproc} : p_children'[p] = p_children[p]
    BY <1>2, <1>3, Zenon DEF TypeOK
  <2>5. \A p \in Procs \ {c} : p_state'[p] = p_state[p]
    BY <1>2, Zenon DEF TypeOK
  <2>6. ASSUME NEW p \in Listed' \ {Idle}
        PROVE  /\ p_pproc'[p] \in Procs
               /\ p_state'[p_pproc'[p]] = "RUNNING"
               /\ p \in p_children'[p_pproc'[p]]
    <3>1. CASE p = c
      BY <1>2, <1>3, <2>2, <2>3, <3>1, Zenon
    <3>2. CASE p # c
      <4>1. p \in Listed \ {Idle}
        BY <1>3, <2>6, <3>2, Zenon
      <4>2. /\ p_pproc[p] \in Procs \ {c}
            /\ p_state[p_pproc[p]] = "RUNNING"
            /\ p \in p_children[p_pproc[p]]
        BY <1>2, <4>1, Zenon DEF FamilyConsistent
      <4> QED
        BY <2>1, <2>3, <2>4, <2>5, <4>1, <4>2, Zenon
    <3> QED
      BY <3>1, <3>2, Zenon
  <2>7. ASSUME NEW p \in Procs, p_state'[p] = "RUNNING", NEW d \in p_children'[p]
        PROVE  d \in Listed' /\ p_pproc'[d] = p
    <3>1. p # c
      BY <2>2, <2>7, Zenon
    <3>2. CASE d = c
      <4>1. ~(\E q \in Procs : p_state[q] = "RUNNING" /\ c \in p_children[q])
        BY <1>3, Zenon DEF FamilyConsistent
      <4>2. p = curproc
        BY <2>4, <2>5, <2>7, <3>1, <3>2, <4>1, Zenon
      <4> QED
        BY <1>3, <2>2, <3>2, <4>2, Zenon
    <3>3. CASE d # c
      <4>1. p_state[p] = "RUNNING" /\ d \in p_children[p]
        BY <2>3, <2>4, <2>5, <2>7, <3>1, <3>3, Zenon
      <4>2. d \in Listed /\ p_pproc[d] = p
        BY <4>1, Zenon DEF FamilyConsistent
      <4> QED
        BY <1>3, <2>1, <4>2, Zenon
    <3> QED
      BY <3>2, <3>3, Zenon
  <2> QED
    BY <2>6, <2>7, Zenon DEF FamilyConsistent
<1>8. Descends'
  <2> SUFFICES ASSUME NEW S \in SUBSET (Listed' \cap User), S # {}
               PROVE  \E p \in S : p_pproc'[p] \notin S
    BY Zenon DEF Descends, User
  <2>1. \A p \in Listed : p_pproc'[p] = p_pproc[p]
    BY <1>2, <1>3, Zenon DEF Listed, TypeOK
  <2>2. CASE S \subseteq {c}
    BY <1>2, <1>3, <2>2, SMTT(30) DEF TypeOK
  <2>3. CASE ~(S \subseteq {c})
    <3>1. S \ {c} \in SUBSET (Listed \cap User) /\ S \ {c} # {}
      BY <1>3, <2>3, Zenon
    <3>2. PICK p \in S \ {c} : p_pproc[p] \notin S \ {c}
      BY <3>1, Zenon DEF Descends, FamilyOK
    <3>3. p \in Listed \ {Idle}
      BY <3>1, Zenon DEF User
    <3>4. p_pproc[p] # c
      BY <1>2, <3>3, Zenon DEF FamilyConsistent
    <3> QED
      BY <2>1, <3>2, <3>3, <3>4, Zenon
  <2> QED
    BY <2>2, <2>3, Zenon
<1> QED
  BY <1>2, <1>3, <1>4, <1>5, <1>6, <1>7, <1>8, Zenon

\* Init executes its program and has not slept yet.
InitUnslept == curproc = InitProc /\ pc[InitProc] = "user" /\ kt_state[InitProc] = "NO_STATE"

\* do_fork: the child runs, and is no one's zombie.
LEMMA ForkStep ==
  ASSUME ProcInv, NEW c \in Procs, do_fork(c)
  PROVE  ProcInv' /\ (fault' = "none" \/ InitUnslept)
<1> USE ProcConstants DEF ProcInv, PID_IDLE, PID_INIT
<1>1. /\ At("user") /\ proc_create(c)
      /\ ~kt_cancelled[curproc]
      /\ KASSERT(PidAllowed /\ kt_state[curproc] = "RUN")
      /\ kt_state' = [kt_state EXCEPT ![c] = kt_state[curproc]]
      /\ kt_cancelled' = [kt_cancelled EXCEPT ![c] = FALSE]
      /\ queue' = [queue EXCEPT ![c] = "run"]
      /\ pc' = [pc EXCEPT ![c] = "user", ![curproc] = "user"]
      /\ UNCHANGED <<arg, curproc>>
  BY Zenon DEF do_fork, NewThread
<1>2. /\ curproc \in Procs \ {Idle, Pageoutd} /\ p_state[curproc] = "RUNNING"
      /\ pc[Idle] = "waitpid" /\ p_state[Idle] = "RUNNING"
      /\ proc_initproc = InitProc /\ p_pid[InitProc] = PID_INIT
      /\ p_state[InitProc] = "RUNNING" /\ pc[InitProc] \in {"user", "waitpid"}
      /\ {Idle, InitProc, Pageoutd} \subseteq Listed
  BY <1>1, UserRuns, Zenon
<1>3. /\ c # curproc /\ c \notin Listed /\ Listed' = Listed \cup {c}
      /\ p_state' \in [Procs -> {"FREE", "RUNNING", "DEAD"}]
      /\ p_pid' \in [Procs -> -1..(PROC_MAX_COUNT - 1)]
      /\ p_pproc' \in [Procs -> Procs \cup {Null}]
      /\ p_children' \in [Procs -> SUBSET Procs]
      /\ next_pid' \in 0..(PROC_MAX_COUNT - 1)
      /\ proc_initproc' \in Procs \cup {Null}
      /\ PidsUnique' /\ FamilyConsistent' /\ Descends'
  BY <1>1, <1>2, CreateFamily, Zenon
<1>4. c \in User /\ c # InitProc /\ c # Idle /\ c # Pageoutd
  BY <1>2, <1>3, Zenon DEF User
<1>5. proc_getid \notin {PID_IDLE, PID_INIT}
  <2>1. PID_IDLE \in UsedPids /\ PID_INIT \in UsedPids
    BY <1>2, Zenon DEF UsedPids, BootOK
  <2> QED
    BY <2>1, GetidUnused
<1>6. /\ p_state' = [p_state EXCEPT ![c] = "RUNNING"]
      /\ p_pid' = [p_pid EXCEPT ![c] = proc_getid]
      /\ p_pproc' = [p_pproc EXCEPT ![c] = curproc]
      /\ p_children' = [p_children EXCEPT ![c] = {}, ![curproc] = @ \cup {c}]
      /\ proc_initproc' = InitProc
      /\ fault' = IF kt_state[curproc] = "RUN" THEN "none" ELSE "kassert"
  BY <1>1, <1>2, <1>5, Zenon DEF proc_create, KASSERT, PidAllowed
<1>13. fault' = "none" \/ InitUnslept
  <2>1. queue[curproc] = "none" /\ pc[curproc] = "user" /\ fault = "none"
    BY <1>1, Zenon DEF ThreadsOK, At
  <2> QED
    BY <1>1, <1>2, <1>6, <2>1, Zenon DEF RunStateOK, InitUnslept
<1>7. TypeOK'
  <2>1. kt_state' \in [Procs -> {"NO_STATE", "RUN", "SLEEP", "SLEEP_CANCELLABLE", "EXITED"}]
    BY <1>1, <1>2, Zenon DEF TypeOK
  <2>2. fault' \in {"none", "kassert", "freed"}
    BY <1>6, Zenon
  <2> QED
    BY <1>1, <1>2, <1>3, <1>6, <2>1, <2>2, Zenon DEF TypeOK
<1>8. PlacesOK' /\ ThreadsOK'
  <2>1. PlacesOK'
    BY <1>1, <1>2, <1>3, <1>4, <1>6, SMTT(30) DEF PlacesOK, ThreadsOK, TypeOK, At
  <2>2. ThreadsOK'
    <3>1. /\ pc'[c] = "user" /\ queue'[c] = "run"
          /\ pc'[curproc] = "user" /\ pc[curproc] = "user"
      BY <1>1, <1>2, <1>3, Zenon DEF TypeOK, At
    <3>2. \A p \in Procs \ {c} : /\ pc'[p] = pc[p] /\ queue'[p] = queue[p]
                                 /\ kt_state'[p] = kt_state[p]
      BY <1>1, <1>2, <3>1, Zenon DEF TypeOK
    <3>3. curproc' = curproc /\ fault = "none" /\ curproc \in Procs \ {c} /\ curproc # Null
      BY <1>1, <1>2, <1>3, Zenon DEF At
    <3>4. ASSUME NEW p \in Procs
          PROVE  /\ queue'[p] # "none" => pc'[p] \notin {"none", "exited"}
                 /\ queue'[p] = "p_wait" => pc'[p] = "waitpid"
                 /\ pc'[p] = "cleanup" /\ kt_state'[p] = "EXITED" => curproc' = p
                 /\ pc'[p] = "exited" /\ fault' = "none" => kt_state'[p] = "EXITED"
      <4>1. CASE p = c
        BY <3>1, <4>1, Zenon
      <4>2. CASE p # c
        <5>1. pc'[p] = pc[p] /\ queue'[p] = queue[p] /\ kt_state'[p] = kt_state[p]
          BY <3>2, <4>2, Zenon
        <5> QED
          BY <3>3, <5>1, Zenon DEF ThreadsOK
      <4> QED
        BY <4>1, <4>2, Zenon
    <3>5. queue'[curproc'] = "none" /\ pc'[curproc'] \notin {"none", "exited"}
      <4>1. queue'[curproc] = "none"
        BY <3>2, <3>3, Zenon DEF ThreadsOK
      <4> QED
        BY <3>1, <3>3, <4>1, Zenon
    <3> QED
      BY <3>4, <3>5, Zenon DEF ThreadsOK
  <2> QED
    BY <2>1, <2>2, Zenon
<1>9. BootOK'
  BY <1>1, <1>2, <1>3, <1>4, <1>6, Zenon DEF BootOK, TypeOK
<1>10. FamilyOK'
  BY <1>1, <1>2, <1>3, <1>4, <1>6, SMTT(30) DEF FamilyOK, TypeOK, PlacesOK, Listed, At
<1>11. InitLast'
  BY <1>1, <1>2, <1>4, Zenon DEF InitLast, TypeOK
<1>12. NoMissedExit'
  <2>1. /\ pc'[c] = "user" /\ queue'[c] = "run"
        /\ \A p \in Procs \ {c} : queue'[p] = queue[p]
    BY <1>1, <1>2, <1>3, Zenon DEF TypeOK
  <2>2. queue[curproc] = "none" /\ curproc \in Procs \ {c}
    BY <1>2, <1>3, <1>1, Zenon DEF ThreadsOK, At
  <2>3. \A p \in Procs \ {c, curproc} : p_children'[p] = p_children[p]
    BY <1>2, <1>6, Zenon DEF TypeOK
  <2>4. \A p \in Procs : pc'[p] = "exited" => pc[p] = "exited"
    BY <1>1, <1>2, <1>3, Zenon DEF TypeOK
  <2>5. proc_initproc' = proc_initproc /\ arg' = arg
    BY <1>1, <1>2, <1>6, Zenon
  <2> SUFFICES ASSUME NEW p \in Procs, NEW d \in Procs,
                      queue'[p] = "p_wait", d \in p_children'[p], pc'[d] = "exited"
               PROVE  arg'[p] \notin {d, Null} \/ (p = proc_initproc' /\ arg'[p] = Null)
    BY Zenon DEF NoMissedExit
  <2>6. p # c /\ p # curproc
    BY <2>1, <2>2, Zenon
  <2>7. queue[p] = "p_wait" /\ d \in p_children[p] /\ pc[d] = "exited"
    BY <2>1, <2>3, <2>4, <2>6, Zenon
  <2> QED
    BY <2>5, <2>7, Zenon DEF NoMissedExit
<1>r. RunStateOK'
  <2> SUFFICES ASSUME fault' = "none", NEW p \in Procs \ {Idle}, ~kt_cancelled'[p],
                      pc'[p] \in {"user", "waitpid"}, queue'[p] \in {"none", "run"}
               PROVE  kt_state'[p] = "RUN" \/ (p = InitProc /\ kt_state'[p] = "NO_STATE")
    BY Zenon DEF RunStateOK
  <2>1. kt_state[curproc] = "RUN" /\ fault = "none"
    BY <1>1, <1>6, Zenon DEF At
  <2>2. CASE p = c
    BY <1>1, <2>1, <2>2, Zenon DEF TypeOK
  <2>3. CASE p # c
    <3>1. /\ kt_state'[p] = kt_state[p] /\ queue'[p] = queue[p]
          /\ kt_cancelled'[p] = kt_cancelled[p] /\ pc'[p] = pc[p]
      BY <1>1, <1>2, <2>3, Zenon DEF TypeOK, At
    <3> QED
      BY <2>1, <3>1, Zenon DEF RunStateOK
  <2> QED
    BY <2>2, <2>3, Zenon
<1> QED
  BY <1>r, <1>13, <1>3, <1>6, <1>7, <1>8, <1>9, <1>10, <1>11, <1>12, Zenon

\* The idle process creates init, which gets pid 1 and does not run yet.
LEMMA InitprocStep ==
  ASSUME ProcInv, initproc_create
  PROVE  ProcInv' /\ fault' = "none"
<1> USE ProcConstants DEF ProcInv, PID_IDLE, PID_INIT, PID_PAGEOUTD
<1>1. /\ At("boot") /\ proc_create(InitProc)
      /\ KASSERT(PidAllowed /\ proc_getid = PID_INIT)
      /\ kt_state' = [kt_state EXCEPT ![InitProc] = "NO_STATE"]
      /\ kt_cancelled' = [kt_cancelled EXCEPT ![InitProc] = FALSE]
      /\ queue' = [queue EXCEPT ![InitProc] = "none"]
      /\ pc' = [pc EXCEPT ![InitProc] = "user", ![curproc] = "init_call_all"]
      /\ UNCHANGED <<arg, curproc>>
  BY Zenon DEF initproc_create, NewThread
<1>2. /\ curproc = Idle /\ p_state[Idle] = "RUNNING" /\ p_pid[Idle] = PID_IDLE
      /\ Listed = {Idle} /\ next_pid = PID_INIT
  BY <1>1, RunningPlace, Zenon DEF At, PlacesOK, BootOK
<1>3. /\ Listed' = {Idle, InitProc}
      /\ p_state' \in [Procs -> {"FREE", "RUNNING", "DEAD"}]
      /\ p_pid' \in [Procs -> -1..(PROC_MAX_COUNT - 1)]
      /\ p_pproc' \in [Procs -> Procs \cup {Null}]
      /\ p_children' \in [Procs -> SUBSET Procs]
      /\ next_pid' \in 0..(PROC_MAX_COUNT - 1)
      /\ proc_initproc' \in Procs \cup {Null}
      /\ PidsUnique' /\ FamilyConsistent' /\ Descends'
  <2>1. curproc \in Procs /\ p_state[curproc] = "RUNNING"
    BY <1>2, Zenon
  <2> QED
    BY <1>1, <1>2, <2>1, CreateFamily, Zenon
<1>4. proc_getid = PID_INIT
  BY <1>2, GetidNext DEF UsedPids
<1>5. /\ p_state' = [p_state EXCEPT ![InitProc] = "RUNNING"]
      /\ p_pid' = [p_pid EXCEPT ![InitProc] = PID_INIT]
      /\ p_pproc' = [p_pproc EXCEPT ![InitProc] = Idle]
      /\ p_children' = [p_children EXCEPT ![InitProc] = {}, ![Idle] = @ \cup {InitProc}]
      /\ next_pid' = PID_PAGEOUTD
      /\ proc_initproc' = InitProc
      /\ fault' = "none"
  <2>1. (PID_INIT + 1) % PROC_MAX_COUNT = PID_PAGEOUTD
    OBVIOUS
  <2> QED
    BY <1>1, <1>2, <1>4, <2>1 DEF proc_create, KASSERT, PidAllowed
<1>6. TypeOK'
  BY <1>1, <1>2, <1>3, <1>5, Zenon DEF TypeOK
<1>7. PlacesOK' /\ ThreadsOK'
  <2>1. PlacesOK'
    BY <1>1, <1>2, <1>5, SMTT(30) DEF PlacesOK, ThreadsOK, TypeOK, Listed
  <2>2. ThreadsOK'
    BY <1>1, <1>2, <1>5, SMTT(30) DEF PlacesOK, ThreadsOK, TypeOK, Listed
  <2> QED
    BY <2>1, <2>2, Zenon
<1>8. BootOK'
  BY <1>1, <1>2, <1>3, <1>5, Zenon DEF BootOK, TypeOK
<1>9. FamilyOK'
  BY <1>1, <1>2, <1>3, <1>5 DEF FamilyOK, TypeOK
<1>10. InitLast'
  BY <1>1, <1>2, Zenon DEF InitLast, TypeOK
<1>11. NoMissedExit'
  BY <1>1, <1>2, <1>5 DEF NoMissedExit, TypeOK, ThreadsOK, PlacesOK, Listed
<1>r. RunStateOK'
  <2> SUFFICES ASSUME fault' = "none", NEW p \in Procs \ {Idle}, ~kt_cancelled'[p],
                      pc'[p] \in {"user", "waitpid"}, queue'[p] \in {"none", "run"}
               PROVE  kt_state'[p] = "RUN" \/ (p = InitProc /\ kt_state'[p] = "NO_STATE")
    BY Zenon DEF RunStateOK
  <2>1. CASE p = InitProc
    BY <1>1, <2>1, Zenon DEF TypeOK
  <2>2. CASE p # InitProc
    <3>1. /\ kt_state'[p] = kt_state[p] /\ queue'[p] = queue[p]
          /\ kt_cancelled'[p] = kt_cancelled[p] /\ pc'[p] = pc[p]
      BY <1>1, <1>2, <2>2, Zenon DEF TypeOK
    <3> QED
      BY <1>1, <3>1, Zenon DEF RunStateOK, At
  <2> QED
    BY <2>1, <2>2, Zenon
<1> QED
  BY <1>r, <1>3, <1>5, <1>6, <1>7, <1>8, <1>9, <1>10, <1>11, Zenon

\* The idle process creates pageoutd before init runs.
LEMMA PageoutdStep ==
  ASSUME ProcInv, pageoutd_init
  PROVE  ProcInv' /\ fault' = "none"
<1> USE ProcConstants DEF ProcInv, PID_IDLE, PID_INIT, PID_PAGEOUTD
<1>1. /\ At("init_call_all") /\ proc_create(Pageoutd)
      /\ KASSERT(PidAllowed)
      /\ kt_state' = [kt_state EXCEPT ![Pageoutd] = "NO_STATE"]
      /\ kt_cancelled' = [kt_cancelled EXCEPT ![Pageoutd] = FALSE]
      /\ queue' = [queue EXCEPT ![Pageoutd] = "run"]
      /\ pc' = [pc EXCEPT ![Pageoutd] = "pageoutd_run", ![curproc] = "mknod"]
      /\ UNCHANGED <<arg, curproc>>
  BY Zenon DEF pageoutd_init, NewThread
<1>2. /\ curproc = Idle /\ p_state[Idle] = "RUNNING" /\ p_pid[Idle] = PID_IDLE
      /\ Listed = {Idle, InitProc} /\ next_pid = PID_PAGEOUTD
      /\ pc[InitProc] = "user" /\ queue[InitProc] = "none"
      /\ proc_initproc = InitProc /\ p_pid[InitProc] = PID_INIT
  BY <1>1, RunningPlace, Zenon DEF At, PlacesOK, BootOK
<1>3. /\ Listed' = {Idle, InitProc, Pageoutd}
      /\ p_state' \in [Procs -> {"FREE", "RUNNING", "DEAD"}]
      /\ p_pid' \in [Procs -> -1..(PROC_MAX_COUNT - 1)]
      /\ p_pproc' \in [Procs -> Procs \cup {Null}]
      /\ p_children' \in [Procs -> SUBSET Procs]
      /\ next_pid' \in 0..(PROC_MAX_COUNT - 1)
      /\ PidsUnique' /\ FamilyConsistent' /\ Descends'
  <2>1. curproc \in Procs /\ p_state[curproc] = "RUNNING"
    BY <1>2, Zenon
  <2> QED
    BY <1>1, <1>2, <2>1, CreateFamily, Zenon
<1>4. proc_getid = PID_PAGEOUTD
  BY <1>2, GetidNext DEF UsedPids
<1>5. /\ p_state' = [p_state EXCEPT ![Pageoutd] = "RUNNING"]
      /\ p_pid' = [p_pid EXCEPT ![Pageoutd] = PID_PAGEOUTD]
      /\ p_pproc' = [p_pproc EXCEPT ![Pageoutd] = Idle]
      /\ p_children' = [p_children EXCEPT ![Pageoutd] = {}, ![Idle] = @ \cup {Pageoutd}]
      /\ proc_initproc' = InitProc
      /\ fault' = "none"
  BY <1>1, <1>2, <1>4, SMTT(30) DEF proc_create, KASSERT, PidAllowed
<1>6. TypeOK'
  BY <1>1, <1>2, <1>3, <1>5, Zenon DEF TypeOK
<1>7. /\ pc'[Idle] = "mknod" /\ pc'[Pageoutd] = "pageoutd_run" /\ pc'[InitProc] = pc[InitProc]
      /\ queue'[Idle] = queue[Idle] /\ queue'[Pageoutd] = "run"
      /\ \A p \in Procs \ {Idle, Pageoutd} :
           pc'[p] = pc[p] /\ queue'[p] = queue[p] /\ kt_state'[p] = kt_state[p]
      /\ kt_cancelled'[InitProc] = kt_cancelled[InitProc]
      /\ p_pid'[Idle] = p_pid[Idle] /\ p_pid'[InitProc] = p_pid[InitProc]
  BY <1>1, <1>2, <1>5, Zenon DEF TypeOK
<1>8. PlacesOK' /\ ThreadsOK'
  <2>1. PlacesOK'
    BY <1>1, <1>2, <1>5, SMTT(30) DEF PlacesOK, ThreadsOK, TypeOK, Listed
  <2>2. ThreadsOK'
    <3>1. ASSUME NEW p \in Procs
          PROVE  /\ queue'[p] # "none" => pc'[p] \notin {"none", "exited"}
                 /\ queue'[p] = "p_wait" => pc'[p] = "waitpid"
                 /\ pc'[p] = "cleanup" /\ kt_state'[p] = "EXITED" => curproc' = p
                 /\ pc'[p] = "exited" /\ fault' = "none" => kt_state'[p] = "EXITED"
      <4>1. CASE p \in {Idle, Pageoutd}
        BY <1>2, <1>7, <4>1, Zenon DEF ThreadsOK
      <4>2. CASE p \notin {Idle, Pageoutd}
        <5>1. pc'[p] = pc[p] /\ queue'[p] = queue[p] /\ kt_state'[p] = kt_state[p]
          BY <1>7, <4>2, Zenon
        <5>2. curproc' = curproc /\ fault = "none"
          BY <1>1, Zenon DEF At
        <5> QED
          BY <5>1, <5>2, Zenon DEF ThreadsOK
      <4> QED
        BY <4>1, <4>2, Zenon
    <3>2. curproc' # Null => queue'[curproc'] = "none" /\ pc'[curproc'] \notin {"none", "exited"}
      BY <1>1, <1>2, <1>7, Zenon DEF ThreadsOK
    <3> QED
      BY <3>1, <3>2, Zenon DEF ThreadsOK
  <2> QED
    BY <2>1, <2>2, Zenon
<1>9. BootOK'
  <2>1. curproc' = Idle /\ arg' = arg /\ proc_initproc' = InitProc
    BY <1>1, <1>2, <1>5, Zenon
  <2>2. Idle # InitProc /\ queue'[InitProc] = "none" /\ pc'[InitProc] = "user"
    BY <1>2, <1>7, Zenon
  <2> QED
    BY <1>2, <1>3, <1>7, <2>1, <2>2, Zenon DEF BootOK
<1>10. FamilyOK'
  BY <1>1, <1>2, <1>3, <1>5 DEF FamilyOK, TypeOK
<1>11. InitLast'
  BY <1>1, <1>2, Zenon DEF InitLast, TypeOK
<1>12. NoMissedExit'
  BY <1>1, <1>2, <1>5 DEF NoMissedExit, TypeOK, ThreadsOK, PlacesOK, Listed
<1>r. RunStateOK'
  <2> SUFFICES ASSUME fault' = "none", NEW p \in Procs \ {Idle}, ~kt_cancelled'[p],
                      pc'[p] \in {"user", "waitpid"}, queue'[p] \in {"none", "run"}
               PROVE  kt_state'[p] = "RUN" \/ (p = InitProc /\ kt_state'[p] = "NO_STATE")
    BY Zenon DEF RunStateOK
  <2>1. p # Pageoutd
    BY <1>7, Zenon
  <2>2. p \in Procs \ {Idle, Pageoutd}
    BY <2>1, Zenon
  <2>3. kt_state'[p] = kt_state[p] /\ queue'[p] = queue[p] /\ pc'[p] = pc[p]
    BY <1>7, <2>2, Zenon
  <2>4. kt_cancelled'[p] = kt_cancelled[p]
    BY <1>1, <2>1, Zenon DEF TypeOK
  <2> QED
    BY <1>1, <2>3, <2>4, Zenon DEF RunStateOK, At
<1> QED
  BY <1>r, <1>3, <1>5, <1>6, <1>8, <1>9, <1>10, <1>11, <1>12, Zenon

(***************************************************************************)
(* Invariants                                                              *)
(***************************************************************************)

\* Every step of the kernel keeps the invariant.
LEMMA NextInv == ProcInv /\ [Next]_vars => ProcInv'
<1> SUFFICES ASSUME ProcInv, [Next]_vars PROVE ProcInv'
  OBVIOUS
<1>1. CASE initproc_create \/ pageoutd_init \/ RunInit
  BY <1>1, InitprocStep, PageoutdStep, RunInitStep, Zenon
<1>2. CASE \E c \in Procs : do_fork(c)
  BY <1>2, ForkStep, Zenon
<1>3. CASE \E c \in Procs \cup {Null} : do_waitpid(c)
  BY <1>3, WaitpidStep, Zenon
<1>4. CASE \E c \in Procs : WaitpidReap(c)
  BY <1>4, ReapStep, Zenon
<1>5. CASE \/ WaitpidSleep \/ CleanupSleep \/ PageoutdSleep
           \/ \E state \in {"SLEEP", "SLEEP_CANCELLABLE"} : Block(state)
  BY <1>5, SleepSteps, Zenon
<1>6. CASE do_exit \/ SyscallCancelled
  BY <1>6, ExitSteps, Zenon
<1>7. CASE CleanupEnd
  BY <1>7, CleanupEndStep, Zenon
<1>8. CASE proc_kill_all
  BY <1>8, KillStep, Zenon
<1>9. CASE \E p \in Procs : Dispatch(p) \/ Wakeup(p)
  BY <1>9, DispatchStep, WakeupStep, Zenon
<1>10. CASE thr_yield
  BY <1>10, YieldStep, Zenon
<1>11. CASE UNCHANGED vars
  <2>1. UNCHANGED <<curproc, procVars, kt_state, kt_cancelled, queue, pc, arg, fault>>
    BY <1>11, Zenon DEF vars, threadVars
  <2>2. PlacesOK' /\ PidsUnique' /\ FamilyConsistent' /\ FamilyOK' /\ InitLast'
    BY <2>1, SameProcesses, Zenon
  <2>3. TypeOK' /\ ThreadsOK' /\ RunStateOK'
    BY <2>1, Zenon DEF ProcInv, TypeOK, ThreadsOK, RunStateOK, procVars
  <2>4. BootOK' /\ NoMissedExit'
    BY <2>1, Zenon DEF ProcInv, BootOK, NoMissedExit, procVars, Listed
  <2> QED
    BY <2>2, <2>3, <2>4, Zenon DEF ProcInv
<1> QED
  BY <1>1, <1>2, <1>3, <1>4, <1>5, <1>6, <1>7, <1>8, <1>9, <1>10, <1>11, Zenon DEF Next, Stopped

\* Whatever is forked, waits, exits and is killed in whatever order, the types,
\* the places of threads, the boot order, the pids, the families and the waits
\* for children are as ProcInv says.
THEOREM ProcInvariant == Spec => []ProcInv
<1>1. Init => ProcInv
  BY InitInv, Zenon
<1>2. ProcInv /\ [Next]_vars => ProcInv'
  BY NextInv, Zenon
<1> QED
  BY <1>1, <1>2, PTL DEF Spec

\* proc_create gives no two processes the same pid, for any number of pids and
\* slots and however often next_pid has wrapped around.
THEOREM PidsNeverShared == Spec => []PidsUnique
<1>1. ProcInv => PidsUnique
  BY Zenon DEF ProcInv
<1> QED
  BY <1>1, ProcInvariant, PTL

\* proc_cleanup and do_waitpid keep p_pproc and the lists of children in
\* agreement, and leave no process with a dead parent.
THEOREM NoOrphans == Spec => []FamilyConsistent
<1>1. ProcInv => FamilyConsistent
  BY Zenon DEF ProcInv
<1> QED
  BY <1>1, ProcInvariant, PTL

\* When init has exited nobody else is left: idleproc_run goes on to final_shutdown
\* with no process that was forked.
THEOREM InitExitsLast == Spec => []InitLast
<1>1. ProcInv => InitLast
  BY Zenon DEF ProcInv
<1> QED
  BY <1>1, ProcInvariant, PTL

\* proc_cleanup's wakeup of the parent is enough: no process sleeps in do_waitpid
\* for a child that has exited, init waiting for any child excepted.
THEOREM ExitsAreSeen == Spec => []NoMissedExit
<1>1. ProcInv => NoMissedExit
  BY Zenon DEF ProcInv
<1> QED
  BY <1>1, ProcInvariant, PTL

(***************************************************************************)
(* KASSERTs                                                                *)
(***************************************************************************)

\* With as many pids as slots proc_getid finds one whenever there is a free slot.
LEMMA GetidFound ==
  ASSUME TypeOK, IsFiniteSet(Procs), Cardinality(Procs) <= PROC_MAX_COUNT,
         NEW c \in Procs, c \notin Listed
  PROVE  proc_getid # -1
<1> DEFINE pid(k) == (next_pid + k) % PROC_MAX_COUNT
           free == {k \in 0..(PROC_MAX_COUNT - 1) : pid(k) \notin UsedPids}
<1> USE ProcConstants
<1>1. /\ IsFiniteSet(Listed) /\ Cardinality(Listed) \in Nat
      /\ Cardinality(Listed) < PROC_MAX_COUNT
  <2>1. Listed \subseteq Procs \ {c}
    BY Zenon DEF Listed
  <2>2. IsFiniteSet(Procs \ {c}) /\ Cardinality(Procs \ {c}) = Cardinality(Procs) - 1
    BY FS_RemoveElement, Zenon
  <2>3. IsFiniteSet(Listed) /\ Cardinality(Listed) <= Cardinality(Procs \ {c})
    BY <2>1, <2>2, FS_Subset, Zenon
  <2> QED
    BY <2>2, <2>3, FS_CardinalityType
<1>2. IsFiniteSet(UsedPids) /\ Cardinality(UsedPids) <= Cardinality(Listed)
  <2> DEFINE f == [p \in Listed |-> p_pid[p]]
  <2>1. f \in Surjection(Listed, UsedPids)
    BY Zenon DEF UsedPids, Surjection
  <2> HIDE DEF f
  <2> QED
    BY <1>1, <2>1, FS_Surjection, Zenon
<1>3. PICK i \in 0..(PROC_MAX_COUNT - 1) : i \notin UsedPids
  <2>1. ASSUME 0..(PROC_MAX_COUNT - 1) \subseteq UsedPids
        PROVE  FALSE
    <3>1. Cardinality(0..(PROC_MAX_COUNT - 1)) <= Cardinality(UsedPids)
      BY <1>2, <2>1, FS_Subset, Zenon
    <3>2. Cardinality(0..(PROC_MAX_COUNT - 1)) = PROC_MAX_COUNT
      BY FS_Interval
    <3>3. Cardinality(UsedPids) \in Nat
      BY <1>2, FS_CardinalityType, Zenon
    <3> QED
      BY <1>1, <1>2, <3>1, <3>2, <3>3
  <2> QED
    BY <2>1, Zenon
<1>4. free # {}
  <2> DEFINE k == IF i >= next_pid THEN i - next_pid ELSE i - next_pid + PROC_MAX_COUNT
  <2>1. k \in 0..(PROC_MAX_COUNT - 1) /\ (next_pid + k = i \/ next_pid + k = i + PROC_MAX_COUNT)
    BY DEF TypeOK
  <2>2. pid(k) = i
    BY <2>1
  <2> QED
    BY <1>3, <2>1, <2>2, Zenon
<1>5. \A k \in free : pid(k) # -1
  BY DEF TypeOK
<1>6. proc_getid = IF free = {} THEN -1 ELSE pid(CHOOSE k \in free : \A j \in free : k <= j)
  BY Zenon DEF proc_getid
<1>7. (CHOOSE k \in free : \A j \in free : k <= j) \in free
  <2>1. free \subseteq Nat
    OBVIOUS
  <2> HIDE DEF free
  <2> QED
    BY <1>4, <2>1, LeastNat, Zenon
<1> HIDE DEF pid, free
<1> QED
  BY <1>4, <1>5, <1>6, <1>7, Zenon

\* There are as many pids as there can be processes.
EnoughPids == IsFiniteSet(Procs) /\ Cardinality(Procs) <= PROC_MAX_COUNT

\* Every process has a pid.
PidsHeld == \A p \in Listed : p_pid[p] # -1

\* proc_create does not fail to find a pid, and nobody loses theirs.
LEMMA PidsHeldStep ==
  ASSUME EnoughPids, ProcInv, PidsHeld, [Next]_vars
  PROVE  PidsHeld'
<1>1. ASSUME NEW c \in Procs, proc_create(c)
      PROVE  PidsHeld'
  <2>1. proc_getid # -1
    BY <1>1, GetidFound, Zenon DEF ProcInv, EnoughPids, proc_create, Listed
  <2>2. /\ p_state' = [p_state EXCEPT ![c] = "RUNNING"]
        /\ p_pid' = [p_pid EXCEPT ![c] = proc_getid]
    BY <1>1, Zenon DEF proc_create
  <2> QED
    BY <2>1, <2>2, Zenon DEF PidsHeld, Listed, ProcInv, TypeOK
<1>2. ASSUME NEW c \in Procs, WaitpidReap(c)
      PROVE  PidsHeld'
  <2>1. /\ p_state' = [p_state EXCEPT ![c] = "FREE"]
        /\ p_pid' = [p_pid EXCEPT ![c] = -1]
    BY <1>2, Zenon DEF WaitpidReap
  <2> QED
    BY <2>1, Zenon DEF PidsHeld, Listed, ProcInv, TypeOK
<1>3. ASSUME At("user"), ExitStart
      PROVE  PidsHeld'
  <2>1. curproc \in Listed
    BY <1>3, UserRuns, Zenon DEF Listed
  <2>2. p_state' = [p_state EXCEPT ![curproc] = "DEAD"] /\ p_pid' = p_pid
    BY <1>3, Zenon DEF ExitStart
  <2> QED
    BY <2>1, <2>2, Zenon DEF PidsHeld, Listed, ProcInv, TypeOK
<1>4. ASSUME UNCHANGED procVars
      PROVE  PidsHeld'
  BY <1>4, Zenon DEF PidsHeld, Listed, procVars
<1>5. CASE initproc_create \/ pageoutd_init \/ \E c \in Procs : do_fork(c)
  BY <1>1, <1>5, ProcConstants, Zenon DEF initproc_create, pageoutd_init, do_fork
<1>6. CASE do_exit \/ SyscallCancelled \/ proc_kill_all
  BY <1>3, <1>4, <1>6, Zenon DEF do_exit, SyscallCancelled, proc_kill_all
<1>7. CASE \/ RunInit \/ PageoutdSleep \/ WaitpidSleep \/ CleanupSleep \/ CleanupEnd
           \/ \E c \in Procs \cup {Null} : do_waitpid(c)
  BY <1>4, <1>7, Zenon DEF RunInit, PageoutdSleep, WaitpidSleep, CleanupSleep, CleanupEnd, do_waitpid
<1>8. CASE \/ thr_yield \/ UNCHANGED vars
           \/ \E p \in Procs : Dispatch(p) \/ Wakeup(p)
           \/ \E state \in {"SLEEP", "SLEEP_CANCELLABLE"} : Block(state)
  BY <1>4, <1>8, Zenon DEF thr_yield, Dispatch, Wakeup, Block, vars
<1> QED
  BY <1>2, <1>5, <1>6, <1>7, <1>8, Zenon DEF Next, Stopped

\* The exceptions of NoFault.
Excepted ==
  \/ SleptCleanup(curproc)
  \/ pc[curproc] = "waitpid" /\ \E c \in p_children[curproc] : SleptCleanup(c)
  \/ InitUnslept

\* Where a KASSERT may fail or a process be freed in use: in a cleanup that has
\* slept, in a fork by init before it has slept, and in the exit of a process that
\* has no pid.
LEMMA FaultStep ==
  ASSUME ProcInv, Next, fault = "none", fault' # "none"
  PROVE  Excepted \/ (curproc \in Listed /\ p_pid[curproc] = -1)
<1> USE ProcConstants DEF ProcInv
<1>1. ASSUME NEW c \in Procs, WaitpidReap(c)
      PROVE  Excepted
  <2>1. /\ curproc \in Procs /\ pc[curproc] = "waitpid"
        /\ c \in p_children[curproc] /\ p_state[c] = "DEAD"
        /\ pc[c] # "exited" \/ (curproc = Idle /\ p_pid[c] # PID_INIT)
    BY <1>1, RunningPlace, Zenon DEF WaitpidReap, At, Exited
  <2>2. pc[c] \in {"cleanup", "exited"}
    BY <2>1, Zenon DEF PlacesOK
  <2>3. CASE pc[c] # "exited"
    <3>1. pc[c] = "cleanup" /\ c # curproc
      BY <2>1, <2>2, <2>3, Zenon
    <3> QED
      BY <2>1, <3>1, Zenon DEF ThreadsOK, SleptCleanup, Excepted, PlacesOK
  <2>4. CASE pc[c] = "exited"
    <3>1. c = InitProc
      BY <2>1, <2>4, Zenon DEF FamilyOK, PlacesOK
    <3> QED
      BY <2>1, <2>4, <3>1, Zenon DEF BootOK
  <2> QED
    BY <2>3, <2>4, Zenon
<1>2. ASSUME At("user"), ExitStart
      PROVE  curproc \in Listed /\ p_pid[curproc] = -1
  <2>1. curproc \in Listed /\ Idle \in Listed /\ curproc # Idle
    BY <1>2, UserRuns, Zenon DEF Listed
  <2>2. ~(p_pid[curproc] >= 1) /\ p_pid[curproc] \in -1..(PROC_MAX_COUNT - 1)
    BY <1>2, <2>1, Zenon DEF ExitStart, TypeOK, Listed
  <2>3. p_pid[curproc] # 0
    BY <2>1 DEF PidsUnique, BootOK, PID_IDLE
  <2> QED
    BY <2>1, <2>2, <2>3
<1>3. ASSUME CleanupEnd
      PROVE  Excepted
  <2>1. curproc \in Procs /\ pc[curproc] = "cleanup" /\ kt_state'[curproc] # "EXITED"
    BY <1>3, Zenon DEF CleanupEnd, At, TypeOK
  <2>2. WakeParent
    BY <1>3, Zenon DEF CleanupEnd
  <2>3. kt_state' = kt_state
    BY <2>1, <2>2, Zenon DEF WakeParent, TypeOK
  <2> QED
    BY <2>1, <2>3, Zenon DEF SleptCleanup, Excepted
<1>4. CASE initproc_create \/ pageoutd_init \/ \E c \in Procs : do_fork(c)
  BY <1>4, InitprocStep, PageoutdStep, ForkStep, Zenon DEF Excepted
<1>5. CASE do_exit \/ SyscallCancelled \/ proc_kill_all
  BY <1>2, <1>5, Zenon DEF do_exit, SyscallCancelled, proc_kill_all
<1>6. CASE \/ RunInit \/ PageoutdSleep \/ WaitpidSleep \/ CleanupSleep
           \/ \E c \in Procs \cup {Null} : do_waitpid(c)
  BY <1>6, Zenon DEF RunInit, PageoutdSleep, WaitpidSleep, CleanupSleep, do_waitpid
<1>7. CASE \/ thr_yield \/ Stopped
           \/ \E p \in Procs : Dispatch(p) \/ Wakeup(p)
           \/ \E state \in {"SLEEP", "SLEEP_CANCELLABLE"} : Block(state)
  BY <1>7, Zenon DEF thr_yield, Dispatch, Wakeup, Block, Stopped, vars
<1> QED
  BY <1>1, <1>3, <1>4, <1>5, <1>6, <1>7, Zenon DEF Next

\* For any number of pids: a KASSERT of the process code fails, or a process is
\* freed while its thread still runs, only where a cleanup has slept, init forks
\* before it has slept, or a process that proc_getid left without a pid exits.
THEOREM FaultsOnlyThere ==
  Spec => [][fault = "none" /\ fault' # "none" =>
               Excepted \/ (curproc \in Listed /\ p_pid[curproc] = -1)]_vars
<1>1. ProcInv /\ [Next]_vars =>
        [fault = "none" /\ fault' # "none" =>
           Excepted \/ (curproc \in Listed /\ p_pid[curproc] = -1)]_vars
  BY FaultStep, Zenon DEF vars
<1> QED
  BY <1>1, ProcInvariant, PTL DEF Spec

\* With as many pids as there can be processes, no KASSERT of the process code
\* fails and no process is freed while its thread still runs, but where a cleanup
\* has slept or init forks before it has slept.
THEOREM NoFaultWithPids ==
  ASSUME EnoughPids
  PROVE  Spec => NoFault
<1>1. Init => PidsHeld
  <2> SUFFICES ASSUME Init, NEW p \in Listed
               PROVE  p_pid[p] # -1
    BY Zenon DEF PidsHeld
  <2>1. p = Idle
    BY Zenon DEF Init, Listed
  <2> QED
    BY <2>1, ProcConstants DEF Init, PID_IDLE
<1>2. ProcInv /\ PidsHeld /\ [Next]_vars => PidsHeld'
  BY PidsHeldStep, Zenon
<1>3. ProcInv /\ PidsHeld /\ [Next]_vars =>
        [fault = "none" /\ fault' # "none" =>
           \/ SleptCleanup(curproc)
           \/ pc[curproc] = "waitpid" /\ \E c \in p_children[curproc] : SleptCleanup(c)
           \/ curproc = InitProc /\ pc[InitProc] = "user" /\ kt_state[InitProc] = "NO_STATE"]_vars
  BY FaultStep, Zenon DEF PidsHeld, Excepted, InitUnslept, vars
<1> QED
  BY <1>1, <1>2, <1>3, ProcInvariant, PTL DEF Spec, NoFault
=============================================================================
