---------------------------- MODULE SchedProofs -----------------------------
(***************************************************************************)
(* The inductive invariant SchedInv of Sched, for any number of threads,   *)
(* mutexes and queues: lemmas about queues, every step preserves it, and   *)
(* the properties it implies.                                              *)
(***************************************************************************)
EXTENDS Sched, TLAPS

(***************************************************************************)
(* Sequences without repetition, and their elements                        *)
(***************************************************************************)

Elem(s, e) == \E i \in 1..Len(s) : s[i] = e
Distinct(s) == \A i, j \in 1..Len(s) : s[i] = s[j] => i = j

\* ktqueue_enqueue's list_insert_head adds one element, and keeps the elements
\* distinct if it was not there.
LEMMA AppendElem ==
  ASSUME NEW S, NEW s \in Seq(S), NEW e \in S
  PROVE  /\ Append(s, e) \in Seq(S)
         /\ \A x : Elem(Append(s, e), x) <=> Elem(s, x) \/ x = e
         /\ Distinct(s) /\ ~Elem(s, e) => Distinct(Append(s, e))
  BY DEF Elem, Distinct

\* ktqueue_dequeue takes exactly the first element out.
LEMMA TailElem ==
  ASSUME NEW S, NEW s \in Seq(S), s # <<>>, Distinct(s)
  PROVE  /\ Head(s) \in S
         /\ Elem(s, Head(s))
         /\ Tail(s) \in Seq(S)
         /\ Distinct(Tail(s))
         /\ \A x : Elem(Tail(s), x) <=> Elem(s, x) /\ x # Head(s)
<1>1. /\ Len(s) \in Nat \ {0}
      /\ Head(s) = s[1]
      /\ Head(s) \in S
      /\ Tail(s) \in Seq(S)
      /\ Len(Tail(s)) = Len(s) - 1
      /\ \A i \in 1..Len(Tail(s)) : Tail(s)[i] = s[i + 1]
  OBVIOUS
<1>2. Elem(s, Head(s))
  BY <1>1 DEF Elem
<1>3. Distinct(Tail(s))
  BY <1>1 DEF Distinct
<1>4. ASSUME NEW x
      PROVE  Elem(Tail(s), x) <=> Elem(s, x) /\ x # Head(s)
  <2>1. ASSUME Elem(Tail(s), x)
        PROVE  Elem(s, x) /\ x # Head(s)
    BY <1>1, <2>1 DEF Elem, Distinct
  <2>2. ASSUME Elem(s, x), x # Head(s)
        PROVE  Elem(Tail(s), x)
    <3>1. PICK i \in 1..Len(s) : s[i] = x
      BY <2>2, Zenon DEF Elem
    <3>2. i - 1 \in 1..Len(Tail(s)) /\ Tail(s)[i - 1] = x
      BY <1>1, <2>2, <3>1
    <3> QED
      BY <3>2, Zenon DEF Elem
  <2> QED
    BY <2>1, <2>2, Zenon
<1> QED
  BY <1>1, <1>2, <1>3, <1>4, Zenon

\* ktqueue_remove takes exactly the given element out, wherever it is.
LEMMA UnlinkElem ==
  ASSUME NEW S, NEW s \in Seq(S), NEW e, Elem(s, e), Distinct(s)
  PROVE  /\ Unlink(s, e) \in Seq(S)
         /\ Distinct(Unlink(s, e))
         /\ \A x : Elem(Unlink(s, e), x) <=> Elem(s, x) /\ x # e
<1> DEFINE k == CHOOSE j \in 1..Len(s) : s[j] = e
           n == Len(s)
           u == Unlink(s, e)
<1>1. k \in 1..n /\ s[k] = e /\ n \in Nat /\ \A i \in 1..n : s[i] \in S
  BY DEF Elem
<1>2. u = [i \in 1..(n - 1) |-> s[IF i < k THEN i ELSE i + 1]]
  BY Zenon DEF Unlink
<1> HIDE DEF k, u
<1>3. /\ u \in Seq(S)
      /\ Len(u) = n - 1
      /\ \A i \in 1..(n - 1) : u[i] = IF i < k THEN s[i] ELSE s[i + 1]
  BY <1>1, <1>2
<1>4. Distinct(u)
  <2> SUFFICES ASSUME NEW i \in 1..(n - 1), NEW j \in 1..(n - 1), u[i] = u[j]
               PROVE  i = j
    BY <1>3, Zenon DEF Distinct
  <2> DEFINE p(x) == IF x < k THEN x ELSE x + 1
  <2>1. p(i) \in 1..n /\ p(j) \in 1..n
    BY <1>1
  <2>2. u[i] = s[p(i)] /\ u[j] = s[p(j)]
    BY <1>3, Zenon
  <2>3. p(i) = p(j)
    BY <2>1, <2>2, Zenon DEF Distinct
  <2> QED
    BY <1>1, <2>3
<1>5. ASSUME NEW x
      PROVE  Elem(u, x) <=> Elem(s, x) /\ x # e
  <2>1. ASSUME Elem(u, x)
        PROVE  Elem(s, x) /\ x # e
    BY <1>1, <1>3, <2>1 DEF Elem, Distinct
  <2>2. ASSUME Elem(s, x), x # e
        PROVE  Elem(u, x)
    <3>1. PICK i \in 1..n : s[i] = x
      BY <2>2, Zenon DEF Elem
    <3>2. CASE i < k
      BY <1>1, <1>3, <3>1, <3>2 DEF Elem
    <3>3. CASE i > k
      <4>1. i - 1 \in 1..(n - 1) /\ u[i - 1] = x
        BY <1>1, <1>3, <3>1, <3>3
      <4> QED
        BY <4>1, <1>3, Zenon DEF Elem
    <3> QED
      BY <1>1, <2>2, <3>1, <3>2, <3>3
  <2> QED
    BY <2>1, <2>2, Zenon
<1> QED
  BY <1>2, <1>3, <1>4, <1>5, Zenon DEF u

(***************************************************************************)
(* The queue operations keep kt_wchan and the lists consistent             *)
(***************************************************************************)

QueueTypes ==
  /\ kt_wchan \in [Threads -> Queues \cup {Null}]
  /\ tq_list \in [Queues -> Seq(Threads)]

\* kt_wchan's NULL is no queue, and kt_runq is not one of the wait queues.
LEMMA NullNoQueue == Null \notin Queues /\ RunQ \notin WaitQueues
  BY SchedConstants, Zenon DEF Queues, WaitQueues

\* The locals at rest have the type TypeOK gives them.
LEMMA LocalsType ==
  ASSUME NEW thr \in Threads \cup {Null}, NEW q \in Queues \cup {Null}
  PROVE  Locals(thr, q) \in [thr : Threads \cup {Null},
                            then : {"run", "unlock", "broadcast", "resched"},
                            q : Queues \cup {Null}, ipl : {"LOW", "HIGH"},
                            snap : Seq(Threads)]
  BY DEF Locals

\* On consistent queues a thread is an element of the queue kt_wchan names.
LEMMA ConsistentElem ==
  QueuesConsistent <=>
    \A q \in Queues :
      /\ Distinct(tq_list[q])
      /\ \A t \in Threads : kt_wchan[t] = q <=> Elem(tq_list[q], t)
  BY Zenon DEF QueuesConsistent, Distinct, Elem, On

\* The same of the state after a step.
LEMMA ConsistentElemPrimed ==
  QueuesConsistent' <=>
    \A q \in Queues :
      /\ Distinct(tq_list'[q])
      /\ \A t \in Threads : kt_wchan'[t] = q <=> Elem(tq_list'[q], t)
  BY Zenon DEF QueuesConsistent, Distinct, Elem, On

\* A thread that is on no queue goes to the end of q.
LEMMA EnqueueConsistent ==
  ASSUME QueueTypes, QueuesConsistent,
         NEW q \in Queues, NEW thr \in Threads, kt_wchan[thr] = Null,
         ktqueue_enqueue(q, thr)
  PROVE  QueueTypes' /\ QueuesConsistent'
<1>1. /\ tq_list[q] \in Seq(Threads)
      /\ Distinct(tq_list[q])
      /\ ~Elem(tq_list[q], thr)
  BY ConsistentElem, NullNoQueue, Zenon DEF QueueTypes
<1>2. /\ Append(tq_list[q], thr) \in Seq(Threads)
      /\ \A x : Elem(Append(tq_list[q], thr), x) <=> Elem(tq_list[q], x) \/ x = thr
      /\ Distinct(Append(tq_list[q], thr))
  BY <1>1, AppendElem, Zenon
<1>3. QueueTypes'
  BY <1>2, Zenon DEF QueueTypes, ktqueue_enqueue
<1>4. ASSUME NEW r \in Queues
      PROVE  /\ Distinct(tq_list'[r])
             /\ \A t \in Threads : kt_wchan'[t] = r <=> Elem(tq_list'[r], t)
  <2>1. /\ Distinct(tq_list[r])
        /\ \A t \in Threads : kt_wchan[t] = r <=> Elem(tq_list[r], t)
    BY ConsistentElem, Zenon
  <2>2. tq_list'[r] = IF r = q THEN Append(tq_list[q], thr) ELSE tq_list[r]
    BY Zenon DEF ktqueue_enqueue, QueueTypes
  <2>3. \A t \in Threads : kt_wchan'[t] = IF t = thr THEN q ELSE kt_wchan[t]
    BY Zenon DEF ktqueue_enqueue, QueueTypes
  <2> QED
    BY <1>2, <2>1, <2>2, <2>3, NullNoQueue, Zenon
<1> QED
  BY <1>3, <1>4, ConsistentElemPrimed, Zenon

\* The first thread of q leaves it.
LEMMA DequeueConsistent ==
  ASSUME QueueTypes, QueuesConsistent,
         NEW q \in Queues, tq_list[q] # <<>>, ktqueue_dequeue(q)
  PROVE  /\ QueueTypes' /\ QueuesConsistent'
         /\ Head(tq_list[q]) \in Threads
         /\ kt_wchan[Head(tq_list[q])] = q
<1> DEFINE h == Head(tq_list[q])
<1>1. tq_list[q] \in Seq(Threads) /\ Distinct(tq_list[q])
  BY ConsistentElem, Zenon DEF QueueTypes
<1>2. /\ h \in Threads
      /\ Elem(tq_list[q], h)
      /\ Tail(tq_list[q]) \in Seq(Threads)
      /\ Distinct(Tail(tq_list[q]))
      /\ \A x : Elem(Tail(tq_list[q]), x) <=> Elem(tq_list[q], x) /\ x # h
  BY <1>1, TailElem, Zenon
<1>3. kt_wchan[h] = q
  BY <1>2, ConsistentElem, Zenon
<1>4. QueueTypes'
  BY <1>2, Zenon DEF QueueTypes, ktqueue_dequeue
<1>5. ASSUME NEW r \in Queues
      PROVE  /\ Distinct(tq_list'[r])
             /\ \A t \in Threads : kt_wchan'[t] = r <=> Elem(tq_list'[r], t)
  <2>1. /\ Distinct(tq_list[r])
        /\ \A t \in Threads : kt_wchan[t] = r <=> Elem(tq_list[r], t)
    BY ConsistentElem, Zenon
  <2>2. tq_list'[r] = IF r = q THEN Tail(tq_list[q]) ELSE tq_list[r]
    BY Zenon DEF ktqueue_dequeue, QueueTypes
  <2>3. \A t \in Threads : kt_wchan'[t] = IF t = h THEN Null ELSE kt_wchan[t]
    BY Zenon DEF ktqueue_dequeue, QueueTypes
  <2> HIDE DEF h
  <2> QED
    BY <1>2, <1>3, <2>1, <2>2, <2>3, NullNoQueue, Zenon
<1> QED
  BY <1>2, <1>3, <1>4, <1>5, ConsistentElemPrimed, Zenon

\* A thread leaves the queue it is on, wherever it stands in it.
LEMMA RemoveConsistent ==
  ASSUME QueueTypes, QueuesConsistent,
         NEW thr \in Threads, kt_wchan[thr] # Null,
         ktqueue_remove(kt_wchan[thr], thr)
  PROVE  QueueTypes' /\ QueuesConsistent'
<1> DEFINE q == kt_wchan[thr]
<1>1. q \in Queues
  BY Zenon DEF QueueTypes
<1>2. tq_list[q] \in Seq(Threads) /\ Distinct(tq_list[q]) /\ Elem(tq_list[q], thr)
  BY <1>1, ConsistentElem, Zenon DEF QueueTypes
<1>3. /\ Unlink(tq_list[q], thr) \in Seq(Threads)
      /\ Distinct(Unlink(tq_list[q], thr))
      /\ \A x : Elem(Unlink(tq_list[q], thr), x) <=> Elem(tq_list[q], x) /\ x # thr
  BY <1>2, UnlinkElem, Zenon
<1>4. QueueTypes'
  BY <1>1, <1>3, Zenon DEF QueueTypes, ktqueue_remove
<1>5. ASSUME NEW r \in Queues
      PROVE  /\ Distinct(tq_list'[r])
             /\ \A t \in Threads : kt_wchan'[t] = r <=> Elem(tq_list'[r], t)
  <2>1. /\ Distinct(tq_list[r])
        /\ \A t \in Threads : kt_wchan[t] = r <=> Elem(tq_list[r], t)
    BY ConsistentElem, Zenon
  <2>2. tq_list'[r] = IF r = q THEN Unlink(tq_list[q], thr) ELSE tq_list[r]
    BY Zenon DEF ktqueue_remove, QueueTypes
  <2>3. \A t \in Threads : kt_wchan'[t] = IF t = thr THEN Null ELSE kt_wchan[t]
    BY Zenon DEF ktqueue_remove, QueueTypes
  <2> QED
    BY <1>3, <2>1, <2>2, <2>3, NullNoQueue, Zenon
<1> QED
  BY <1>4, <1>5, ConsistentElemPrimed, Zenon

\* The handler's sched_wakeup_on moves the first sleeper of q to the run queue.
LEMMA InterruptConsistent ==
  ASSUME QueueTypes, QueuesConsistent, NEW q \in DevQueues,
         tq_list[q] # <<>>, Interrupt(q)
  PROVE  /\ QueueTypes' /\ QueuesConsistent'
         /\ Head(tq_list[q]) \in Threads
         /\ kt_wchan[Head(tq_list[q])] = q
<1> DEFINE h == Head(tq_list[q])
<1>1. q \in Queues /\ RunQ \in Queues /\ q # RunQ
  BY SchedConstants, Zenon DEF Queues, WaitQueues
<1>2. /\ tq_list[q] \in Seq(Threads) /\ Distinct(tq_list[q])
      /\ tq_list[RunQ] \in Seq(Threads) /\ Distinct(tq_list[RunQ])
  BY <1>1, ConsistentElem, Zenon DEF QueueTypes
<1>3. /\ h \in Threads
      /\ Elem(tq_list[q], h)
      /\ Tail(tq_list[q]) \in Seq(Threads)
      /\ Distinct(Tail(tq_list[q]))
      /\ \A x : Elem(Tail(tq_list[q]), x) <=> Elem(tq_list[q], x) /\ x # h
  BY <1>2, TailElem, Zenon
<1>4. kt_wchan[h] = q /\ ~Elem(tq_list[RunQ], h)
  BY <1>1, <1>3, ConsistentElem
<1>5. /\ Append(tq_list[RunQ], h) \in Seq(Threads)
      /\ \A x : Elem(Append(tq_list[RunQ], h), x) <=> Elem(tq_list[RunQ], x) \/ x = h
      /\ Distinct(Append(tq_list[RunQ], h))
  BY <1>2, <1>3, <1>4, AppendElem, Zenon
<1>6. /\ tq_list' = [tq_list EXCEPT ![q] = Tail(@), ![RunQ] = Append(@, h)]
      /\ kt_wchan' = [kt_wchan EXCEPT ![h] = RunQ]
  BY Zenon DEF Interrupt
<1> HIDE DEF h
<1>7. QueueTypes'
  BY <1>1, <1>3, <1>5, <1>6, Zenon DEF QueueTypes
<1>8. ASSUME NEW r \in Queues
      PROVE  /\ Distinct(tq_list'[r])
             /\ \A t \in Threads : kt_wchan'[t] = r <=> Elem(tq_list'[r], t)
  <2>1. /\ Distinct(tq_list[r])
        /\ \A t \in Threads : kt_wchan[t] = r <=> Elem(tq_list[r], t)
    BY ConsistentElem, Zenon
  <2>2. tq_list'[r] = IF r = RunQ THEN Append(tq_list[RunQ], h)
                      ELSE IF r = q THEN Tail(tq_list[q]) ELSE tq_list[r]
    BY <1>1, <1>6, Zenon DEF QueueTypes
  <2>3. \A t \in Threads : kt_wchan'[t] = IF t = h THEN RunQ ELSE kt_wchan[t]
    BY <1>6, Zenon DEF QueueTypes
  <2> QED
    BY <1>1, <1>3, <1>4, <1>5, <2>1, <2>2, <2>3, Zenon
<1> QED
  BY <1>3, <1>4, <1>7, <1>8, ConsistentElemPrimed, Zenon DEF h

(***************************************************************************)
(* Steps that move no thread from one queue to another                     *)
(***************************************************************************)

\* sched_switch: entering the idle loop.
LEMMA IdleDisableStep ==
  ASSUME SchedInv, IdleDisable
  PROVE  SchedInv'
<1> USE SchedConstants DEF SchedInv
<1>1. TypeOK'
  BY Zenon DEF TypeOK, NoMk, Locals, NoCall, IdleDisable, threadVars, clientVars, Executing,
     Switching, Queues, WaitQueues, States
<1>2. QueuesConsistent'
  BY DEF QueuesConsistent, On, IdleDisable, threadVars
<1>3. NoLostThread'
  BY Zenon DEF NoLostThread, IdleDisable, threadVars, clientVars, Executing, Queues
<1>4. SleepersAsleep'
  BY Zenon DEF SleepersAsleep, IdleDisable, threadVars, clientVars, Executing, WaitQueues
<1>5. LockedIsHolder'
  BY Zenon DEF LockedIsHolder, IdleDisable, threadVars, clientVars
<1>6. NoWaiterOnFreeMutex'
  BY Zenon DEF NoWaiterOnFreeMutex, IdleDisable, threadVars, clientVars
<1>7. LocalsOK'
  BY Zenon DEF LocalsOK, NoMk, Locals, IdleDisable, threadVars, clientVars
<1>8. StatesOK'
  BY Zenon DEF StatesOK, IdleDisable, threadVars, clientVars, WaitQueues
<1>9. CallsOK'
  BY Zenon DEF CallsOK, LockGranted, NoCall, IdleDisable, threadVars, clientVars, Executing
<1>10. IdleOK'
  BY Zenon DEF IdleOK, IdleDisable, threadVars, clientVars
<1> QED
  BY <1>1, <1>2, <1>3, <1>4, <1>5, <1>6, <1>7, <1>8, <1>9, <1>10, Zenon

\* sched_switch: halting.
LEMMA IdleWaitStep ==
  ASSUME SchedInv, IdleWait
  PROVE  SchedInv'
<1> USE SchedConstants DEF SchedInv
<1>1. TypeOK'
  BY Zenon DEF TypeOK, NoMk, Locals, NoCall, IdleWait, threadVars, clientVars, Executing,
     Switching, Queues, WaitQueues, States
<1>2. QueuesConsistent'
  BY DEF QueuesConsistent, On, IdleWait, threadVars
<1>3. NoLostThread'
  BY Zenon DEF NoLostThread, IdleWait, threadVars, clientVars, Executing, Queues
<1>4. SleepersAsleep'
  BY Zenon DEF SleepersAsleep, IdleWait, threadVars, clientVars, Executing, WaitQueues
<1>5. LockedIsHolder'
  BY Zenon DEF LockedIsHolder, IdleWait, threadVars, clientVars
<1>6. NoWaiterOnFreeMutex'
  BY Zenon DEF NoWaiterOnFreeMutex, IdleWait, threadVars, clientVars
<1>7. LocalsOK'
  BY Zenon DEF LocalsOK, NoMk, Locals, IdleWait, threadVars, clientVars
<1>8. StatesOK'
  BY Zenon DEF StatesOK, IdleWait, threadVars, clientVars, WaitQueues
<1>9. CallsOK'
  BY Zenon DEF CallsOK, LockGranted, NoCall, IdleWait, threadVars, clientVars, Executing
<1>10. IdleOK'
  BY Zenon DEF IdleOK, IdleWait, threadVars, clientVars
<1> QED
  BY <1>1, <1>2, <1>3, <1>4, <1>5, <1>6, <1>7, <1>8, <1>9, <1>10, Zenon

\* sched_switch: leaving the halt.
LEMMA IdleMaskStep ==
  ASSUME SchedInv, IdleMask
  PROVE  SchedInv'
<1> USE SchedConstants DEF SchedInv
<1>1. TypeOK'
  BY Zenon DEF TypeOK, NoMk, Locals, NoCall, IdleMask, threadVars, clientVars, Executing,
     Switching, Queues, WaitQueues, States
<1>2. QueuesConsistent'
  BY DEF QueuesConsistent, On, IdleMask, threadVars
<1>3. NoLostThread'
  BY Zenon DEF NoLostThread, IdleMask, threadVars, clientVars, Executing, Queues
<1>4. SleepersAsleep'
  BY Zenon DEF SleepersAsleep, IdleMask, threadVars, clientVars, Executing, WaitQueues
<1>5. LockedIsHolder'
  BY Zenon DEF LockedIsHolder, IdleMask, threadVars, clientVars
<1>6. NoWaiterOnFreeMutex'
  BY Zenon DEF NoWaiterOnFreeMutex, IdleMask, threadVars, clientVars
<1>7. LocalsOK'
  BY Zenon DEF LocalsOK, NoMk, Locals, IdleMask, threadVars, clientVars
<1>8. StatesOK'
  BY Zenon DEF StatesOK, IdleMask, threadVars, clientVars, WaitQueues
<1>9. CallsOK'
  BY Zenon DEF CallsOK, LockGranted, NoCall, IdleMask, threadVars, clientVars, Executing
<1>10. IdleOK'
  BY Zenon DEF IdleOK, IdleMask, threadVars, clientVars
<1> QED
  BY <1>1, <1>2, <1>3, <1>4, <1>5, <1>6, <1>7, <1>8, <1>9, <1>10, Zenon

\* SYS_thr_yield enters sched_switch.
LEMMA ReschedStep ==
  ASSUME SchedInv, Resched
  PROVE  SchedInv'
<1> USE SchedConstants DEF SchedInv
<1>1. TypeOK'
  BY Zenon DEF TypeOK, NoMk, Locals, NoCall, Resched, sched_switch, threadVars, clientVars,
     Executing, Switching, Queues, WaitQueues, States
<1>2. QueuesConsistent'
  BY DEF QueuesConsistent, On, Resched, threadVars
<1>3. NoLostThread'
  BY Zenon DEF NoLostThread, Resched, sched_switch, threadVars, clientVars, Executing, Queues
<1>4. SleepersAsleep'
  BY Zenon DEF SleepersAsleep, Resched, sched_switch, threadVars, clientVars, Executing,
     WaitQueues
<1>5. LockedIsHolder'
  BY Zenon DEF LockedIsHolder, Resched, sched_switch, threadVars, clientVars
<1>6. NoWaiterOnFreeMutex'
  BY Zenon DEF NoWaiterOnFreeMutex, Resched, sched_switch, threadVars, clientVars
<1>7. LocalsOK'
  BY Zenon DEF LocalsOK, NoMk, Locals, Resched, sched_switch, threadVars, clientVars
<1>8. StatesOK'
  BY Zenon DEF StatesOK, Resched, sched_switch, threadVars, clientVars, WaitQueues
<1>9. CallsOK'
  BY Zenon DEF CallsOK, LockGranted, NoCall, Resched, sched_switch, threadVars, clientVars,
     Executing
<1>10. IdleOK'
  BY Zenon DEF IdleOK, Resched, sched_switch, threadVars, clientVars
<1> QED
  BY <1>1, <1>2, <1>3, <1>4, <1>5, <1>6, <1>7, <1>8, <1>9, <1>10, Zenon

\* sched_broadcast_on finds its queue empty.
LEMMA BroadcastDoneStep ==
  ASSUME SchedInv, BroadcastDone
  PROVE  SchedInv'
<1> USE SchedConstants DEF SchedInv
<1>1. TypeOK'
  BY DEF TypeOK, NoMk, Locals, NoCall, BroadcastDone, threadVars, clientVars, Executing,
     Switching, Queues, WaitQueues, States
<1>2. QueuesConsistent'
  BY DEF QueuesConsistent, On, BroadcastDone, threadVars
<1>3. NoLostThread'
  BY Zenon DEF NoLostThread, BroadcastDone, threadVars, clientVars, Executing, Queues
<1>4. SleepersAsleep'
  BY Zenon DEF SleepersAsleep, BroadcastDone, threadVars, clientVars, Executing, WaitQueues
<1>5. LockedIsHolder'
  BY Zenon DEF LockedIsHolder, BroadcastDone, threadVars, clientVars
<1>6. NoWaiterOnFreeMutex'
  BY Zenon DEF NoWaiterOnFreeMutex, BroadcastDone, threadVars, clientVars
<1>7. LocalsOK'
  BY Zenon DEF LocalsOK, NoMk, Locals, BroadcastDone, threadVars, clientVars
<1>8. StatesOK'
  BY Zenon DEF StatesOK, BroadcastDone, threadVars, clientVars, WaitQueues
<1>9. CallsOK'
  BY Zenon DEF CallsOK, LockGranted, NoCall, BroadcastDone, threadVars, clientVars, Executing
<1>10. IdleOK'
  BY Zenon DEF IdleOK, BroadcastDone, threadVars, clientVars
<1> QED
  BY <1>1, <1>2, <1>3, <1>4, <1>5, <1>6, <1>7, <1>8, <1>9, <1>10, Zenon

\* SYS_thr_yield starts to make its caller runnable.
LEMMA YieldStep ==
  ASSUME SchedInv, thr_yield
  PROVE  SchedInv'
<1> USE SchedConstants DEF SchedInv
<1>1. TypeOK'
  BY Zenon DEF TypeOK, NoMk, Locals, NoCall, thr_yield, sched_make_runnable, threadVars,
     clientVars, Executing, Switching, Queues, WaitQueues, States
<1>2. QueuesConsistent'
  BY DEF QueuesConsistent, On, thr_yield, threadVars
<1>3. NoLostThread'
  BY Zenon DEF NoLostThread, thr_yield, sched_make_runnable, threadVars, clientVars,
     Executing, Queues
<1>4. SleepersAsleep'
  BY Zenon DEF SleepersAsleep, thr_yield, sched_make_runnable, threadVars, clientVars,
     Executing, WaitQueues
<1>5. LockedIsHolder'
  BY Zenon DEF LockedIsHolder, thr_yield, sched_make_runnable, threadVars, clientVars
<1>6. NoWaiterOnFreeMutex'
  BY Zenon DEF NoWaiterOnFreeMutex, thr_yield, sched_make_runnable, threadVars, clientVars
<1>7. LocalsOK'
  BY SMTT(30) DEF LocalsOK, NoMk, Locals, TypeOK, SleepersAsleep, CallsOK, NoCall, Executing,
     thr_yield, sched_make_runnable, threadVars, clientVars
<1>8. StatesOK'
  BY Zenon DEF StatesOK, thr_yield, sched_make_runnable, threadVars, clientVars, WaitQueues
<1>9. CallsOK'
  BY Zenon DEF CallsOK, LockGranted, NoCall, thr_yield, sched_make_runnable, threadVars,
     clientVars, Executing
<1>10. IdleOK'
  BY Zenon DEF IdleOK, thr_yield, sched_make_runnable, threadVars, clientVars
<1> QED
  BY <1>1, <1>2, <1>3, <1>4, <1>5, <1>6, <1>7, <1>8, <1>9, <1>10, Zenon

\* A driver changes the IPL.
LEMMA SetIplStep ==
  ASSUME SchedInv, NEW level \in {"LOW", "HIGH"}, intr_setipl(level)
  PROVE  SchedInv'
<1> USE SchedConstants DEF SchedInv
<1>1. TypeOK'
  BY Zenon DEF TypeOK, NoMk, Locals, NoCall, intr_setipl, threadVars, clientVars, Executing,
     Switching, Queues, WaitQueues, States
<1>2. QueuesConsistent'
  BY DEF QueuesConsistent, On, intr_setipl, threadVars
<1>3. NoLostThread'
  BY Zenon DEF NoLostThread, intr_setipl, threadVars, clientVars, Executing, Queues
<1>4. SleepersAsleep'
  BY Zenon DEF SleepersAsleep, intr_setipl, threadVars, clientVars, Executing, WaitQueues
<1>5. LockedIsHolder'
  BY Zenon DEF LockedIsHolder, intr_setipl, threadVars, clientVars
<1>6. NoWaiterOnFreeMutex'
  BY Zenon DEF NoWaiterOnFreeMutex, intr_setipl, threadVars, clientVars
<1>7. LocalsOK'
  BY Zenon DEF LocalsOK, NoMk, Locals, intr_setipl, threadVars, clientVars
<1>8. StatesOK'
  BY Zenon DEF StatesOK, intr_setipl, threadVars, clientVars, WaitQueues
<1>9. CallsOK'
  BY Zenon DEF CallsOK, LockGranted, NoCall, intr_setipl, threadVars, clientVars, Executing
<1>10. IdleOK'
  BY Zenon DEF IdleOK, intr_setipl, threadVars, clientVars
<1> QED
  BY <1>1, <1>2, <1>3, <1>4, <1>5, <1>6, <1>7, <1>8, <1>9, <1>10, Zenon

\* A dead thread is reaped.
LEMMA DestroyStep ==
  ASSUME SchedInv, NEW t \in Threads, kthread_destroy(t)
  PROVE  SchedInv'
<1> USE SchedConstants DEF SchedInv
<1>1. TypeOK'
  BY Zenon DEF TypeOK, NoMk, Locals, NoCall, kthread_destroy, cpuVars, clientVars, Executing,
     Switching, Queues, WaitQueues, States
<1>2. QueuesConsistent'
  BY DEF QueuesConsistent, On, kthread_destroy
<1>3. NoLostThread'
  BY DEF NoLostThread, kthread_destroy, cpuVars, clientVars, Executing, Queues
<1>4. SleepersAsleep'
  BY DEF SleepersAsleep, kthread_destroy, cpuVars, clientVars, Executing, WaitQueues
<1>5. LockedIsHolder'
  BY Zenon DEF LockedIsHolder, kthread_destroy, cpuVars, clientVars
<1>6. NoWaiterOnFreeMutex'
  BY Zenon DEF NoWaiterOnFreeMutex, kthread_destroy, cpuVars, clientVars
<1>7. LocalsOK'
  BY Zenon DEF LocalsOK, NoMk, Locals, kthread_destroy, cpuVars, clientVars
<1>8. StatesOK'
  BY DEF StatesOK, kthread_destroy, cpuVars, clientVars, WaitQueues
<1>9. CallsOK'
  BY DEF CallsOK, LockGranted, NoCall, TypeOK, StatesOK, kthread_destroy, cpuVars,
     clientVars, Executing
<1>10. IdleOK'
  BY Zenon DEF IdleOK, kthread_destroy, cpuVars, clientVars
<1> QED
  BY <1>1, <1>2, <1>3, <1>4, <1>5, <1>6, <1>7, <1>8, <1>9, <1>10, Zenon

\* curthr exits.
LEMMA ExitStep ==
  ASSUME SchedInv, kthread_exit
  PROVE  SchedInv'
<1> USE SchedConstants DEF SchedInv
<1>1. TypeOK'
  BY Zenon DEF TypeOK, NoMk, Locals, NoCall, kthread_exit, sched_switch, clientVars,
     Executing, Switching, Queues, WaitQueues, States
<1>2. QueuesConsistent'
  BY DEF QueuesConsistent, On, kthread_exit
<1>3. NoLostThread'
  BY Zenon DEF NoLostThread, TypeOK, kthread_exit, sched_switch, clientVars, Executing, Queues
<1>4. SleepersAsleep'
  BY DEF SleepersAsleep, kthread_exit, sched_switch, clientVars, Executing, WaitQueues
<1>5. LockedIsHolder'
  BY Zenon DEF LockedIsHolder, kthread_exit, sched_switch, clientVars
<1>6. NoWaiterOnFreeMutex'
  BY Zenon DEF NoWaiterOnFreeMutex, kthread_exit, sched_switch, clientVars
<1>7. LocalsOK'
  BY Zenon DEF LocalsOK, NoMk, Locals, kthread_exit, sched_switch, clientVars
<1>8. StatesOK'
  BY Zenon DEF StatesOK, TypeOK, SleepersAsleep, Executing, kthread_exit, sched_switch,
     clientVars, WaitQueues
<1>9. CallsOK'
  BY DEF CallsOK, LockGranted, NoCall, kthread_exit, sched_switch, clientVars, Executing
<1>10. IdleOK'
  BY Zenon DEF IdleOK, kthread_exit, sched_switch, clientVars
<1> QED
  BY <1>1, <1>2, <1>3, <1>4, <1>5, <1>6, <1>7, <1>8, <1>9, <1>10, Zenon

\* kthread_cancel sets the flag and tests kt_state.
LEMMA CancelStep ==
  ASSUME SchedInv, NEW t \in Threads, kthread_cancel(t)
  PROVE  SchedInv'
<1> USE SchedConstants DEF SchedInv
<1>1. TypeOK'
  <2>1. kt_cancelled' \in [Threads -> BOOLEAN]
    BY Zenon DEF TypeOK, kthread_cancel
  <2>2. pc' \in Executing \cup Switching
    BY Zenon DEF TypeOK, kthread_cancel, Executing
  <2>3. mk' = mk \/ mk' = Locals(t, Null)
    BY Zenon DEF kthread_cancel
  <2>4. Locals(t, Null) \in [thr : Threads \cup {Null},
                              then : {"run", "unlock", "broadcast", "resched"},
                              q : Queues \cup {Null}, ipl : {"LOW", "HIGH"},
                              snap : Seq(Threads)]
    BY LocalsType, Zenon
  <2> QED
    BY <2>1, <2>2, <2>3, <2>4, Zenon DEF TypeOK, kthread_cancel, clientVars
<1>2. QueuesConsistent'
  BY DEF QueuesConsistent, On, kthread_cancel
<1>3. NoLostThread'
  BY Zenon DEF NoLostThread, kthread_cancel, clientVars, Executing, Queues
<1>4. SleepersAsleep'
  BY Zenon DEF SleepersAsleep, kthread_cancel, clientVars, Executing, WaitQueues
<1>5. LockedIsHolder'
  BY Zenon DEF LockedIsHolder, kthread_cancel, clientVars
<1>6. NoWaiterOnFreeMutex'
  BY Zenon DEF NoWaiterOnFreeMutex, kthread_cancel, clientVars
<1>7. LocalsOK'
  <2>1. CASE kt_state[t] = "SLEEP_CANCELLABLE"
    <3>1. pc' = "cancel" /\ mk'.thr = t /\ kt_cancelled'[t]
      BY <2>1 DEF kthread_cancel, Locals, TypeOK
    <3>2. kt_wchan[t] # Null /\ call[t].op # "lock" /\ t # curthr
      BY <2>1, Zenon DEF kthread_cancel, NoLostThread, CallsOK
    <3> QED
      BY <3>1, <3>2, Zenon DEF LocalsOK, kthread_cancel, clientVars
  <2>2. CASE kt_state[t] # "SLEEP_CANCELLABLE"
    BY <2>2, Zenon DEF LocalsOK, kthread_cancel
  <2> QED
    BY <2>1, <2>2, Zenon
<1>8. StatesOK'
  BY DEF StatesOK, kthread_cancel, clientVars, WaitQueues
<1>9. CallsOK'
  BY DEF CallsOK, LockGranted, NoCall, kthread_cancel, clientVars, Executing
<1>10. IdleOK'
  BY Zenon DEF IdleOK, kthread_cancel, clientVars
<1> QED
  BY <1>1, <1>2, <1>3, <1>4, <1>5, <1>6, <1>7, <1>8, <1>9, <1>10, Zenon

\* A new thread is on its way to the run queue.
LEMMA NewThreadStep ==
  ASSUME SchedInv, NEW t \in Threads, NEW state \in {"NO_STATE", "RUN"},
         NEW cancelled \in BOOLEAN, NewThread(t, state, cancelled)
  PROVE  SchedInv'
<1> USE SchedConstants DEF SchedInv
<1>1. TypeOK'
  BY Zenon DEF TypeOK, NoMk, Locals, NoCall, NewThread, sched_make_runnable, clientVars,
     Executing, Switching, Queues, WaitQueues, States
<1>2. QueuesConsistent'
  BY DEF QueuesConsistent, On, NewThread
<1>3. NoLostThread'
  BY DEF NoLostThread, NewThread, sched_make_runnable, clientVars, Executing, Queues
<1>4. SleepersAsleep'
  BY DEF SleepersAsleep, NewThread, sched_make_runnable, clientVars, Executing,
     WaitQueues
<1>5. LockedIsHolder'
  BY Zenon DEF LockedIsHolder, NewThread, sched_make_runnable, clientVars
<1>6. NoWaiterOnFreeMutex'
  BY Zenon DEF NoWaiterOnFreeMutex, NewThread, sched_make_runnable, clientVars
<1>7. LocalsOK'
  BY DEF LocalsOK, NoMk, Locals, TypeOK, StatesOK, SleepersAsleep, Executing, NewThread,
     sched_make_runnable, clientVars
<1>8. StatesOK'
  BY SMTT(30) DEF StatesOK, NewThread, sched_make_runnable, clientVars, WaitQueues
<1>9. CallsOK'
  BY SMTT(30) DEF CallsOK, LockGranted, NoCall, TypeOK, StatesOK, SleepersAsleep, NewThread,
     sched_make_runnable, clientVars, Executing
<1>10. IdleOK'
  BY Zenon DEF IdleOK, NewThread, sched_make_runnable, clientVars
<1> QED
  BY <1>1, <1>2, <1>3, <1>4, <1>5, <1>6, <1>7, <1>8, <1>9, <1>10, Zenon

\* A free mutex is taken.
LEMMA TakeFreeStep ==
  ASSUME SchedInv, NEW m \in Mutexes, pc = "run", TakeFree(m)
  PROVE  SchedInv'
<1> USE SchedConstants DEF SchedInv
<1>1. TypeOK'
  BY Zenon DEF TypeOK, NoMk, Locals, NoCall, TakeFree, cpuVars, threadVars, Executing,
     Switching, Queues, WaitQueues, States
<1>2. QueuesConsistent'
  BY SMTT(30) DEF QueuesConsistent, On, TakeFree, threadVars
<1>3. NoLostThread'
  BY Zenon DEF NoLostThread, TakeFree, cpuVars, threadVars, Executing, Queues
<1>4. SleepersAsleep'
  BY Zenon DEF SleepersAsleep, TakeFree, cpuVars, threadVars, Executing, WaitQueues
<1>5. LockedIsHolder'
  BY SMTT(30) DEF LockedIsHolder, TypeOK, TakeFree, cpuVars, threadVars
<1>6. NoWaiterOnFreeMutex'
  BY DEF NoWaiterOnFreeMutex, TakeFree, cpuVars, threadVars
<1>7. LocalsOK'
  BY Zenon DEF LocalsOK, NoMk, Locals, TakeFree, cpuVars, threadVars
<1>8. StatesOK'
  BY Zenon DEF StatesOK, TakeFree, cpuVars, threadVars, WaitQueues
<1>9. CallsOK'
  BY DEF CallsOK, LockGranted, NoCall, TakeFree, cpuVars, threadVars, Executing
<1>10. IdleOK'
  BY Zenon DEF IdleOK, TakeFree, cpuVars, threadVars
<1> QED
  BY <1>1, <1>2, <1>3, <1>4, <1>5, <1>6, <1>7, <1>8, <1>9, <1>10, Zenon

(***************************************************************************)
(* Steps that put a thread on a queue or take it off one                   *)
(***************************************************************************)

\* curthr goes to sleep on a queue of its own choice, or on a mutex that another
\* thread holds.
LEMMA SleepStep ==
  ASSUME SchedInv, NEW q \in WaitQueues, NEW state \in {"SLEEP", "SLEEP_CANCELLABLE"},
         NEW op \in {"plain", "lock", "clock"}, NEW m \in Mutexes \cup {Null},
         pc = "run", Sleep(q, state, op, m),
         \/ q \in SoftQueues \cup DevQueues /\ op = "plain"
         \/ /\ q \in Mutexes /\ m = q /\ km_holder[q] \notin {Null, curthr}
            /\ op = "clock" \/ (op = "lock" /\ state = "SLEEP")
  PROVE  SchedInv'
<1> USE SchedConstants DEF SchedInv
<1>0. QueueTypes' /\ QueuesConsistent'
  <2>1. QueueTypes /\ curthr \in Threads /\ kt_wchan[curthr] = Null /\ q \in Queues
    BY Zenon DEF TypeOK, QueueTypes, SleepersAsleep, Executing, Queues
  <2> QED
    BY <2>1, EnqueueConsistent, Zenon DEF Sleep
<1>1. TypeOK'
  BY <1>0, ZenonT(40) DEF TypeOK, NoMk, Locals, NoCall, QueueTypes, Sleep, ktqueue_enqueue,
     sched_switch, Executing, Switching, Queues, WaitQueues, States
<1>2. QueuesConsistent'
  BY <1>0, Zenon
<1>3. NoLostThread'
  BY <1>0, Zenon DEF NoLostThread, TypeOK, Sleep, ktqueue_enqueue, sched_switch, Executing,
     Queues
<1>4. SleepersAsleep'
  BY <1>0, Zenon DEF SleepersAsleep, TypeOK, Sleep, ktqueue_enqueue, sched_switch, Executing,
     WaitQueues
<1>5. LockedIsHolder'
  BY <1>0, Zenon DEF LockedIsHolder, Sleep, ktqueue_enqueue, sched_switch
<1>6. NoWaiterOnFreeMutex'
  BY <1>0, SMTT(30) DEF NoWaiterOnFreeMutex, TypeOK, Sleep, ktqueue_enqueue, sched_switch
<1>7. LocalsOK'
  BY <1>0, Zenon DEF LocalsOK, NoMk, Locals, Sleep, ktqueue_enqueue, sched_switch
<1>8. StatesOK'
  BY <1>0, SMTT(30) DEF StatesOK, TypeOK, Sleep, ktqueue_enqueue, sched_switch, WaitQueues
<1>9. CallsOK'
  BY <1>0 DEF CallsOK, LockGranted, NoCall, TypeOK, SleepersAsleep, Sleep,
     ktqueue_enqueue, sched_switch, Executing
<1>10. IdleOK'
  BY <1>0, Zenon DEF IdleOK, TypeOK, Sleep, ktqueue_enqueue, sched_switch
<1> QED
  BY <1>1, <1>2, <1>3, <1>4, <1>5, <1>6, <1>7, <1>8, <1>9, <1>10, Zenon

\* RunQ and Null are no wait queues, and Null is no thread.
LEMMA SomeQueue ==
  /\ RunQ \notin Mutexes \cup SoftQueues \cup DevQueues
  /\ Null \notin Mutexes \cup SoftQueues \cup DevQueues
  /\ RunQ # Null /\ Null \notin Threads
BY SchedConstants, Zenon

\* What CallsOK says of a thread.
CallOK(t) ==
  /\ call[t].op \in {"lock", "clock"} => call[t].mtx \in Mutexes
  /\ kt_wchan[t] \in SoftQueues \cup DevQueues => call[t].op = "plain"
  /\ kt_wchan[t] \in Mutexes =>
       /\ call[t].mtx = kt_wchan[t]
       /\ call[t].op \in {"lock", "clock"}
  /\ call[t].op = "lock" => kt_state[t] # "SLEEP_CANCELLABLE"
  /\ kt_wchan[t] = RunQ /\ LockGranted(t) => km_holder[call[t].mtx] = t

LEMMA CallsNow == CallsOK => \A t \in Threads : CallOK(t)
BY Zenon DEF CallsOK, CallOK

LEMMA CallsNext ==
  ASSUME pc' \in Executing => call'[curthr'] = NoCall, \A t \in Threads : CallOK(t)'
  PROVE  CallsOK'
BY Zenon DEF CallsOK, CallOK

\* It stays true of a thread that stays as it is, if a mutex that it was given does.
LEMMA CallKept ==
  ASSUME NEW t \in Threads, CallOK(t),
         kt_wchan'[t] = kt_wchan[t], call'[t] = call[t], kt_state'[t] = kt_state[t],
         kt_cancelled'[t] = kt_cancelled[t],
         kt_wchan[t] = RunQ /\ LockGranted(t) => km_holder'[call[t].mtx] = t
  PROVE  CallOK(t)'
BY Zenon DEF CallOK, LockGranted

\* A thread takes the first sleeper off a wait queue that is not a mutex.
LEMMA WakeStep ==
  ASSUME SchedInv, NEW q \in SoftQueues, NEW then \in {"run", "broadcast"},
         pc \in {"run", "broadcast"}, Wake(q, then), UNCHANGED km_holder
  PROVE  SchedInv'
<1> USE SchedConstants DEF SchedInv
<1> DEFINE h == Head(tq_list[q])
<1>a. QueueTypes' /\ QueuesConsistent' /\ h \in Threads /\ kt_wchan[h] = q
  <2>1. QueueTypes /\ q \in Queues
    BY Zenon DEF TypeOK, QueueTypes, Queues, WaitQueues
  <2> QED
    BY <2>1, DequeueConsistent, Zenon DEF Wake
<1>b. h # curthr /\ call[h].op = "plain" /\ q \notin Mutexes \cup {RunQ, Null}
  BY <1>a, SMTT(30) DEF SleepersAsleep, CallsOK, Executing
<1>c. /\ kt_state' = [kt_state EXCEPT ![h] = "RUN"]
      /\ kt_wchan' = [kt_wchan EXCEPT ![h] = Null]
      /\ pc' = "mkrun" /\ ipl' = "HIGH"
      /\ mk' = [thr |-> h, then |-> then, q |-> q, ipl |-> ipl, snap |-> tq_list'[RunQ]]
      /\ UNCHANGED <<curthr, intr, old_IPL, kt_cancelled, call, held, km_holder>>
  BY Zenon DEF Wake, ktqueue_dequeue, sched_make_runnable, clientVars
<1> HIDE DEF h
<1>1. TypeOK'
  BY <1>a, <1>b, <1>c, Zenon DEF TypeOK, NoMk, Locals, NoCall, QueueTypes, Executing,
     Switching, Queues, WaitQueues, States
<1>2. QueuesConsistent'
  BY <1>a, Zenon
<1>3. NoLostThread'
  BY <1>a, <1>b, <1>c, Zenon DEF NoLostThread, TypeOK, Executing, Queues
<1>4. SleepersAsleep'
  BY <1>a, <1>b, <1>c, Zenon DEF SleepersAsleep, TypeOK, Executing, WaitQueues
<1>5. LockedIsHolder'
  BY <1>a, <1>b, <1>c, Zenon DEF LockedIsHolder
<1>6. NoWaiterOnFreeMutex'
  BY <1>a, <1>b, <1>c, SMTT(30) DEF NoWaiterOnFreeMutex, TypeOK
<1>7. LocalsOK'
  BY <1>a, <1>b, <1>c, ZenonT(40) DEF LocalsOK, NoMk, Locals, TypeOK
<1>8. StatesOK'
  BY <1>a, <1>b, <1>c, ZenonT(40) DEF StatesOK, TypeOK, WaitQueues
<1>9. CallsOK'
  <2>1. pc' \in Executing => call'[curthr'] = NoCall
    BY <1>c, Zenon DEF CallsOK, Executing
  <2>2. ASSUME NEW t \in Threads, t = h
        PROVE  CallOK(t)'
    <3>1. kt_wchan'[t] = Null /\ call'[t] = call[t] /\ kt_state'[t] = "RUN"
      BY <1>a, <1>c, <2>2, Zenon DEF TypeOK
    <3>2. CallOK(t)
      BY CallsNow, Zenon
    <3> QED
      BY <3>1, <3>2, SomeQueue, Zenon DEF CallOK
  <2>3. ASSUME NEW t \in Threads, t # h
        PROVE  CallOK(t)'
    <3>1. /\ kt_wchan'[t] = kt_wchan[t] /\ call'[t] = call[t] /\ kt_state'[t] = kt_state[t]
          /\ kt_cancelled'[t] = kt_cancelled[t]
      BY <1>c, <2>3, Zenon DEF TypeOK
    <3>2. CallOK(t) /\ (kt_wchan[t] = RunQ /\ LockGranted(t) => km_holder'[call[t].mtx] = t)
      BY CallsNow, Zenon DEF CallOK
    <3> QED
      BY <3>1, <3>2, CallKept, Zenon
  <2> QED
    BY <2>1, <2>2, <2>3, CallsNext, Zenon
<1>10. IdleOK'
  BY <1>a, <1>b, <1>c, Zenon DEF IdleOK
<1> QED
  BY <1>1, <1>2, <1>3, <1>4, <1>5, <1>6, <1>7, <1>8, <1>9, <1>10, Zenon

\* kmutex_unlock takes the first waiter off the mutex.
LEMMA HandOverStep ==
  ASSUME SchedInv, NEW m \in Mutexes, kmutex_unlock(m), tq_list[m] # <<>>
  PROVE  SchedInv'
<1> USE SchedConstants DEF SchedInv
<1> DEFINE h == Head(tq_list[m])
<1>a. QueueTypes' /\ QueuesConsistent' /\ h \in Threads /\ kt_wchan[h] = m
  <2>1. QueueTypes /\ m \in Queues
    BY Zenon DEF TypeOK, QueueTypes, Queues, WaitQueues
  <2> QED
    BY <2>1, DequeueConsistent, Zenon DEF kmutex_unlock
<1>b. /\ pc = "run" /\ h # curthr /\ km_holder[m] = curthr
      /\ call[h].op \in {"lock", "clock"} /\ call[h].mtx = m
      /\ km_holder' = [km_holder EXCEPT ![m] = Null]
      /\ held' = [held EXCEPT ![curthr] = @ \ {m}]
  <2>1. /\ pc = "run" /\ km_holder[m] = curthr
        /\ km_holder' = [km_holder EXCEPT ![m] = Null]
        /\ held' = [held EXCEPT ![curthr] = @ \ {m}]
    BY Zenon DEF kmutex_unlock
  <2>2. /\ h # curthr
        /\ call[h].op \in {"lock", "clock"} /\ call[h].mtx = m
    BY <1>a, <2>1, SMTT(30) DEF SleepersAsleep, CallsOK, Executing
  <2> QED
    BY <2>1, <2>2, Zenon
<1>c. /\ kt_state' = [kt_state EXCEPT ![h] = "RUN"]
      /\ kt_wchan' = [kt_wchan EXCEPT ![h] = Null]
      /\ pc' = "mkrun" /\ ipl' = "HIGH"
      /\ mk' = [thr |-> h, then |-> "unlock", q |-> m, ipl |-> ipl, snap |-> tq_list'[RunQ]]
      /\ UNCHANGED <<curthr, intr, old_IPL, kt_cancelled, call>>
  BY Zenon DEF kmutex_unlock, ktqueue_dequeue, sched_make_runnable
<1> HIDE DEF h
<1>1. TypeOK'
  BY <1>a, <1>b, <1>c, Zenon DEF TypeOK, NoMk, Locals, NoCall, QueueTypes, Executing,
     Switching, Queues, WaitQueues, States
<1>2. QueuesConsistent'
  BY <1>a, Zenon
<1>3. NoLostThread'
  BY <1>a, <1>b, <1>c, Zenon DEF NoLostThread, TypeOK, Executing, Queues
<1>4. SleepersAsleep'
  BY <1>a, <1>b, <1>c, Zenon DEF SleepersAsleep, TypeOK, Executing, WaitQueues
<1>5. LockedIsHolder'
  BY <1>a, <1>b, <1>c, Zenon DEF LockedIsHolder, TypeOK
<1>6. NoWaiterOnFreeMutex'
  BY <1>a, <1>b, <1>c, SMTT(30) DEF NoWaiterOnFreeMutex, TypeOK
<1>7. LocalsOK'
  BY <1>a, <1>b, <1>c, ZenonT(40) DEF LocalsOK, NoMk, Locals, TypeOK
<1>8. StatesOK'
  BY <1>a, <1>b, <1>c, ZenonT(40) DEF StatesOK, TypeOK, WaitQueues
<1>9. CallsOK'
  <2>1. pc' \in Executing => call'[curthr'] = NoCall
    BY <1>b, <1>c, Zenon DEF CallsOK, Executing
  <2>2. ASSUME NEW t \in Threads, t = h
        PROVE  CallOK(t)'
    <3>1. kt_wchan'[t] = Null /\ call'[t] = call[t] /\ kt_state'[t] = "RUN"
      BY <1>a, <1>c, <2>2, Zenon DEF TypeOK
    <3>2. CallOK(t)
      BY CallsNow, Zenon
    <3> QED
      BY <3>1, <3>2, SomeQueue, Zenon DEF CallOK
  <2>3. ASSUME NEW t \in Threads, t # h
        PROVE  CallOK(t)'
    <3>1. /\ kt_wchan'[t] = kt_wchan[t] /\ call'[t] = call[t] /\ kt_state'[t] = kt_state[t]
          /\ kt_cancelled'[t] = kt_cancelled[t]
      BY <1>c, <2>3, Zenon DEF TypeOK
    <3>2. CallOK(t)
      BY CallsNow, Zenon
    <3>3. kt_wchan[t] = RunQ /\ LockGranted(t) => t # curthr /\ call[t].mtx \in Mutexes
      BY <1>b, <3>2, SomeQueue, Zenon DEF CallOK, LockGranted, SleepersAsleep, Executing
    <3>4. kt_wchan[t] = RunQ /\ LockGranted(t) => km_holder'[call[t].mtx] = t
      BY <1>b, <3>2, <3>3, Zenon DEF CallOK, TypeOK
    <3> QED
      BY <3>1, <3>2, <3>4, CallKept, Zenon
  <2> QED
    BY <2>1, <2>2, <2>3, CallsNext, Zenon
<1>10. IdleOK'
  BY <1>a, <1>b, <1>c, Zenon DEF IdleOK
<1> QED
  BY <1>1, <1>2, <1>3, <1>4, <1>5, <1>6, <1>7, <1>8, <1>9, <1>10, Zenon

\* kmutex_unlock without waiters.
LEMMA ReleaseStep ==
  ASSUME SchedInv, NEW m \in Mutexes, kmutex_unlock(m), tq_list[m] = <<>>
  PROVE  SchedInv'
<1> USE SchedConstants DEF SchedInv
<1>a. \A t \in Threads : kt_wchan[t] # m
  BY DEF QueuesConsistent, On, Queues, WaitQueues
<1>1. TypeOK'
  <2>1. /\ km_holder' = [km_holder EXCEPT ![m] = Null]
        /\ held' = [held EXCEPT ![curthr] = @ \ {m}]
        /\ UNCHANGED <<cpuVars, threadVars, tq_list, call, mk>>
    BY Zenon DEF kmutex_unlock
  <2>2. km_holder' \in [Mutexes -> Threads \cup {Null}]
    BY <2>1, Zenon DEF TypeOK
  <2>3. held' \in [Threads -> SUBSET Mutexes]
    BY <2>1, Zenon DEF TypeOK
  <2> QED
    BY <2>1, <2>2, <2>3, Zenon DEF TypeOK, cpuVars, threadVars
<1>2. QueuesConsistent'
  <2>1. tq_list' = tq_list /\ kt_wchan' = kt_wchan
    BY Zenon DEF kmutex_unlock, threadVars
  <2>2. \A t \in Threads, s \in Queues : On(t, s)' <=> On(t, s)
    BY <2>1, Zenon DEF On
  <2> QED
    BY <2>1, <2>2, Zenon DEF QueuesConsistent
<1>3. NoLostThread'
  BY <1>a, Zenon DEF NoLostThread, kmutex_unlock, cpuVars, threadVars, Executing, Queues
<1>4. SleepersAsleep'
  BY <1>a, Zenon DEF SleepersAsleep, kmutex_unlock, cpuVars, threadVars, Executing, WaitQueues
<1>5. LockedIsHolder'
  BY <1>a DEF LockedIsHolder, TypeOK, kmutex_unlock, cpuVars, threadVars
<1>6. NoWaiterOnFreeMutex'
  BY <1>a DEF NoWaiterOnFreeMutex, TypeOK, kmutex_unlock, cpuVars, threadVars
<1>7. LocalsOK'
  <2>1. pc' = "run"
    BY Zenon DEF kmutex_unlock, cpuVars
  <2> QED
    BY <2>1, Zenon DEF LocalsOK
<1>8. StatesOK'
  BY <1>a, Zenon DEF StatesOK, kmutex_unlock, cpuVars, threadVars, WaitQueues
<1>9. CallsOK'
  BY <1>a, SMTT(30) DEF CallsOK, LockGranted, NoCall, TypeOK, SleepersAsleep, kmutex_unlock,
     cpuVars, threadVars, Executing
<1>10. IdleOK'
  BY <1>a, Zenon DEF IdleOK, kmutex_unlock, cpuVars, threadVars
<1> QED
  BY <1>1, <1>2, <1>3, <1>4, <1>5, <1>6, <1>7, <1>8, <1>9, <1>10, Zenon

\* sched_cancel takes the thread off its queue.
LEMMA CancelRemoveStep ==
  ASSUME SchedInv, SchedCancelRemove
  PROVE  SchedInv'
<1> USE SchedConstants DEF SchedInv
<1> DEFINE h == mk.thr
<1>a. QueueTypes' /\ QueuesConsistent'
  <2>1. QueueTypes /\ h \in Threads /\ kt_wchan[h] # Null
    BY Zenon DEF TypeOK, QueueTypes, LocalsOK, SchedCancelRemove
  <2> QED
    BY <2>1, RemoveConsistent, Zenon DEF SchedCancelRemove
<1>b. /\ h \in Threads /\ h # curthr /\ pc = "cancel"
      /\ kt_state[h] \in {"RUN", "SLEEP_CANCELLABLE"}
      /\ kt_cancelled[h] /\ call[h].op # "lock"
  BY Zenon DEF LocalsOK, SchedCancelRemove
<1>c. /\ kt_wchan' = [kt_wchan EXCEPT ![h] = Null]
      /\ pc' = "mkrun" /\ ipl' = "HIGH"
      /\ mk' = [thr |-> h, then |-> "run", q |-> Null, ipl |-> ipl, snap |-> tq_list'[RunQ]]
      /\ UNCHANGED <<curthr, intr, old_IPL, kt_state, kt_cancelled, call, held, km_holder>>
  BY Zenon DEF SchedCancelRemove, ktqueue_remove, sched_make_runnable, clientVars
<1> HIDE DEF h
<1>1. TypeOK'
  BY <1>a, <1>b, <1>c, Zenon DEF TypeOK, NoMk, Locals, NoCall, QueueTypes, Executing,
     Switching, Queues, WaitQueues, States
<1>2. QueuesConsistent'
  BY <1>a, Zenon
<1>3. NoLostThread'
  BY <1>a, <1>b, <1>c, Zenon DEF NoLostThread, TypeOK, Executing, Queues
<1>4. SleepersAsleep'
  BY <1>a, <1>b, <1>c, Zenon DEF SleepersAsleep, TypeOK, Executing, WaitQueues
<1>5. LockedIsHolder'
  BY <1>a, <1>b, <1>c, Zenon DEF LockedIsHolder
<1>6. NoWaiterOnFreeMutex'
  BY <1>a, <1>b, <1>c DEF NoWaiterOnFreeMutex, TypeOK
<1>7. LocalsOK'
  BY <1>a, <1>b, <1>c, ZenonT(40) DEF LocalsOK, NoMk, Locals, TypeOK
<1>8. StatesOK'
  BY <1>a, <1>b, <1>c, ZenonT(40) DEF StatesOK, TypeOK, WaitQueues
<1>9. CallsOK'
  <2>1. pc' \in Executing => call'[curthr'] = NoCall
    BY <1>b, <1>c, Zenon DEF CallsOK, Executing
  <2>2. ASSUME NEW t \in Threads, t = h
        PROVE  CallOK(t)'
    <3>1. kt_wchan'[t] = Null /\ call'[t] = call[t] /\ kt_state'[t] = kt_state[t]
      BY <1>b, <1>c, <2>2, Zenon DEF TypeOK
    <3>2. CallOK(t)
      BY CallsNow, Zenon
    <3> QED
      BY <3>1, <3>2, SomeQueue, Zenon DEF CallOK
  <2>3. ASSUME NEW t \in Threads, t # h
        PROVE  CallOK(t)'
    <3>1. /\ kt_wchan'[t] = kt_wchan[t] /\ call'[t] = call[t] /\ kt_state'[t] = kt_state[t]
          /\ kt_cancelled'[t] = kt_cancelled[t]
      BY <1>c, <2>3, Zenon DEF TypeOK
    <3>2. CallOK(t) /\ (kt_wchan[t] = RunQ /\ LockGranted(t) => km_holder'[call[t].mtx] = t)
      BY <1>c, CallsNow, Zenon DEF CallOK
    <3> QED
      BY <3>1, <3>2, CallKept, Zenon
  <2> QED
    BY <2>1, <2>2, <2>3, CallsNext, Zenon
<1>10. IdleOK'
  BY <1>a, <1>b, <1>c, Zenon DEF IdleOK
<1> QED
  BY <1>1, <1>2, <1>3, <1>4, <1>5, <1>6, <1>7, <1>8, <1>9, <1>10, Zenon

\* sched_make_runnable links the thread into the run queue.
LEMMA LinkStep ==
  ASSUME SchedInv, MakeRunnableLink
  PROVE  SchedInv'
<1> USE SchedConstants DEF SchedInv
<1>a. /\ pc = "mkrun" /\ mk.thr \in Threads /\ kt_wchan[mk.thr] = Null
      /\ kt_state[mk.thr] \notin {"UNUSED", "EXITED"}
  BY Zenon DEF MakeRunnableLink, LocalsOK
<1>b. QueueTypes' /\ QueuesConsistent'
  <2>1. QueueTypes /\ RunQ \in Queues
    BY Zenon DEF TypeOK, QueueTypes, Queues
  <2>2. ktqueue_enqueue(RunQ, mk.thr)
    BY <2>1, Zenon DEF MakeRunnableLink, LinkedRunQ, LocalsOK, ktqueue_enqueue, QueueTypes
  <2> QED
    BY <1>a, <2>1, <2>2, EnqueueConsistent, Zenon
<1>c. /\ kt_wchan' = [kt_wchan EXCEPT ![mk.thr] = RunQ]
      /\ ipl' = mk.ipl
      /\ UNCHANGED <<curthr, intr, old_IPL, kt_state, kt_cancelled, call, held>>
  BY Zenon DEF MakeRunnableLink, clientVars
<1>d. \/ /\ mk.then = "run" /\ pc' = "run" /\ mk' = NoMk /\ km_holder' = km_holder
      \/ /\ mk.then = "unlock" /\ pc' = "run" /\ mk' = NoMk
         /\ km_holder' = [km_holder EXCEPT ![mk.q] = mk.thr]
      \/ /\ mk.then = "broadcast" /\ pc' = "broadcast" /\ mk' = Locals(Null, mk.q)
         /\ km_holder' = km_holder
      \/ /\ mk.then = "resched" /\ pc' = "resched" /\ mk' = NoMk /\ km_holder' = km_holder
  BY Zenon DEF MakeRunnableLink, HandOver
<1>1. TypeOK'
  <2>1. /\ pc' \in Executing \cup Switching
        /\ ipl' \in {"LOW", "HIGH"}
        /\ km_holder' \in [Mutexes -> Threads \cup {Null}]
    BY <1>a, <1>c, <1>d, ZenonT(40) DEF TypeOK, LocalsOK, Executing, Switching
  <2>2. mk' \in [thr : Threads \cup {Null},
                 then : {"run", "unlock", "broadcast", "resched"},
                 q : Queues \cup {Null}, ipl : {"LOW", "HIGH"}, snap : Seq(Threads)]
    <3>1. mk.q \in Queues \cup {Null}
      BY Zenon DEF TypeOK
    <3>2. mk' = Locals(Null, Null) \/ mk' = Locals(Null, mk.q)
      BY <1>d, Zenon DEF NoMk
    <3> QED
      BY <3>1, <3>2, LocalsType
  <2> QED
    BY <1>b, <1>c, <2>1, <2>2, Zenon DEF TypeOK, QueueTypes
<1>2. QueuesConsistent'
  BY <1>b, Zenon
<1>3. NoLostThread'
  BY <1>a, <1>b, <1>c, <1>d, ZenonT(40) DEF NoLostThread, TypeOK, LocalsOK, Executing, Queues
<1>4. SleepersAsleep'
  BY <1>a, <1>b, <1>c, <1>d, SMTT(30) DEF SleepersAsleep, TypeOK, LocalsOK, Executing, WaitQueues
<1>5. LockedIsHolder'
  BY <1>a, <1>b, <1>c, <1>d, SMTT(30) DEF LockedIsHolder, TypeOK, LocalsOK
<1>6. NoWaiterOnFreeMutex'
  <2>1. ASSUME NEW t \in Threads, NEW m \in Mutexes, kt_wchan'[t] = m
        PROVE  km_holder'[m] # t /\ km_holder'[m] # Null
    <3>1. t # mk.thr /\ kt_wchan[t] = m
      BY <1>a, <1>c, <2>1, SomeQueue, Zenon DEF TypeOK
    <3>2. /\ km_holder[m] # t
          /\ km_holder[m] # Null \/ (mk.then = "unlock" /\ mk.q = m)
      BY <1>a, <3>1, Zenon DEF NoWaiterOnFreeMutex
    <3>3. \/ km_holder'[m] = km_holder[m] /\ ~(mk.then = "unlock" /\ mk.q = m)
          \/ km_holder'[m] = mk.thr
      BY <1>d, Zenon DEF TypeOK
    <3>4. mk.thr # Null
      BY <1>a, SomeQueue, Zenon
    <3> QED
      BY <3>1, <3>2, <3>3, <3>4, Zenon
  <2> QED
    BY <2>1, Zenon DEF NoWaiterOnFreeMutex
<1>7. LocalsOK'
  <2>1. pc' # "mkrun" /\ pc' # "cancel"
    BY <1>d, Zenon
  <2>2. pc' = "broadcast" => mk'.q \in SoftQueues
    BY <1>a, <1>d DEF LocalsOK, Locals
  <2> QED
    BY <2>1, <2>2, Zenon DEF LocalsOK
<1>8. StatesOK'
  BY <1>a, <1>b, <1>c, <1>d, ZenonT(40) DEF StatesOK, TypeOK, WaitQueues
<1>9. CallsOK'
  <2>1. pc' \in Executing => call'[curthr'] = NoCall
    BY <1>a, <1>c, Zenon DEF CallsOK, Executing
  <2>2. ASSUME NEW t \in Threads, t = mk.thr
        PROVE  CallOK(t)'
    <3>1. /\ kt_wchan'[t] = RunQ /\ call'[t] = call[t]
          /\ kt_state'[t] = kt_state[t] /\ kt_cancelled'[t] = kt_cancelled[t]
      BY <1>a, <1>c, <2>2, Zenon DEF TypeOK
    <3>2. CallOK(t)
      BY CallsNow, Zenon
    <3>3. LockGranted(t) => km_holder'[call[t].mtx] = t
      <4>1. LockGranted(t) => mk.then = "unlock"
        BY <1>a, <2>2, Zenon DEF LocalsOK, LockGranted
      <4>2. mk.then = "unlock" => mk.q \in Mutexes /\ call[t].mtx = mk.q
        BY <1>a, <2>2, Zenon DEF LocalsOK
      <4>3. mk.then = "unlock" => km_holder' = [km_holder EXCEPT ![mk.q] = t]
        BY <1>d, <2>2, Zenon
      <4>4. mk.then = "unlock" => km_holder'[mk.q] = t
        BY <4>2, <4>3, Zenon DEF TypeOK
      <4> QED
        BY <4>1, <4>2, <4>4, Zenon
    <3> QED
      BY <3>1, <3>2, <3>3, SomeQueue, Zenon DEF CallOK, LockGranted
  <2>3. ASSUME NEW t \in Threads, t # mk.thr
        PROVE  CallOK(t)'
    <3>1. /\ kt_wchan'[t] = kt_wchan[t] /\ call'[t] = call[t] /\ kt_state'[t] = kt_state[t]
          /\ kt_cancelled'[t] = kt_cancelled[t]
      BY <1>c, <2>3, Zenon DEF TypeOK
    <3>2. CallOK(t)
      BY CallsNow, Zenon
    <3>3. mk.then = "unlock" => mk.q \in Mutexes /\ km_holder[mk.q] = Null
      BY <1>a, Zenon DEF LocalsOK
    <3>4. \A m \in Mutexes : km_holder[m] # Null => km_holder'[m] = km_holder[m]
      BY <1>d, <3>3, Zenon DEF TypeOK
    <3>5. kt_wchan[t] = RunQ /\ LockGranted(t) =>
            call[t].mtx \in Mutexes /\ km_holder[call[t].mtx] = t
      BY <3>2, Zenon DEF CallOK, LockGranted
    <3>6. kt_wchan[t] = RunQ /\ LockGranted(t) => km_holder'[call[t].mtx] = t
      BY <3>4, <3>5, SomeQueue, Zenon
    <3> QED
      BY <3>1, <3>2, <3>6, CallKept, Zenon
  <2> QED
    BY <2>1, <2>2, <2>3, CallsNext, Zenon
<1>10. IdleOK'
  BY <1>a, <1>b, <1>c, <1>d, Zenon DEF IdleOK
<1> QED
  BY <1>1, <1>2, <1>3, <1>4, <1>5, <1>6, <1>7, <1>8, <1>9, <1>10, Zenon

\* sched_switch switches to the first thread of the run queue.
LEMMA DispatchStep ==
  ASSUME SchedInv, Dispatch
  PROVE  SchedInv'
<1> USE SchedConstants DEF SchedInv
<1> DEFINE h == Head(tq_list[RunQ])
<1>a. QueueTypes' /\ QueuesConsistent' /\ h \in Threads /\ kt_wchan[h] = RunQ
  <2>1. QueueTypes /\ RunQ \in Queues
    BY Zenon DEF TypeOK, QueueTypes, Queues
  <2> QED
    BY <2>1, DequeueConsistent, Zenon DEF Dispatch
<1>b. /\ pc = "switch" /\ pc' = "run"
      /\ curthr' = h
      /\ kt_wchan' = [kt_wchan EXCEPT ![h] = Null]
      /\ ipl' \in {"LOW", old_IPL[h]}
      /\ old_IPL' = [old_IPL EXCEPT ![h] = "LOW"]
      /\ intr' \in BOOLEAN
      /\ call' = [call EXCEPT ![h] = NoCall]
      /\ UNCHANGED <<kt_state, kt_cancelled, km_holder, mk>>
  BY Zenon DEF Dispatch, ktqueue_dequeue, TypeOK
<1>c. /\ LockGranted(h) => call[h].mtx \in Mutexes /\ km_holder[call[h].mtx] = h
      /\ held' = [held EXCEPT ![h] = IF LockGranted(h) THEN @ \cup {call[h].mtx} ELSE @]
  BY <1>a, Zenon DEF Dispatch, CallsOK, LockGranted
<1>d. kt_state[h] \notin {"UNUSED", "EXITED"}
  BY <1>a, SchedConstants, Zenon DEF StatesOK
<1> HIDE DEF h
<1>1. TypeOK'
  BY <1>a, <1>b, <1>c, <1>d, ZenonT(40) DEF TypeOK, NoMk, Locals, NoCall, QueueTypes, Executing,
     Switching, Queues, WaitQueues, States
<1>2. QueuesConsistent'
  BY <1>a, Zenon
<1>3. NoLostThread'
  BY <1>a, <1>b, <1>c, <1>d, Zenon DEF NoLostThread, TypeOK, Executing, Queues
<1>4. SleepersAsleep'
  BY <1>a, <1>b, <1>c, <1>d, Zenon DEF SleepersAsleep, TypeOK, Executing, WaitQueues
<1>5. LockedIsHolder'
  BY <1>a, <1>b, <1>c, <1>d, Zenon DEF LockedIsHolder, TypeOK
<1>6. NoWaiterOnFreeMutex'
  BY <1>a, <1>b, <1>c, <1>d, SMTT(30) DEF NoWaiterOnFreeMutex, TypeOK
<1>7. LocalsOK'
  BY <1>b, Zenon DEF LocalsOK
<1>8. StatesOK'
  BY <1>a, <1>b, <1>c, <1>d, ZenonT(40) DEF StatesOK, TypeOK, WaitQueues
<1>9. CallsOK'
  <2>1. /\ call'[h] = NoCall /\ kt_wchan'[h] = Null
        /\ \A t \in Threads \ {h} : call'[t] = call[t] /\ kt_wchan'[t] = kt_wchan[t]
    BY <1>a, <1>b, Zenon DEF TypeOK
  <2>2. ASSUME NEW t \in Threads, t = h
        PROVE  CallOK(t)'
    BY <2>1, <2>2, SomeQueue DEF CallOK, LockGranted, NoCall
  <2>3. ASSUME NEW t \in Threads, t # h
        PROVE  CallOK(t)'
    <3>1. /\ call'[t] = call[t] /\ kt_wchan'[t] = kt_wchan[t] /\ kt_state'[t] = kt_state[t]
          /\ kt_cancelled'[t] = kt_cancelled[t] /\ km_holder' = km_holder
      BY <1>b, <2>1, <2>3, Zenon
    <3>2. CallOK(t)
      BY CallsNow, Zenon
    <3>3. kt_wchan[t] = RunQ /\ LockGranted(t) => km_holder'[call[t].mtx] = t
      BY <3>1, <3>2, Zenon DEF CallOK
    <3> QED
      BY <3>1, <3>2, <3>3, CallKept, Zenon
  <2>4. call'[curthr'] = NoCall
    BY <1>b, <2>1, Zenon
  <2> QED
    BY <2>2, <2>3, <2>4, CallsNext, Zenon
<1>10. IdleOK'
  BY <1>a, <1>b, <1>c, <1>d, Zenon DEF IdleOK
<1> QED
  BY <1>1, <1>2, <1>3, <1>4, <1>5, <1>6, <1>7, <1>8, <1>9, <1>10, Zenon

(***************************************************************************)
(* The interrupt handler                                                   *)
(***************************************************************************)

\* An interrupt handler wakes the first sleeper of a device queue.
LEMMA InterruptStep ==
  ASSUME SchedInv, NEW q \in DevQueues, Interrupt(q), tq_list[q] # <<>>
  PROVE  SchedInv'
<1> USE SchedConstants DEF SchedInv
<1> DEFINE h == Head(tq_list[q])
<1>a. QueueTypes' /\ QueuesConsistent' /\ h \in Threads /\ kt_wchan[h] = q
  BY InterruptConsistent, Zenon DEF Interrupt, TypeOK, QueueTypes
<1>b. call[h].op = "plain" /\ q \notin Mutexes \cup {RunQ, Null}
  BY <1>a, Zenon DEF CallsOK
<1>c. /\ intr /\ ipl = "LOW"
      /\ pc' = IF pc = "halt" THEN "woken" ELSE pc
      /\ kt_state' = [kt_state EXCEPT ![h] = "RUN"]
      /\ kt_wchan' = [kt_wchan EXCEPT ![h] = RunQ]
      /\ UNCHANGED <<curthr, ipl, intr, old_IPL, kt_cancelled, km_holder, call, held, mk>>
  BY Zenon DEF Interrupt, clientVars
<1> HIDE DEF h
<1>1. TypeOK'
  BY <1>a, <1>b, <1>c, Zenon DEF TypeOK, NoMk, Locals, NoCall, QueueTypes, Executing,
     Switching, Queues, WaitQueues, States
<1>2. QueuesConsistent'
  BY <1>a, Zenon
<1>3. NoLostThread'
  BY <1>a, <1>b, <1>c, Zenon DEF NoLostThread, TypeOK, Executing, Queues
<1>4. SleepersAsleep'
  BY <1>a, <1>b, <1>c, Zenon DEF SleepersAsleep, TypeOK, Executing, WaitQueues
<1>5. LockedIsHolder'
  BY <1>a, <1>b, <1>c, Zenon DEF LockedIsHolder, TypeOK
<1>6. NoWaiterOnFreeMutex'
  BY <1>a, <1>b, <1>c, SMTT(30) DEF NoWaiterOnFreeMutex, TypeOK
<1>7. LocalsOK'
  BY <1>a, <1>b, <1>c, ZenonT(40) DEF LocalsOK, NoMk, Locals, TypeOK
<1>8. StatesOK'
  BY <1>a, <1>b, <1>c, ZenonT(40) DEF StatesOK, TypeOK, WaitQueues
<1>9. CallsOK'
  BY <1>a, <1>b, <1>c, ZenonT(40) DEF CallsOK, LockGranted, NoCall, TypeOK, Executing
<1>10. IdleOK'
  BY <1>a, <1>b, <1>c, Zenon DEF IdleOK, TypeOK
<1> QED
  BY <1>1, <1>2, <1>3, <1>4, <1>5, <1>6, <1>7, <1>8, <1>9, <1>10, Zenon

\* An interrupt that finds nobody to wake.
LEMMA SpuriousStep ==
  ASSUME SchedInv, NEW q \in DevQueues, Interrupt(q), tq_list[q] = <<>>
  PROVE  SchedInv'
<1> USE SchedConstants DEF SchedInv
<1>1. TypeOK'
  BY Zenon DEF TypeOK, NoMk, Locals, NoCall, Interrupt, clientVars, Executing, Switching,
     Queues, WaitQueues, States
<1>2. QueuesConsistent'
  <2>1. tq_list' = tq_list /\ kt_wchan' = kt_wchan
    BY Zenon DEF Interrupt
  <2>2. \A t \in Threads, s \in Queues : On(t, s)' <=> On(t, s)
    BY <2>1, Zenon DEF On
  <2> QED
    BY <2>1, <2>2, Zenon DEF QueuesConsistent
<1>3. NoLostThread'
  BY Zenon DEF NoLostThread, Interrupt, clientVars, Executing, Queues
<1>4. SleepersAsleep'
  BY Zenon DEF SleepersAsleep, Interrupt, clientVars, Executing, WaitQueues
<1>5. LockedIsHolder'
  BY Zenon DEF LockedIsHolder, Interrupt, clientVars
<1>6. NoWaiterOnFreeMutex'
  BY Zenon DEF NoWaiterOnFreeMutex, Interrupt, clientVars
<1>7. LocalsOK'
  BY Zenon DEF LocalsOK, NoMk, Locals, Interrupt, clientVars
<1>8. StatesOK'
  BY Zenon DEF StatesOK, Interrupt, clientVars, WaitQueues
<1>9. CallsOK'
  BY Zenon DEF CallsOK, LockGranted, NoCall, Interrupt, clientVars, Executing
<1>10. IdleOK'
  BY Zenon DEF IdleOK, Interrupt, clientVars
<1> QED
  BY <1>1, <1>2, <1>3, <1>4, <1>5, <1>6, <1>7, <1>8, <1>9, <1>10, Zenon

(***************************************************************************)
(* The theorems                                                            *)
(***************************************************************************)

\* The state bootstrap leaves satisfies the invariant.
LEMMA InitInv == Init => SchedInv
<1> SUFFICES ASSUME Init PROVE SchedInv
  OBVIOUS
<1> USE SchedConstants DEF Init
<1>1. TypeOK
  BY SMTT(30) DEF TypeOK, NoMk, Locals, NoCall, Queues, WaitQueues, States, Executing
<1>2. QueuesConsistent
  BY NullNoQueue DEF QueuesConsistent, On
<1>3. NoLostThread /\ SleepersAsleep /\ StatesOK
  BY NullNoQueue, Zenon DEF NoLostThread, SleepersAsleep, StatesOK, Executing, Queues
<1>4. LockedIsHolder /\ NoWaiterOnFreeMutex
  BY Zenon DEF LockedIsHolder, NoWaiterOnFreeMutex
<1>5. LocalsOK /\ IdleOK
  BY Zenon DEF LocalsOK, IdleOK
<1>6. CallsOK
  BY NullNoQueue, Zenon DEF CallsOK, LockGranted, NoCall, Queues, WaitQueues
<1> QED
  BY <1>1, <1>2, <1>3, <1>4, <1>5, <1>6, Zenon DEF SchedInv

\* A step that changes nothing.
LEMMA StutterStep ==
  ASSUME SchedInv, UNCHANGED vars
  PROVE  SchedInv'
<1>1. QueuesConsistent'
  <2>1. tq_list' = tq_list /\ kt_wchan' = kt_wchan
    BY Zenon DEF vars, threadVars
  <2>2. QueuesConsistent
    BY Zenon DEF SchedInv
  <2>3. \A t \in Threads, q \in Queues : On(t, q)' <=> On(t, q)
    BY <2>1, Zenon DEF On
  <2> QED
    BY <2>1, <2>2, <2>3, Zenon DEF QueuesConsistent
<1> USE DEF SchedInv, vars, cpuVars, threadVars, clientVars
<1>2. TypeOK'
  BY Zenon DEF TypeOK
<1>3. NoLostThread' /\ SleepersAsleep' /\ StatesOK'
  BY Zenon DEF NoLostThread, SleepersAsleep, StatesOK
<1>4. LockedIsHolder' /\ NoWaiterOnFreeMutex'
  BY Zenon DEF LockedIsHolder, NoWaiterOnFreeMutex
<1>5. LocalsOK' /\ IdleOK'
  BY Zenon DEF LocalsOK, IdleOK
<1>6. CallsOK'
  BY Zenon DEF CallsOK, LockGranted
<1> QED
  BY <1>1, <1>2, <1>3, <1>4, <1>5, <1>6, Zenon

\* Every step of the scheduler, of the running thread and of an interrupt
\* handler preserves the invariant.
LEMMA NextInv == SchedInv /\ [Next]_vars => SchedInv'
<1> SUFFICES ASSUME SchedInv, [Next]_vars PROVE SchedInv'
  OBVIOUS
<1>1. CASE Scheduler
  <2>1. CASE MakeRunnableLink
    BY <2>1, LinkStep, Zenon
  <2>2. CASE IdleDisable
    BY <2>2, IdleDisableStep, Zenon
  <2>3. CASE IdleWait
    BY <2>3, IdleWaitStep, Zenon
  <2>4. CASE IdleMask
    BY <2>4, IdleMaskStep, Zenon
  <2>5. CASE Dispatch
    BY <2>5, DispatchStep, Zenon
  <2>6. CASE Resched
    BY <2>6, ReschedStep, Zenon
  <2>7. CASE BroadcastNext
    <3>1. mk.q \in SoftQueues /\ pc = "broadcast"
      BY <2>7, Zenon DEF BroadcastNext, SchedInv, LocalsOK
    <3> QED
      BY <2>7, <3>1, WakeStep, Zenon DEF BroadcastNext
  <2>8. CASE BroadcastDone
    BY <2>8, BroadcastDoneStep, Zenon
  <2>9. CASE SchedCancelRemove
    BY <2>9, CancelRemoveStep, Zenon
  <2> QED
    BY <1>1, <2>1, <2>2, <2>3, <2>4, <2>5, <2>6, <2>7, <2>8, <2>9, Zenon DEF Scheduler
<1>2. CASE ThreadOp
  <2>1. ASSUME NEW q \in SoftQueues \cup DevQueues, sched_sleep_on(q)
        PROVE  SchedInv'
    <3>1. q \in WaitQueues /\ pc = "run" /\ Sleep(q, "SLEEP", "plain", Null)
      BY <2>1, Zenon DEF sched_sleep_on, WaitQueues
    <3> QED
      BY <2>1, <3>1, SleepStep, Zenon
  <2>2. ASSUME NEW q \in SoftQueues \cup DevQueues, sched_cancellable_sleep_on(q)
        PROVE  SchedInv'
    <3>1. q \in WaitQueues /\ pc = "run" /\ Sleep(q, "SLEEP_CANCELLABLE", "plain", Null)
      BY <2>2, Zenon DEF sched_cancellable_sleep_on, WaitQueues
    <3> QED
      BY <2>2, <3>1, SleepStep, Zenon
  <2>3. ASSUME NEW q \in SoftQueues, sched_wakeup_on(q)
        PROVE  SchedInv'
    BY <2>3, WakeStep, Zenon DEF sched_wakeup_on
  <2>4. ASSUME NEW q \in SoftQueues, sched_broadcast_on(q)
        PROVE  SchedInv'
    BY <2>4, WakeStep, Zenon DEF sched_broadcast_on
  <2>5. ASSUME NEW m \in Mutexes, kmutex_lock(m)
        PROVE  SchedInv'
    <3>1. CASE TakeFree(m)
      BY <2>5, <3>1, TakeFreeStep, Zenon DEF kmutex_lock
    <3>2. CASE km_holder[m] # Null /\ Sleep(m, "SLEEP", "lock", m)
      <4>1. m \in WaitQueues /\ km_holder[m] \notin {Null, curthr} /\ pc = "run"
        BY <2>5, <3>2, Zenon DEF kmutex_lock, WaitQueues
      <4> QED
        BY <3>2, <4>1, SleepStep, Zenon
    <3> QED
      BY <2>5, <3>1, <3>2, Zenon DEF kmutex_lock
  <2>6. ASSUME NEW m \in Mutexes, kmutex_lock_cancellable(m)
        PROVE  SchedInv'
    <3>1. CASE TakeFree(m)
      BY <2>6, <3>1, TakeFreeStep, Zenon DEF kmutex_lock_cancellable
    <3>2. CASE km_holder[m] # Null /\ Sleep(m, "SLEEP_CANCELLABLE", "clock", m)
      <4>1. m \in WaitQueues /\ km_holder[m] \notin {Null, curthr} /\ pc = "run"
        BY <2>6, <3>2, Zenon DEF kmutex_lock_cancellable, WaitQueues
      <4> QED
        BY <3>2, <4>1, SleepStep, Zenon
    <3> QED
      BY <2>6, <3>1, <3>2, Zenon DEF kmutex_lock_cancellable
  <2>7. ASSUME NEW m \in Mutexes, kmutex_unlock(m)
        PROVE  SchedInv'
    BY <2>7, HandOverStep, ReleaseStep, Zenon
  <2>8. ASSUME NEW t \in Threads, kthread_create(t)
        PROVE  SchedInv'
    BY <2>8, NewThreadStep, Zenon DEF kthread_create
  <2>9. ASSUME NEW t \in Threads, kthread_clone(t)
        PROVE  SchedInv'
    <3>1. kt_cancelled[curthr] \in BOOLEAN
      BY Zenon DEF SchedInv, TypeOK
    <3>2. NewThread(t, "RUN", kt_cancelled[curthr])
      BY <2>9, Zenon DEF kthread_clone
    <3> QED
      BY <3>1, <3>2, NewThreadStep, Zenon
  <2>10. ASSUME NEW t \in Threads, kthread_cancel(t)
         PROVE  SchedInv'
    BY <2>10, CancelStep, Zenon
  <2>11. ASSUME NEW t \in Threads, kthread_destroy(t)
         PROVE  SchedInv'
    BY <2>11, DestroyStep, Zenon
  <2>12. CASE kthread_exit
    BY <2>12, ExitStep, Zenon
  <2>13. CASE thr_yield
    BY <2>13, YieldStep, Zenon
  <2>14. ASSUME NEW level \in {"LOW", "HIGH"}, intr_setipl(level)
         PROVE  SchedInv'
    BY <2>14, SetIplStep, Zenon
  <2> QED
    BY <1>2, <2>1, <2>2, <2>3, <2>4, <2>5, <2>6, <2>7, <2>8, <2>9, <2>10, <2>11,
       <2>12, <2>13, <2>14, Zenon DEF ThreadOp
<1>3. ASSUME NEW q \in DevQueues, Interrupt(q)
      PROVE  SchedInv'
  BY <1>3, InterruptStep, SpuriousStep, Zenon
<1>4. CASE UNCHANGED vars
  BY <1>4, StutterStep, Zenon
<1> QED
  BY <1>1, <1>2, <1>3, <1>4, Zenon DEF Next

\* The scheduler's invariant holds in every reachable state, for any threads,
\* mutexes and queues, with cancellation and interrupts at every point.
THEOREM SchedInvariant == Spec => []SchedInv
  BY InitInv, NextInv, PTL DEF Spec

\* kt_wchan and the queues' lists agree at all times: no step of
\* ktqueue_enqueue, ktqueue_dequeue or ktqueue_remove loses or duplicates a thread.
THEOREM QueuesStayConsistent == Spec => []QueuesConsistent
<1>1. SchedInv => QueuesConsistent
  BY Zenon DEF SchedInv
<1> QED
  BY <1>1, SchedInvariant, PTL

\* Every live thread can be found again, as sched_cancel's comment demands.
THEOREM ThreadsNeverLost == Spec => []NoLostThread
<1>1. SchedInv => NoLostThread
  BY Zenon DEF SchedInv
<1> QED
  BY <1>1, SchedInvariant, PTL

\* kmutex.c: whoever was told it has a mutex holds it, so the mutex excludes.
THEOREM MutexExcludes == Spec => []LockedIsHolder
<1>1. SchedInv => LockedIsHolder
  BY Zenon DEF SchedInv
<1> QED
  BY <1>1, SchedInvariant, PTL

\* kmutex_unlock never leaves a mutex free while a thread waits for it.
THEOREM MutexHandedOver == Spec => []NoWaiterOnFreeMutex
<1>1. SchedInv => NoWaiterOnFreeMutex
  BY Zenon DEF SchedInv
<1> QED
  BY <1>1, SchedInvariant, PTL

\* sched_switch never halts the CPU while a thread is ready.
THEOREM NoLostWakeup == Spec => []NoHaltWithWork
<1>1. SchedInv => NoHaltWithWork
  BY Zenon DEF SchedInv, IdleOK, NoHaltWithWork
<1> QED
  BY <1>1, SchedInvariant, PTL

\* A thread that executes and was not cancelled is in KT_RUN or KT_NO_STATE.
THEOREM RunningStateHolds == Spec => []RunningState
<1>1. SchedInv => RunningState
  BY SchedConstants, NullNoQueue
     DEF SchedInv, StatesOK, SleepersAsleep, TypeOK, States, RunningState, Executing, Queues
<1> QED
  BY <1>1, SchedInvariant, PTL
=============================================================================
