------------------------------- MODULE Pframe -------------------------------
(***************************************************************************)
(* The page cache: kernel/mm/pframe.c with its callers in kernel/vm        *)
(* (pagefault.c, vmmap_read and vmmap_write, shadow_fillpage's copy) and   *)
(* SYS_sync.                                                               *)
(*                                                                         *)
(* A page is an object and a page number of it; the objects are files, on  *)
(* whose page operations a thread may sleep.  Threads are not preempted:   *)
(* a step is the code between two points at which its thread may sleep,    *)
(* which are the waits on pf_waitq and the fillpage, dirtypage and         *)
(* cleanpage operations.  A page table change takes effect at once.        *)
(* nallocated and npinned are the sizes of the lists; the objects' counts  *)
(* and pframe_migrate, which nothing calls, are left out.                  *)
(***************************************************************************)
EXTENDS Integers, FiniteSets, Sequences, Functions

CONSTANTS
  Pages,               \* the pages of files
  Frames,              \* the physical pages page_alloc hands out
  Values, Zero, Junk,  \* contents of a page; what the disk and a frame start with
  Clients,             \* the threads of processes
  Pageoutd, Idle,      \* the threads of the pageout daemon and of idleproc
  Failures,            \* the operations, of "fill", "dirty", "clean", that may fail
  Null

ASSUME PframeConstants ==
  /\ Zero \in Values /\ Junk \notin Values
  /\ IsFiniteSet(Frames) /\ Null \notin Frames \cup Pages
  /\ Pageoutd \notin Clients /\ Idle \notin Clients /\ Pageoutd # Idle
  /\ Failures \subseteq {"fill", "dirty", "clean"}

Threads == Clients \cup {Pageoutd, Idle}
nfreepages_target == Cardinality(Frames) \div 2

VARIABLES
  pf_page,       \* per frame, pf_obj and pf_pagenum; Null for a free one
  busy, dirty,   \* the frames with PF_BUSY, PF_DIRTY
  pf_pincount,
  alloc_list, pinned_list,
  contents,      \* what is at pf_addr
  disk,          \* what the file has of each page
  pt,            \* per client, the frame and the access a page is mapped with
  pc, req, pf,   \* per thread: where it is, what it asked for, its local pf
  wait,          \* per thread, the frame whose pf_waitq it sleeps on
  written,       \* per page, what was last written to it (no code reads it)
  fault          \* "none", or why the kernel has stopped

frameVars == <<pf_page, busy, dirty, pf_pincount, alloc_list, pinned_list, contents>>
threadVars == <<pc, req, pf, wait>>
vars == <<frameVars, disk, pt, threadVars, written, fault>>

NoReq == [op |-> "none", page |-> Null, val |-> Zero]
NoMap == [frame |-> Null, write |-> FALSE]

At(t, place) == fault = "none" /\ pc[t] = place /\ wait[t] = Null
Go(t, place) == pc' = [pc EXCEPT ![t] = place]
Forget(t) == req' = [req EXCEPT ![t] = NoReq] /\ pf' = [pf EXCEPT ![t] = Null]
KASSERT(cond) == fault' = IF cond THEN "none" ELSE "kassert"

(***************************************************************************)
(* Frames                                                                  *)
(***************************************************************************)

InUse == {f \in Frames : pf_page[f] # Null}
page_free_count == Cardinality(Frames \ InUse)
Resident(p) == {f \in Frames : pf_page[f] = p}

\* list_remove of f's link in the list l.
list_remove(l, f) ==
  LET k == CHOOSE i \in DOMAIN l : l[i] = f
  IN  [i \in 1..(Len(l) - 1) |-> l[IF i < k THEN i ELSE i + 1]]

\* pframe_get_resident found f: alloc_list in least-recently-requested order.
Requested(f) ==
  IF pf_pincount[f] > 0 THEN alloc_list ELSE Append(list_remove(alloc_list, f), f)

\* Variants: the waiters of a page are not woken; a freed or cleaned page stays
\* mapped.
Woken_None(f) == wait
RemovedFromPts_None(f) == pt

\* sched_broadcast_on(&pf->pf_waitq)
Woken(f) == [t \in Threads |-> IF wait[t] = f THEN Null ELSE wait[t]]

\* pframe_remove_from_pts: every area that maps the page is on the list.
RemovedFromPts(f) ==
  [t \in Clients |-> [p \in Pages |-> IF pt[t][p].frame = f THEN NoMap ELSE pt[t][p]]]

\* pframe_free(f); the caller checks its KASSERTs.  What the frame contains next
\* is unknown.
pframe_free(f) ==
  /\ pf_page' = [pf_page EXCEPT ![f] = Null]
  /\ contents' = [contents EXCEPT ![f] = Junk]
  /\ alloc_list' = list_remove(alloc_list, f)
  /\ pt' = RemovedFromPts(f)

(***************************************************************************)
(* pframe_get and what its callers do with the page                        *)
(***************************************************************************)

\* What a process asks the cache for: read and write faults, vmmap_read and
\* vmmap_write of a value.
Requests ==
  [op : {"fault_r", "fault_w", "kread"}, page : Pages, val : {Zero}]
    \cup [op : {"kwrite"}, page : Pages, val : Values]

\* handle_pagefault's read of f for t: map it.
ReadFault(t, r, f, list, nowbusy, data) ==
  /\ r.op = "fault_r"
  /\ pt' = [pt EXCEPT ![t][r.page] = [frame |-> f, write |-> FALSE]]
  /\ alloc_list' = list
  /\ busy' = nowbusy
  /\ contents' = data
  /\ Go(t, "user") /\ Forget(t)
  /\ UNCHANGED <<pf_pincount, pinned_list, written, fault>>

\* vmmap_read and shadow_fillpage copy from f.
CopyOut(t, r, f, list, nowbusy, data) ==
  /\ r.op \in {"kread", "copy"}
  /\ alloc_list' = list
  /\ busy' = nowbusy
  /\ contents' = data
  /\ Go(t, "user") /\ Forget(t)
  /\ UNCHANGED <<pf_pincount, pinned_list, pt, written, fault>>

\* handle_pagefault's write: pframe_pin, and pframe_dirty up to dirtypage.
WriteFault(t, r, f, list, nowbusy, data) ==
  /\ r.op = "fault_w"
  /\ pf_pincount' = [pf_pincount EXCEPT ![f] = @ + 1]
  /\ alloc_list' = IF pf_pincount[f] = 0 THEN list_remove(list, f) ELSE list
  /\ pinned_list' = pinned_list \cup {f}
  /\ KASSERT(f \notin nowbusy)
  /\ busy' = nowbusy \cup {f}
  /\ contents' = data
  /\ Go(t, "dirty")
  /\ pf' = [pf EXCEPT ![t] = f]
  /\ req' = [req EXCEPT ![t] = r]
  /\ UNCHANGED <<pt, written>>

\* vmmap_write: memcpy, and pframe_dirty up to dirtypage.
CopyIn(t, r, f, list, nowbusy, data) ==
  /\ r.op = "kwrite"
  /\ contents' = [data EXCEPT ![f] = r.val]
  /\ written' = [written EXCEPT ![r.page] = r.val]
  /\ KASSERT(f \notin nowbusy)
  /\ busy' = nowbusy \cup {f}
  /\ alloc_list' = list
  /\ Go(t, "dirty")
  /\ pf' = [pf EXCEPT ![t] = f]
  /\ req' = [req EXCEPT ![t] = r]
  /\ UNCHANGED <<pf_pincount, pinned_list, pt>>

\* pframe_get returned f to t, which asked for r, with the given state of the
\* cache.
Return(t, r, f, list, nowbusy, data) ==
  /\ \/ ReadFault(t, r, f, list, nowbusy, data)
     \/ CopyOut(t, r, f, list, nowbusy, data)
     \/ WriteFault(t, r, f, list, nowbusy, data)
     \/ CopyIn(t, r, f, list, nowbusy, data)
  /\ UNCHANGED <<pf_page, dirty, disk>>

\* The page is resident and busy: wait, and look again.
GetWait(t, r) ==
  /\ \E f \in Resident(r.page) \cap busy :
       /\ alloc_list' = Requested(f)
       /\ wait' = [wait EXCEPT ![t] = f]
  /\ req' = [req EXCEPT ![t] = r]
  /\ Go(t, "get")
  /\ UNCHANGED <<pf_page, busy, dirty, pf_pincount, pinned_list, contents,
                 disk, pt, pf, written, fault>>

\* A variant that does not look at PF_BUSY.
GetHit_Busy(t, r) ==
  /\ \E f \in Resident(r.page) : Return(t, r, f, Requested(f), busy, contents)
  /\ UNCHANGED wait

\* The page is resident and not busy.
GetHit(t, r) ==
  /\ \E f \in Resident(r.page) \ busy :
       Return(t, r, f, Requested(f), busy, contents)
  /\ UNCHANGED wait

\* Not resident: pframe_alloc, and pframe_fill up to fillpage.  Without a free
\* frame pframe_fill is called with NULL.
GetMiss(t, r) ==
  /\ Resident(r.page) = {}
  /\ \/ \E f \in Frames \ InUse :
          /\ pf_page' = [pf_page EXCEPT ![f] = r.page]
          /\ alloc_list' = Append(alloc_list, f)
          /\ busy' = busy \cup {f}
          /\ dirty' = dirty \ {f}
          /\ pf_pincount' = [pf_pincount EXCEPT ![f] = 0]
          /\ pf' = [pf EXCEPT ![t] = f]
          /\ Go(t, "fill")
          /\ UNCHANGED fault
     \/ /\ InUse = Frames
        /\ fault' = "null"
        /\ UNCHANGED <<pf_page, alloc_list, busy, dirty, pf_pincount, pf, pc>>
  /\ req' = [req EXCEPT ![t] = r]
  /\ UNCHANGED <<pinned_list, contents, disk, pt, wait, written>>

pframe_get(t, r) == GetWait(t, r) \/ GetHit(t, r) \/ GetMiss(t, r)

\* shadow_fillpage copies p from the bottom object: from a resident page, busy
\* or not, or else by pframe_lookup.
shadow_fillpage(t, p) ==
  /\ At(t, "user")
  /\ \/ \E f \in Resident(p) :
          /\ alloc_list' = Requested(f)
          /\ UNCHANGED <<pf_page, busy, dirty, pf_pincount, pinned_list, contents,
                         disk, pt, threadVars, written, fault>>
     \/ /\ Resident(p) = {}
        /\ pframe_get(t, [op |-> "copy", page |-> p, val |-> Zero])

\* fillpage has read the page.
FillDone(t) ==
  /\ At(t, "fill")
  /\ wait' = Woken(pf[t])
  /\ Return(t, req[t], pf[t], alloc_list, busy \ {pf[t]},
            [contents EXCEPT ![pf[t]] = disk[req[t].page]])

\* fillpage failed: free the page and return the error.  A fault ends the
\* process; vmmap_read and vmmap_write go on with an uninitialized pf.
FillFailed(t) ==
  /\ "fill" \in Failures
  /\ At(t, "fill")
  /\ wait' = Woken(pf[t])
  /\ busy' = busy \ {pf[t]}
  /\ pframe_free(pf[t])
  /\ \/ /\ req[t].op \in {"kread", "kwrite"}
        /\ fault' \in {"none", "wild"}
        /\ Go(t, "user")
     \/ /\ req[t].op \notin {"kread", "kwrite"}
        /\ Go(t, "exit")
        /\ UNCHANGED fault
  /\ Forget(t)
  /\ UNCHANGED <<dirty, pf_pincount, pinned_list, disk, written>>

(***************************************************************************)
(* pframe_dirty                                                            *)
(***************************************************************************)

\* A variant of pframe_unpin's change that does not put the page back on alloc_list.
Unpin_NotListed(t) ==
  /\ pf_pincount' = [pf_pincount EXCEPT ![pf[t]] = 0]
  /\ pinned_list' = pinned_list \ {pf[t]}
  /\ UNCHANGED alloc_list

\* pframe_unpin after handle_pagefault's pframe_dirty; vmmap_write has no pin.
Unpin(t) ==
  \/ /\ req[t].op = "fault_w"
     /\ pf_pincount' = [pf_pincount EXCEPT ![pf[t]] = @ - 1]
     /\ IF pf_pincount[pf[t]] = 1
        THEN /\ pinned_list' = pinned_list \ {pf[t]}
             /\ alloc_list' = Append(alloc_list, pf[t])
        ELSE UNCHANGED <<alloc_list, pinned_list>>
  \/ /\ req[t].op = "kwrite"
     /\ UNCHANGED <<pf_pincount, alloc_list, pinned_list>>

\* dirtypage has returned.  No caller looks at pframe_dirty's result.
DirtyDone(t) ==
  /\ At(t, "dirty")
  /\ \/ dirty' = dirty \cup {pf[t]}
     \/ "dirty" \in Failures /\ UNCHANGED dirty
  /\ busy' = busy \ {pf[t]}
  /\ wait' = Woken(pf[t])
  /\ Unpin(t)
  /\ pt' = IF req[t].op = "kwrite" THEN pt
           ELSE [pt EXCEPT ![t][req[t].page] = [frame |-> pf[t], write |-> TRUE]]
  /\ Go(t, "user") /\ Forget(t)
  /\ UNCHANGED <<pf_page, contents, disk, written, fault>>

\* The process stores to a page that it has mapped for writing.
UserStore(t, p, v) ==
  /\ At(t, "user")
  /\ pt[t][p].write
  /\ contents' = [contents EXCEPT ![pt[t][p].frame] = v]
  /\ written' = [written EXCEPT ![p] = v]
  /\ UNCHANGED <<pf_page, busy, dirty, pf_pincount, alloc_list, pinned_list,
                 disk, pt, threadVars, fault>>

(***************************************************************************)
(* pframe_clean, pframe_clean_all and pageoutd_run                         *)
(***************************************************************************)

\* A variant that leaves PF_DIRTY set.
pframe_clean_StillDirty(t, f, place) ==
  /\ KASSERT(f \in dirty /\ pf_pincount[f] = 0)
  /\ dirty' = dirty
  /\ pt' = RemovedFromPts(f)
  /\ busy' = busy \cup {f}
  /\ pf' = [pf EXCEPT ![t] = f]
  /\ Go(t, place)
  /\ UNCHANGED <<pf_page, pf_pincount, alloc_list, pinned_list, contents, disk, req, wait, written>>

\* pframe_clean(f) by t up to cleanpage: PF_DIRTY goes first, and the page is
\* unmapped so that another write faults.
pframe_clean(t, f, place) ==
  /\ KASSERT(f \in dirty /\ pf_pincount[f] = 0)
  /\ dirty' = dirty \ {f}
  /\ pt' = RemovedFromPts(f)
  /\ busy' = busy \cup {f}
  /\ pf' = [pf EXCEPT ![t] = f]
  /\ Go(t, place)
  /\ UNCHANGED <<pf_page, pf_pincount, alloc_list, pinned_list, contents, disk, req, wait, written>>

\* A variant that forgets that the page is still dirty.
CleanFailed_Clean(f) == UNCHANGED <<disk, dirty>>

CleanFailed(f) ==
  /\ "clean" \in Failures
  /\ dirty' = dirty \cup {f}
  /\ UNCHANGED disk

\* cleanpage has written the page, or failed to; the caller starts over.
CleanDone(t, from, to) ==
  /\ At(t, from)
  /\ \/ disk' = [disk EXCEPT ![pf_page[pf[t]]] = contents[pf[t]]] /\ UNCHANGED dirty
     \/ CleanFailed(pf[t])
  /\ busy' = busy \ {pf[t]}
  /\ wait' = Woken(pf[t])
  /\ Go(t, to) /\ Forget(t)
  /\ UNCHANGED <<pf_page, pf_pincount, alloc_list, pinned_list, contents, pt, written, fault>>

\* sleep on f's queue.
WaitFor(t, f) ==
  /\ wait' = [wait EXCEPT ![t] = f]
  /\ UNCHANGED <<frameVars, disk, pt, pc, req, pf, written, fault>>

SYS_sync(t) ==
  /\ At(t, "user")
  /\ Go(t, "sync")
  /\ UNCHANGED <<frameVars, disk, pt, req, pf, wait, written, fault>>

\* pframe_clean_all's loop: the first page of the list that is busy or dirty.
SyncStep(t) ==
  /\ At(t, "sync")
  /\ \E i \in DOMAIN alloc_list :
       LET f == alloc_list[i]
       IN  /\ f \in busy \cup dirty
           /\ \A j \in 1..(i - 1) : alloc_list[j] \notin busy \cup dirty
           /\ IF f \in busy THEN WaitFor(t, f) ELSE pframe_clean(t, f, "clean")

SyncEnd(t) ==
  /\ At(t, "sync")
  /\ t # Idle
  /\ \A i \in DOMAIN alloc_list : alloc_list[i] \notin busy \cup dirty
  /\ Go(t, "user")
  /\ UNCHANGED <<frameVars, disk, pt, req, pf, wait, written, fault>>

\* A variant that yanks the page although it is busy.
PageoutStep_Busy ==
  LET f == Head(alloc_list)
  IN  /\ At(Pageoutd, "pageout")
      /\ page_free_count < nfreepages_target /\ alloc_list # <<>>
      /\ IF f \in dirty THEN pframe_clean(Pageoutd, f, "pclean")
         ELSE /\ KASSERT(pf_pincount[f] = 0 /\ f \notin busy)
              /\ pframe_free(f)
              /\ UNCHANGED <<busy, dirty, pf_pincount, pinned_list, disk, threadVars, written>>

\* pageoutd_run's inner loop: reclaim the least-recently-requested page.
PageoutStep ==
  LET f == Head(alloc_list)
  IN  /\ At(Pageoutd, "pageout")
      /\ page_free_count < nfreepages_target /\ alloc_list # <<>>
      /\ IF f \in busy THEN WaitFor(Pageoutd, f)
         ELSE IF f \in dirty THEN pframe_clean(Pageoutd, f, "pclean")
         ELSE /\ KASSERT(pf_pincount[f] = 0 /\ f \notin busy)
              /\ pframe_free(f)
              /\ UNCHANGED <<busy, dirty, pf_pincount, pinned_list, disk, threadVars, written>>

\* Enough pages are free: sleep until cancelled, or exit if that has happened.
\* Nothing calls pageoutd_wakeup.
PageoutEnd ==
  /\ At(Pageoutd, "pageout")
  /\ page_free_count >= nfreepages_target \/ alloc_list = <<>>
  /\ Go(Pageoutd, IF pc[Idle] = "reap" THEN "gone" ELSE "asleep")
  /\ UNCHANGED <<frameVars, disk, pt, req, pf, wait, written, fault>>

(***************************************************************************)
(* Exit and shutdown                                                       *)
(***************************************************************************)

\* The process exits, by itself or because of a fault; its page table goes.
Exit(t) ==
  /\ At(t, "user") \/ At(t, "exit")
  /\ Go(t, "gone")
  /\ pt' = [pt EXCEPT ![t] = [p \in Pages |-> NoMap]]
  /\ UNCHANGED <<frameVars, disk, req, pf, wait, written, fault>>

\* pframe_shutdown, when all processes are gone: cancel pageoutd ...
ShutdownStart ==
  /\ At(Idle, "wait")
  /\ \A t \in Clients : pc[t] = "gone"
  /\ pc' = [pc EXCEPT ![Idle] = "reap",
                      ![Pageoutd] = IF @ = "asleep" THEN "gone" ELSE @]
  /\ UNCHANGED <<frameVars, disk, pt, req, pf, wait, written, fault>>

\* ... wait for it, and clean all pages ...
ShutdownSync ==
  /\ At(Idle, "reap")
  /\ pc[Pageoutd] = "gone"
  /\ KASSERT(pinned_list = {})
  /\ Go(Idle, "sync")
  /\ UNCHANGED <<frameVars, disk, pt, req, pf, wait, written>>

\* ... and free them.
ShutdownEnd ==
  /\ At(Idle, "sync")
  /\ \A i \in DOMAIN alloc_list : alloc_list[i] \notin busy \cup dirty
  /\ pf_page' = [f \in Frames |-> IF f \in Range(alloc_list) THEN Null ELSE pf_page[f]]
  /\ contents' = [f \in Frames |-> IF f \in Range(alloc_list) THEN Junk ELSE contents[f]]
  /\ alloc_list' = <<>>
  /\ Go(Idle, "gone")
  /\ UNCHANGED <<busy, dirty, pf_pincount, pinned_list, disk, pt,
                 req, pf, wait, written, fault>>

Stopped ==
  /\ fault # "none" \/ pc[Idle] = "gone"
  /\ UNCHANGED vars

Init ==
  /\ pf_page = [f \in Frames |-> Null]
  /\ busy = {} /\ dirty = {}
  /\ pf_pincount = [f \in Frames |-> 0]
  /\ alloc_list = <<>> /\ pinned_list = {}
  /\ contents = [f \in Frames |-> Junk]
  /\ disk = [p \in Pages |-> Zero]
  /\ pt = [t \in Clients |-> [p \in Pages |-> NoMap]]
  /\ pc = [t \in Threads |-> IF t = Idle THEN "wait" ELSE IF t = Pageoutd THEN "pageout" ELSE "user"]
  /\ req = [t \in Threads |-> NoReq]
  /\ pf = [t \in Threads |-> Null]
  /\ wait = [t \in Threads |-> Null]
  /\ written = disk
  /\ fault = "none"

\* The operations of t that end with a wakeup.
Completes(t) ==
  \/ FillDone(t) \/ FillFailed(t) \/ DirtyDone(t)
  \/ CleanDone(t, "clean", "sync") \/ CleanDone(t, "pclean", "pageout")

Client(t) ==
  \/ At(t, "user") /\ \E r \in Requests : pframe_get(t, r)
  \/ At(t, "get") /\ pframe_get(t, req[t])
  \/ \E p \in Pages :
       shadow_fillpage(t, p) \/ \E v \in Values : UserStore(t, p, v)
  \/ SYS_sync(t) \/ Exit(t)

Next ==
  \/ \E t \in Clients : Client(t)
  \/ \E t \in Threads : Completes(t) \/ SyncStep(t) \/ SyncEnd(t)
  \/ PageoutStep \/ PageoutEnd
  \/ ShutdownStart \/ ShutdownSync \/ ShutdownEnd
  \/ Stopped

Spec == Init /\ [][Next]_vars

(***************************************************************************)
(* Fairness: the disk answers, and does not fail to write for ever; kernel *)
(* code runs on.                                                           *)
(***************************************************************************)

Written(t) == (CleanDone(t, "clean", "sync") \/ CleanDone(t, "pclean", "pageout"))
              /\ dirty' = dirty

Fairness ==
  /\ \A t \in Threads : WF_vars(Completes(t)) /\ SF_vars(Written(t))
  /\ \A t \in Threads : WF_vars(SyncStep(t) \/ SyncEnd(t))
  /\ WF_vars(PageoutStep \/ PageoutEnd)
  /\ WF_vars(ShutdownSync \/ ShutdownEnd)

FairSpec == Spec /\ Fairness

(***************************************************************************)
(* Properties                                                              *)
(***************************************************************************)

Filling(f) == \E t \in Threads : pc[t] = "fill" /\ pf[t] = f

\* t has a page busy and waits for the disk.
WorksOn(t, f) == pc[t] \in {"fill", "dirty", "clean", "pclean"} /\ pf[t] = f

\* Every variable has its type.
TypeOK ==
  /\ pf_page \in [Frames -> Pages \cup {Null}]
  /\ busy \subseteq Frames /\ dirty \subseteq Frames /\ pinned_list \subseteq Frames
  /\ pf_pincount \in [Frames -> Nat]
  /\ alloc_list \in Seq(Frames)
  /\ contents \in [Frames -> Values \cup {Junk}]
  /\ disk \in [Pages -> Values] /\ written \in [Pages -> Values]
  /\ pt \in [Clients -> [Pages -> [frame : Frames \cup {Null}, write : BOOLEAN]]]
  /\ pc \in [Threads -> {"user", "get", "fill", "dirty", "sync", "clean", "pclean",
                          "pageout", "asleep", "exit", "gone", "wait", "reap"}]
  /\ req \in [Threads -> [op : {"none", "fault_r", "fault_w", "kread", "kwrite", "copy"},
                           page : Pages \cup {Null}, val : Values]]
  /\ pf \in [Threads -> Frames \cup {Null}]
  /\ wait \in [Threads -> Frames \cup {Null}]
  /\ fault \in {"none", "kassert", "null", "wild"}

\* A page is in one frame at most, although pframe_get sleeps while it fills it,
\* and a frame in use is on alloc_list, once, or on pinned_list, as its pin count
\* says.
FramesListed ==
  /\ \A f, g \in InUse : pf_page[f] = pf_page[g] => f = g
  /\ IsInjective(alloc_list)
  /\ \A f \in Frames :
       /\ f \in Range(alloc_list) <=> (f \in InUse /\ pf_pincount[f] = 0)
       /\ f \in pinned_list <=> (f \in InUse /\ pf_pincount[f] > 0)

\* A busy page is being filled, dirtied or cleaned by exactly one thread, and a
\* page that a thread works on stays busy and resident until it is done.
BusyOwned ==
  /\ busy \subseteq InUse
  /\ busy = {f \in Frames : \E t \in Threads : WorksOn(t, f)}
  /\ \A f \in Frames, t, u \in Threads : WorksOn(t, f) /\ WorksOn(u, f) => t = u

\* A process's page table refers to the frame that has the page, which is filled,
\* and allows writing only while the page is dirty: pframe_clean's "make sure a
\* future write to the page will fault".
MappedIsResident ==
  fault = "none" =>
    \A t \in Clients, p \in Pages :
      LET m == pt[t][p]
      IN  /\ m.frame # Null => pf_page[m.frame] = p /\ ~Filling(m.frame)
          /\ m.write => m.frame \in dirty

\* No write is lost: a page's frame, or the disk while it has none, contains what
\* was last written to it, whatever is cleaned, reclaimed, read again or fails;
\* and after shutdown the disk does.
CacheCoherent ==
  \A p \in Pages :
    LET filled == {f \in Resident(p) : ~Filling(f)}
    IN  IF filled = {} THEN disk[p] = written[p]
        ELSE \A f \in filled : contents[f] = written[p]

\* The KASSERTs of pframe_dirty, pframe_clean, pframe_free and pframe_shutdown.
NoKassert == fault # "kassert"

\* pframe_get_resident's comment: it "may return a busy page.  The caller must
\* check this case and deal with it appropriately".
CopiesFilled ==
  [][\A t \in Clients, p \in Pages :
       shadow_fillpage(t, p) => \A f \in Resident(p) : ~Filling(f)]_vars

\* A thread that sleeps on a busy page is woken, also when the operation it waits
\* for fails and the page is freed, unless the kernel has stopped.
WaiterWoken == \A t \in Threads : wait[t] # Null ~> wait[t] = Null \/ fault # "none"

\* pframe_shutdown ends, although pframe_clean_all starts over whenever it has
\* slept and cleaning may fail.
ShutdownCompletes == pc[Idle] = "reap" ~> pc[Idle] = "gone"
============================================================================
