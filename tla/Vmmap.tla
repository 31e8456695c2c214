------------------------------- MODULE Vmmap -------------------------------
(***************************************************************************)
(* The address space of one process: vmmap.c, brk.c, mmap.c, pagefault.c   *)
(* of kernel/vm and the range checks of kernel/api/access.c.               *)
(*                                                                         *)
(* Pages are numbers, addresses are numbers of bytes.  A vmarea is a       *)
(* record; its object is a file's or anonymous memory made for it (with or *)
(* without a shadow object; private mappings of files are left out), and   *)
(* refs counts the areas that refer to an object.  An area is "linked" if  *)
(* it is on the mmo_vmas list that pframe_remove_from_pts walks.  The page *)
(* table maps a page to an object's page.  A system call is one step: the  *)
(* areas belong to the thread that makes it.  Sums of an address and a     *)
(* length are below 2^32; p_brk, which only brk(NULL) reads, is left out.  *)
(***************************************************************************)
EXTENDS Integers, FiniteSets, Sequences, FiniteSetsExt

CONSTANTS
  USER_LOW, USER_HIGH,   \* the first user page, the first page after them
  PAGE_SIZE,
  Files, Anons,          \* the objects of files; slots for objects made here
  Bss,                   \* the object of the program's data
  Offsets,               \* the file offsets, in pages, that are mapped
  Prots,                 \* the protections that are asked for
  Touched,               \* the pages that are accessed
  p_start_brk,
  Null

ASSUME VmmapConstants ==
  /\ USER_LOW \in Nat \ {0} /\ USER_HIGH \in Nat /\ USER_LOW < USER_HIGH
  /\ PAGE_SIZE \in Nat \ {0}
  /\ Files \cap Anons = {} /\ Bss \in Anons /\ Null \notin Files \cup Anons
  /\ Null \notin ((Files \cup Anons) \X Nat) \cup ((Files \cup Anons) \X Nat \X SUBSET {"r", "w"})
  /\ Offsets \subseteq Nat
  /\ Touched \subseteq USER_LOW..(USER_HIGH - 1)
  /\ Prots \subseteq SUBSET {"r", "w"}
  /\ p_start_brk \in (USER_LOW * PAGE_SIZE + 1)..(USER_HIGH * PAGE_SIZE - 1)

VARIABLES
  vmm_list,   \* the areas in list order
  refs,       \* per object, its references from areas
  pt,         \* the page table: Null, or the object's page a page maps
  fault       \* "none", or why the kernel has stopped: a failed KASSERT, a
              \* NULL or a wild pointer

vars == <<vmm_list, refs, pt, fault>>

Pages == USER_LOW..(USER_HIGH - 1)
Objects == Files \cup Anons
Areas == [start : Pages, end : (USER_LOW + 1)..USER_HIGH, off : Nat, obj : Objects,
          prot : SUBSET {"r", "w"}, linked : BOOLEAN]
ADDR_TO_PN(addr) == addr \div PAGE_SIZE
PAGE_ALIGN_UP(addr) == ((addr + PAGE_SIZE - 1) \div PAGE_SIZE) * PAGE_SIZE

\* A process with no area left cannot make a system call.
Runs == fault = "none" /\ vmm_list # <<>>

(***************************************************************************)
(* Searching the list                                                      *)
(***************************************************************************)

Covers(a, vfn) == a.start <= vfn /\ vfn < a.end

\* The position of the first area that covers vfn, 0 for NULL.
vmmap_lookup(list, vfn) ==
  LET found == {i \in DOMAIN list : Covers(list[i], vfn)}
  IN  IF found = {} THEN 0 ELSE Min(found)

vmmap_is_range_empty(list, lo, n) ==
  \A i \in DOMAIN list : ~(list[i].start < lo + n /\ list[i].end > lo)

\* A variant for which a gap must be larger than asked for.
Fits_Strict(list, i, n) ==
  LET top == IF i = Len(list) THEN USER_HIGH ELSE list[i + 1].start
      bottom == IF i = 0 THEN USER_LOW ELSE list[i].end
  IN  top - bottom > n

\* n pages fit above area i and below the next; area 0 stands for USER_LOW.
Fits(list, i, n) ==
  LET top == IF i = Len(list) THEN USER_HIGH ELSE list[i + 1].start
      bottom == IF i = 0 THEN USER_LOW ELSE list[i].end
  IN  top - bottom >= n

\* The highest gap that is large enough, from the last area down.
vmmap_find_range(list, n) ==
  LET gaps == {i \in 0..Len(list) : Fits(list, i, n)}
      i == Max(gaps)
  IN  IF gaps = {} THEN -1
      ELSE (IF i = Len(list) THEN USER_HIGH ELSE list[i + 1].start) - n

(***************************************************************************)
(* Changing the list                                                       *)
(***************************************************************************)

\* Before the first area that starts at or after the new one's end.
vmmap_insert(list, a) ==
  LET behind == {i \in DOMAIN list : list[i].start >= a.end}
      k == IF behind = {} THEN Len(list) + 1 ELSE Min(behind)
  IN  [i \in 1..(Len(list) + 1) |->
         IF i < k THEN list[i] ELSE IF i = k THEN a ELSE list[i - 1]]

\* A variant of moving an area's beginning: vma_off stays.
MoveStart_OffStays(a, hi) == [a EXCEPT !.start = hi]

MoveStart(a, hi) == [a EXCEPT !.start = hi, !.off = @ + hi - a.start]

\* What the four cases of vmmap_remove leave of an area.  In case 1 the upper
\* part is a new area, which vmmap_insert puts right behind the lower one; it
\* is not linked into mmo_vmas.
Rest(a, lo, hi) ==
  CASE a.start < lo /\ a.end > hi ->
         <<[a EXCEPT !.end = lo],
           [MoveStart(a, hi) EXCEPT !.linked = FALSE]>>
    [] a.start < lo /\ lo < a.end /\ a.end <= hi -> <<[a EXCEPT !.end = lo]>>
    [] lo <= a.start /\ a.start < hi /\ hi < a.end -> <<MoveStart(a, hi)>>
    [] lo <= a.start /\ a.end <= hi -> <<>>
    [] OTHER -> <<a>>

\* The loop over the areas: done[i] is the list up to what is left of area i.
vmmap_remove(list, lo, n) ==
  LET done[i \in 0..Len(list)] ==
        IF i = 0 THEN <<>> ELSE done[i - 1] \o Rest(list[i], lo, lo + n)
  IN  done[Len(list)]

\* A variant that keeps the last page in the page table.
pt_unmap_range_Short(lo, n) ==
  [p \in Pages |-> IF lo <= p /\ p < lo + n - 1 THEN Null ELSE pt[p]]

\* A split takes a reference for its upper half, a removed area drops its own.
RefsAfterRemove(list, lo, n) ==
  LET pieces == [i \in DOMAIN list |-> Len(Rest(list[i], lo, lo + n))]
      some(o, k) == Cardinality({i \in DOMAIN list : list[i].obj = o /\ pieces[i] = k})
  IN  [o \in Objects |-> refs[o] + some(o, 2) - some(o, 0)]

pt_unmap_range(lo, n) ==
  [p \in Pages |-> IF lo <= p /\ p < lo + n THEN Null ELSE pt[p]]

(***************************************************************************)
(* System calls                                                            *)
(***************************************************************************)

\* vmmap_map at lo, 0 for anywhere, for the object o: a file's, or a new one.
\* No room is an error; what is in the way of a given range is removed.
vmmap_map(lo, n, o, off, prot) ==
  LET at == IF lo = 0 THEN vmmap_find_range(vmm_list, n) ELSE lo
      clear == lo # 0 /\ ~vmmap_is_range_empty(vmm_list, lo, n)
      kept == IF clear THEN vmmap_remove(vmm_list, lo, n) ELSE vmm_list
      left == IF clear THEN RefsAfterRemove(vmm_list, lo, n) ELSE refs
      area == [start |-> at, end |-> at + n, off |-> off, obj |-> o,
               prot |-> prot, linked |-> TRUE]
  IN  /\ at # -1
      /\ vmm_list' = vmmap_insert(kept, area)
      /\ refs' = [left EXCEPT ![o] = @ + 1]
      /\ pt' = IF clear THEN pt_unmap_range(lo, n) ELSE pt

\* do_mmap of a file (shared), or of anonymous memory or a bad fd ("new").  A new
\* object is one of Anons that no area uses, other than the one made by execve.
\* The results of the argument checks are not looked at: a length of 0 fails
\* vmmap_map's KASSERT, a bad fd maps anonymous memory, and when there is no
\* room for a file the uninitialized "new" is dereferenced.
do_mmap(lo, n, what, off, prot) ==
  /\ Runs
  /\ \/ /\ n = 0
        /\ fault' = "kassert"
        /\ UNCHANGED <<vmm_list, refs, pt>>
     \/ /\ n > 0
        /\ \E o \in IF what \in Files THEN {what} ELSE {a \in Anons \ {Bss} : refs[a] = 0} :
             vmmap_map(lo, n, o, off, prot)
        /\ UNCHANGED fault
     \/ /\ n > 0 /\ lo = 0 /\ what \in Files
        /\ vmmap_find_range(vmm_list, n) = -1
        /\ fault' \in {"none", "wild"}
        /\ UNCHANGED <<vmm_list, refs, pt>>

do_munmap(lo, n) ==
  /\ Runs
  /\ vmm_list' = vmmap_remove(vmm_list, lo, n)
  /\ refs' = RefsAfterRemove(vmm_list, lo, n)
  /\ pt' = pt_unmap_range(lo, n)
  /\ UNCHANGED fault

\* A variant that does not look at what is in the way.
expand_brk_Unchecked(i, cur_end) ==
  vmm_list' = [vmm_list EXCEPT ![i].end = cur_end]

expand_brk(i, cur_end) ==
  /\ vmmap_is_range_empty(vmm_list, vmm_list[i].end, cur_end - vmm_list[i].end)
  /\ vmm_list' = [vmm_list EXCEPT ![i].end = cur_end]

\* addr is valid; errors change nothing.  The area of p_start_brk is used
\* without a test for NULL.
do_brk(addr) ==
  LET i == vmmap_lookup(vmm_list, ADDR_TO_PN(p_start_brk))
      cur_end == ADDR_TO_PN(PAGE_ALIGN_UP(addr))
      prev_end == vmm_list[i].end
  IN  /\ Runs
      /\ p_start_brk <= addr /\ addr <= USER_HIGH * PAGE_SIZE
      /\ \/ /\ i = 0
            /\ fault' = "null"
            /\ UNCHANGED <<vmm_list, refs, pt>>
         \/ /\ i # 0
            /\ \/ /\ prev_end < cur_end
                  /\ expand_brk(i, cur_end)
                  /\ UNCHANGED <<refs, pt>>
               \/ /\ prev_end > cur_end
                  /\ vmm_list' = vmmap_remove(vmm_list, cur_end, prev_end - cur_end)
                  /\ refs' = RefsAfterRemove(vmm_list, cur_end, prev_end - cur_end)
                  /\ pt' = pt_unmap_range(cur_end, prev_end - cur_end)
               \/ /\ prev_end = cur_end
                  /\ UNCHANGED <<vmm_list, refs, pt>>
            /\ UNCHANGED fault

\* The page of a's object that vfn is.
ObjPage(a, vfn) == <<a.obj, vfn - a.start + a.off>>

\* Exit: put every area's object.  The areas themselves are not freed.
vmmap_destroy ==
  /\ refs' = [o \in Objects |->
                refs[o] - Cardinality({i \in DOMAIN vmm_list : vmm_list[i].obj = o})]
  /\ vmm_list' = <<>>
  /\ UNCHANGED <<pt, fault>>

do_exit == Runs /\ vmmap_destroy

\* An access to vfn faults: the page is looked up and mapped; without an area,
\* the permission or the page the process exits.
handle_pagefault(vfn, perm) ==
  LET i == vmmap_lookup(vmm_list, vfn)
  IN  /\ Runs
      /\ \/ vmmap_destroy
         \/ /\ i # 0
            /\ perm \in vmm_list[i].prot
            /\ pt' = [pt EXCEPT ![vfn] = ObjPage(vmm_list[i], vfn)]
            /\ UNCHANGED <<vmm_list, refs, fault>>

\* A variant that forgets where in the object an area starts.
MappedAt_NoOff(o, k) ==
  {a.start + k : a \in {x \in Range(vmm_list) : x.linked /\ x.obj = o /\ k < x.end - x.start}}

\* Where pframe_remove_from_pts finds page k of o: in the areas that are on the
\* object's list and whose part of the object has the page.
MappedAt(o, k) ==
  {a.start + k - a.off :
     a \in {x \in Range(vmm_list) :
              x.linked /\ x.obj = o /\ x.off <= k /\ k < x.off + x.end - x.start}}

\* A page of o is freed, and unmapped first.
pframe_remove_from_pts(o, k) ==
  /\ fault = "none"
  /\ pt' = [p \in Pages |-> IF p \in MappedAt(o, k) THEN Null ELSE pt[p]]
  /\ UNCHANGED <<vmm_list, refs, fault>>

\* The process has exited or the kernel has stopped.
Stopped == ~Runs /\ UNCHANGED vars

Init ==
  /\ vmm_list = <<[start |-> USER_LOW, end |-> ADDR_TO_PN(PAGE_ALIGN_UP(p_start_brk)),
                   off |-> 0, obj |-> Bss, prot |-> {"r", "w"}, linked |-> TRUE]>>
  /\ refs = [o \in Objects |-> IF o = Bss THEN 1 ELSE 0]
  /\ pt = [p \in Pages |-> Null]
  /\ fault = "none"

Room(lo) == USER_HIGH - (IF lo = 0 THEN USER_LOW ELSE lo)
Requests == Files \cup {"new"}

Next ==
  \/ \E lo \in Pages \cup {0} : \E n \in 0..Room(lo) :
       \E what \in Requests, off \in Offsets, prot \in Prots :
         do_mmap(lo, n, what, off, prot)
  \/ \E lo \in Pages : \E n \in 0..Room(lo) : do_munmap(lo, n)
  \/ \E addr \in p_start_brk..(USER_HIGH * PAGE_SIZE) : do_brk(addr)
  \/ \E vfn \in Touched, perm \in {"r", "w"} : handle_pagefault(vfn, perm)
  \/ \E p \in Pages : pt[p] # Null /\ pframe_remove_from_pts(pt[p][1], pt[p][2])
  \/ do_exit
  \/ Stopped

Spec == Init /\ [][Next]_vars

(***************************************************************************)
(* Copying to and from the user, and its range checks                      *)
(***************************************************************************)

addr_perm(vaddr, perm) ==
  LET i == vmmap_lookup(vmm_list, ADDR_TO_PN(vaddr))
  IN  i # 0 /\ perm \in vmm_list[i].prot

\* A variant that looks at the first page only.
range_perm_First(avaddr, len, perm) == addr_perm(avaddr, perm)

\* Every page from the first byte's to that of the byte after the last.
range_perm(avaddr, len, perm) ==
  \A pn \in ADDR_TO_PN(avaddr)..ADDR_TO_PN(avaddr + len) :
    addr_perm(pn * PAGE_SIZE, perm)

\* The loop of vmmap_read and vmmap_write: which byte of which page is copied
\* to or from which byte of the buffer.
vmmap_copy(vaddr, count) ==
  LET copied[d \in 0..count] ==
        LET cur == vaddr + d
            piece == Min({count - d, PAGE_SIZE - (cur % PAGE_SIZE)})
        IN  IF d = count THEN {}
            ELSE {<<d + b, ADDR_TO_PN(cur), (cur % PAGE_SIZE) + b>> : b \in 0..(piece - 1)}
                 \cup copied[d + piece]
  IN  copied[0]

(***************************************************************************)
(* Properties                                                              *)
(***************************************************************************)

PageOf(vfn) ==
  LET i == vmmap_lookup(vmm_list, vfn)
  IN  IF i = 0 THEN Null ELSE ObjPage(vmm_list[i], vfn)

\* Every variable has its type.
TypeOK ==
  /\ vmm_list \in Seq(Areas)
  /\ refs \in [Objects -> Nat]
  /\ pt \in [Pages -> (Objects \X Nat) \cup {Null}]
  /\ fault \in {"none", "kassert", "null", "wild"}

\* A list of areas that are non-empty, disjoint and in order.
Sorted(list) ==
  /\ \A i \in DOMAIN list : list[i].start < list[i].end
  /\ \A i, j \in DOMAIN list : i < j => list[i].end <= list[j].start

\* The areas are non-empty, disjoint and in order, whatever was mapped over,
\* unmapped or grown: vmmap_insert, vmmap_find_range and vmmap_lookup rely on it.
AreasSorted == Sorted(vmm_list)

\* While the process runs, the page table maps a page to what its area says it
\* is: no translation outlives the mapping it was made from.
PtFresh ==
  Runs => \A p \in Pages : pt[p] # Null => pt[p] = PageOf(p)

\* vmmap_find_range finds the highest free range of n pages, or there is none.
FindRangeHighest ==
  Runs => \A n \in 1..(USER_HIGH - USER_LOW) :
    LET free == {lo \in USER_LOW..(USER_HIGH - n) :
                   \A p \in lo..(lo + n - 1) : PageOf(p) = Null}
    IN  vmmap_find_range(vmm_list, n) = IF free = {} THEN -1 ELSE Max(free)

\* A range that passes range_perm is copied byte for byte, from pages that are
\* all mapped with the permission: vmmap_read and vmmap_write, which do not test
\* for NULL, never meet an unmapped page.
CopySafe ==
  \A vaddr \in 0..(USER_HIGH * PAGE_SIZE), len \in 1..(2 * PAGE_SIZE), perm \in {"r", "w"} :
    range_perm(vaddr, len, perm) =>
      /\ \A c \in vmmap_copy(vaddr, len) : addr_perm(c[2] * PAGE_SIZE, perm)
      /\ vmmap_copy(vaddr, len) =
           {<<b, ADDR_TO_PN(vaddr + b), (vaddr + b) % PAGE_SIZE>> : b \in 0..(len - 1)}

\* The areas implement the address space they describe: every system call does
\* to each page what AddrSpace says, and to no other, and nothing else changes
\* any page (page faults and page-outs do not).
PageMapping ==
  [p \in USER_LOW..(USER_HIGH - 1) |->
     LET i == vmmap_lookup(vmm_list, p)
         page == ObjPage(vmm_list[i], p)
     IN  IF i = 0 THEN Null ELSE <<page[1], page[2], vmm_list[i].prot>>]
Abstract == INSTANCE AddrSpace WITH LOW <- USER_LOW, HIGH <- USER_HIGH, pages <- PageMapping
ImplementsAddrSpace == Abstract!Spec

\* pframe_remove_from_pts's comment: a page that is freed is removed "from the
\* page tables of all processes that map it".  Every translation is where that
\* function would look for it, whatever was mapped and unmapped since the page
\* fault that made it, save in the upper area that vmmap_remove splits off: it is
\* on no object's list.
FreedUnmapped ==
  Runs => \A p \in Pages :
    LET i == vmmap_lookup(vmm_list, p)
    IN  pt[p] # Null /\ i # 0 /\ vmm_list[i].linked => p \in MappedAt(pt[p][1], pt[p][2])
=============================================================================
