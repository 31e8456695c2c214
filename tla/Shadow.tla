------------------------------- MODULE Shadow -------------------------------
(***************************************************************************)
(* Copy-on-write memory: anonymous and shadow objects (anon.c and shadow.c *)
(* of kernel/vm), the areas that refer to them (vmmap.c), do_fork, page    *)
(* faults, and the copies that the kernel makes to and from user memory.   *)
(*                                                                         *)
(* The modelled pages are a part of the address space; page number p of an *)
(* area is page p of its object.  Pages of anonymous and shadow objects    *)
(* are pinned, so they stay until their object is freed; the pages of the  *)
(* one file are always resident (their reclaiming is in modules Pframe and *)
(* Vmmap).  A system call or a fault is one step: what it works on belongs *)
(* to the calling process or is left alone by the others, and no caller    *)
(* keeps a page across a sleep.  The number of objects is bounded.         *)
(***************************************************************************)
EXTENDS Integers, FiniteSets, SequencesExt

CONSTANTS
  Procs, FirstProc,
  NPages,            \* the pages are 1..NPages
  Slots,             \* the anonymous and shadow objects there may be at a time
  File, Content,     \* the object of the file, and what its pages hold
  Values, Zero,      \* what a page may hold
  Stored,            \* the values that are stored
  MapRanges, UnmapRanges, Touched,   \* the pages that are mapped, unmapped, accessed
  Kinds,             \* the mappings that are made: <<file or anon, shared or private>>
  Null

ASSUME ShadowConstants ==
  /\ FirstProc \in Procs /\ NPages \in Nat \ {0}
  /\ IsFiniteSet(Slots) /\ File \notin Slots /\ Null \notin Slots \cup {File}
  /\ {Zero, Content} \subseteq Values /\ Null \notin Values /\ Stored \subseteq Values
  /\ Touched \subseteq 1..NPages
  /\ \A r \in MapRanges \cup UnmapRanges :
       r[1] \in 1..NPages /\ r[2] \in r[1]..NPages
  /\ Kinds \subseteq {"file", "anon"} \X {"shared", "private"}

VARIABLES
  alive,      \* the processes that run
  areas,      \* per process, its vmareas
  objs,       \* the memory objects that are allocated
  pt          \* per process and page: Null, or the object whose page it
              \* translates to and whether it may be written

vars == <<alive, areas, objs, pt>>

Pages == 1..NPages
NObjects == Cardinality(Slots)
NoPages == [p \in Pages |-> Null]

(***************************************************************************)
(* Memory objects                                                          *)
(***************************************************************************)

\* The file's object is there as long as its vnode is, which holds a reference.
FileObject == [kind |-> "file", refs |-> 1, shadowed |-> Null, bottom |-> Null,
               pages |-> [p \in Pages |-> Content]]

anon_create == [kind |-> "anon", refs |-> 1, shadowed |-> Null, bottom |-> Null,
                pages |-> NoPages]

mmobj_bottom_obj(obj, o) == IF obj[o].kind = "shadow" THEN obj[o].bottom ELSE o

\* A shadow of o; the caller sees to the references.
shadow_create(obj, o) ==
  [kind |-> "shadow", refs |-> 1, shadowed |-> o, bottom |-> mmobj_bottom_obj(obj, o),
   pages |-> NoPages]

\* mmo_nrespages
Resident(r) == Cardinality({p \in Pages : r.pages[p] # Null})

ref(obj, o) == [obj EXCEPT ![o].refs = @ + 1]

FreeSlots(obj) == {o \in Slots : obj[o] = Null}
NewSlot(obj) == CHOOSE o \in FreeSlots(obj) : TRUE

\* pframe_remove_from_pts for every page of o: whatever the processes with an
\* area on the list of the bottom object have mapped there is unmapped.
RemovedFromPts(st, o) ==
  [q \in Procs |-> [p \in Pages |->
     IF /\ st.objs[o].pages[p] # Null
        /\ \E a \in st.areas[q] :
             /\ p \in a.lo..a.hi /\ a.linked
             /\ mmobj_bottom_obj(objs, a.obj) = mmobj_bottom_obj(objs, o)
     THEN Null ELSE st.pt[q][p]]]

\* A variant for which an object with resident pages stays.
LastRef_NoPages(r) == r.refs = 1

\* Only the references of its resident pages would be left.
LastRef(r) == r.refs - 1 = Resident(r)

\* The objects that a freed object puts, in order.
Below(r) == IF r.kind = "shadow" THEN <<r.shadowed, r.bottom>> ELSE <<>>

\* The first of the pending puts: shadow_put and anon_put free the object and
\* its pages when only they refer to it, and a shadow then puts the objects
\* below it.  The file's object is kept by its vnode.  (A put of an object that
\* is gone, which RefsExact excludes, does nothing.)
put(st) ==
  LET o == Head(st.todo)
      r == st.objs[o]
      others == Tail(st.todo)
  IN  IF r = Null THEN [st EXCEPT !.todo = others]
      ELSE IF r.kind # "file" /\ LastRef(r)
      THEN [st EXCEPT !.objs[o] = Null, !.pt = RemovedFromPts(st, o),
                      !.todo = Below(r) \o others]
      ELSE [st EXCEPT !.objs[o].refs = @ - 1, !.todo = others]

\* All pending puts: each of them puts an area's object or frees an object.
PutAll(st) ==
  LET after[n \in 0..(Len(st.todo) + 2 * NObjects)] ==
        IF n = 0 THEN st
        ELSE LET s == after[n - 1] IN IF s.todo = <<>> THEN s ELSE put(s)
  IN  after[Len(st.todo) + 2 * NObjects]

(***************************************************************************)
(* Finding pages                                                           *)
(***************************************************************************)

\* The objects from o down to its bottom object.
Chain(obj, o) ==
  LET down[x \in Slots \cup {File}] ==
        {x} \cup IF obj[x].kind = "shadow" THEN down[obj[x].shadowed] ELSE {}
  IN  down[o]

\* The first of them that has page p, the bottom object if none has.
Holder(obj, o, p) ==
  LET first[x \in Slots \cup {File}] ==
        IF obj[x].pages[p] # Null \/ obj[x].kind # "shadow" THEN x
        ELSE first[obj[x].shadowed]
  IN  first[o]

\* A variant that looks at the object and at the bottom only.
HolderRead_Short(obj, o, p) ==
  IF obj[o].pages[p] # Null THEN o ELSE mmobj_bottom_obj(obj, o)

HolderRead(obj, o, p) == Holder(obj, o, p)

\* pframe_get of a page that is not resident: it takes a reference.
NewPage(obj, o, p, v) ==
  IF obj[o].pages[p] # Null THEN obj
  ELSE [obj EXCEPT ![o].pages[p] = v, ![o].refs = @ + 1]

\* anon_fillpage: zeroes.
anon_lookuppage(obj, o, p) == NewPage(obj, o, p, Zero)

\* A variant of shadow_fillpage that copies from the bottom object only.
shadow_fillpage_Bottom(obj, o, p) ==
  LET b == mmobj_bottom_obj(obj, o)
  IN  NewPage(anon_lookuppage(obj, b, p), o, p, anon_lookuppage(obj, b, p)[b].pages[p])

\* The page is copied from the first object below that has it; the bottom
\* object is asked for it if none has.
shadow_fillpage(obj, o, p) ==
  LET from == Holder(obj, o, p)
      found == anon_lookuppage(obj, from, p)
  IN  NewPage(found, o, p, found[from].pages[p])

\* lookuppage: the objects after it, and the object that holds the page.
lookuppage(obj, o, p, forwrite) ==
  IF obj[o].kind # "shadow" THEN <<anon_lookuppage(obj, o, p), o>>
  ELSE IF forwrite
       THEN <<IF obj[o].pages[p] # Null THEN obj ELSE shadow_fillpage(obj, o, p), o>>
       ELSE <<anon_lookuppage(obj, HolderRead(obj, o, p), p), HolderRead(obj, o, p)>>

(***************************************************************************)
(* Areas                                                                   *)
(***************************************************************************)

State == [objs |-> objs, areas |-> areas, pt |-> pt, todo |-> <<>>]

AreaOf(q, p) == CHOOSE a \in areas[q] : p \in a.lo..a.hi
Mapped(q, p) == \E a \in areas[q] : p \in a.lo..a.hi

InOrder(as) == SetToSortSeq(as, LAMBDA a, b : a.lo < b.lo)

\* What vmmap_remove leaves of an area; the upper part of a split one is a new
\* area, which is not on the object's list.
Rest(a, lo, hi) ==
  (IF a.lo < lo THEN {[a EXCEPT !.hi = IF @ < lo THEN @ ELSE lo - 1]} ELSE {})
  \cup
  (IF a.hi > hi THEN {[a EXCEPT !.lo = IF @ > hi THEN @ ELSE hi + 1,
                                !.linked = @ /\ ~(a.lo < lo /\ a.hi > hi)]} ELSE {})

\* A variant whose split takes no reference.
Split_NoRef(a, lo, hi) == FALSE

Split(a, lo, hi) == a.lo < lo /\ a.hi > hi

\* A variant that leaves the last page of the range.
pt_unmap_range_Short(t, lo, hi) == [p \in Pages |-> IF p \in lo..(hi - 1) THEN Null ELSE t[p]]

pt_unmap_range(t, lo, hi) == [p \in Pages |-> IF p \in lo..hi THEN Null ELSE t[p]]

\* vmmap_remove: a split takes a reference, an area that goes puts its object,
\* and the range is unmapped.
vmmap_remove(st, q, lo, hi) ==
  LET split == SetToSeq({a \in st.areas[q] : Split(a, lo, hi)})
      gone == InOrder({a \in st.areas[q] : Rest(a, lo, hi) = {}})
      refd == FoldLeft(LAMBDA obj, a : ref(obj, a.obj), st.objs, split)
      after == PutAll([st EXCEPT !.objs = refd, !.todo = [i \in DOMAIN gone |-> gone[i].obj]])
  IN  [after EXCEPT
         !.areas[q] = UNION {Rest(a, lo, hi) : a \in st.areas[q]},
         !.pt[q] = pt_unmap_range(@, lo, hi)]

\* A shadow refers to its bottom object too.
BottomRef(obj, o) == ref(obj, mmobj_bottom_obj(obj, o))

Becomes(st) ==
  /\ objs' = st.objs
  /\ areas' = st.areas
  /\ pt' = st.pt

(***************************************************************************)
(* System calls                                                            *)
(***************************************************************************)

\* vmmap_map: what is in the way is removed; the reference that the new object
\* or the file's mmap operation gives belongs to the area, or to its shadow.
do_mmap(q, lo, hi, kind) ==
  LET file == kind[1] = "file"
      shared == kind[2] = "shared"
      st == vmmap_remove(State, q, lo, hi)
      o == IF file THEN File ELSE NewSlot(st.objs)
      got == IF file THEN ref(st.objs, File) ELSE [st.objs EXCEPT ![o] = anon_create]
      s == NewSlot(got)
      area == [lo |-> lo, hi |-> hi, obj |-> IF shared THEN o ELSE s,
               shared |-> shared, linked |-> TRUE]
  IN  /\ q \in alive
      /\ Cardinality(FreeSlots(st.objs)) >= (IF file THEN 0 ELSE 1) + (IF shared THEN 0 ELSE 1)
      /\ Becomes([st EXCEPT
           !.objs = IF shared THEN got
                    ELSE BottomRef([got EXCEPT ![s] = shadow_create(got, o)], o),
           !.areas[q] = @ \cup {area}])
      /\ UNCHANGED alive

do_munmap(q, lo, hi) ==
  /\ q \in alive
  /\ Becomes(vmmap_remove(State, q, lo, hi))
  /\ UNCHANGED alive

\* One area at fork: a shared one refers to the same object, a private one's
\* object is shadowed twice.  The parent's reference goes to its new shadow.
handle_memory_object(st, a, q, child) ==
  IF a.shared
  THEN [st EXCEPT !.objs = ref(st.objs, a.obj),
                  !.areas[child] = @ \cup {[a EXCEPT !.linked = TRUE]}]
  ELSE LET parentSO == NewSlot(st.objs)
           obj1 == [st.objs EXCEPT ![parentSO] = shadow_create(st.objs, a.obj)]
           childSO == NewSlot(obj1)
           obj2 == [obj1 EXCEPT ![childSO] = shadow_create(obj1, a.obj)]
       IN  [st EXCEPT
              !.objs = BottomRef(BottomRef(ref(obj2, a.obj), a.obj), a.obj),
              !.areas[child] = @ \cup {[a EXCEPT !.obj = childSO, !.linked = TRUE]},
              !.areas[q] = (@ \ {a}) \cup {[a EXCEPT !.obj = parentSO]}]

\* fork.c:149: the parent's user range is unmapped.
ParentPt(q) == pt_unmap_range(pt[q], 1, NPages)

do_fork(q, child) ==
  LET private == {a \in areas[q] : ~a.shared}
      st == FoldLeft(LAMBDA s, a : handle_memory_object(s, a, q, child),
                     State, InOrder(areas[q]))
  IN  /\ q \in alive /\ child \notin alive
      /\ Cardinality(FreeSlots(objs)) >= 2 * Cardinality(private)
      /\ Becomes([st EXCEPT !.pt[q] = ParentPt(q)])
      /\ alive' = alive \cup {child}

\* vmmap_destroy puts the areas' objects in order; the page table goes with the
\* process, which does not run any more.
do_exit(q) ==
  LET as == InOrder(areas[q])
      st == PutAll([State EXCEPT !.todo = [i \in DOMAIN as |-> as[i].obj]])
  IN  /\ q \in alive
      /\ Becomes([st EXCEPT !.areas[q] = {}, !.pt[q] = NoPages])
      /\ alive' = alive \ {q}

(***************************************************************************)
(* Accesses                                                                *)
(***************************************************************************)

\* An access that the page table does not allow.  Every area is readable and
\* writable here; without an area the process exits.
handle_pagefault(q, p, forwrite) ==
  LET found == lookuppage(objs, AreaOf(q, p).obj, p, forwrite)
  IN  /\ q \in alive
      /\ pt[q][p] # Null => forwrite /\ ~pt[q][p].write
      /\ Mapped(q, p)
      /\ objs' = found[1]
      /\ pt' = [pt EXCEPT ![q][p] = [obj |-> found[2], write |-> forwrite]]
      /\ UNCHANGED <<alive, areas>>

\* A store of the process, through its page table.
UserStore(q, p, v) ==
  /\ q \in alive
  /\ pt[q][p] # Null
  /\ pt[q][p].write
  /\ objs' = [objs EXCEPT ![pt[q][p].obj].pages[p] = v]
  /\ UNCHANGED <<alive, areas, pt>>

\* copy_from_user: the page is looked up, not mapped.
vmmap_read(q, p) ==
  /\ q \in alive /\ Mapped(q, p)
  /\ objs' = lookuppage(objs, AreaOf(q, p).obj, p, FALSE)[1]
  /\ UNCHANGED <<alive, areas, pt>>

\* copy_to_user: the page is looked up for writing and written; the page table
\* is left as it is.
vmmap_write(q, p, v) ==
  LET found == lookuppage(objs, AreaOf(q, p).obj, p, TRUE)
  IN  /\ q \in alive /\ Mapped(q, p)
      /\ objs' = [found[1] EXCEPT ![found[2]].pages[p] = v]
      /\ UNCHANGED <<alive, areas, pt>>

Init ==
  /\ alive = {FirstProc}
  /\ areas = [q \in Procs |-> {}]
  /\ objs = [o \in Slots \cup {File} |-> IF o = File THEN FileObject ELSE Null]
  /\ pt = [q \in Procs |-> NoPages]

Next ==
  \E q \in Procs :
    \/ \E r \in MapRanges, kind \in Kinds : do_mmap(q, r[1], r[2], kind)
    \/ \E r \in UnmapRanges : do_munmap(q, r[1], r[2])
    \/ \E child \in Procs : do_fork(q, child)
    \/ do_exit(q)
    \/ \E p \in Touched :
         \/ \E forwrite \in BOOLEAN : handle_pagefault(q, p, forwrite)
         \/ vmmap_read(q, p)
         \/ \E v \in Stored : UserStore(q, p, v) \/ vmmap_write(q, p, v)

Spec == Init /\ [][Next]_vars

(***************************************************************************)
(* Properties                                                              *)
(***************************************************************************)

Allocated == {o \in Slots \cup {File} : objs[o] # Null}
Shadows == {o \in Allocated : objs[o].kind = "shadow"}
AllAreas == {<<q, a>> : q \in Procs, a \in UNION {areas[r] : r \in Procs}}
UsersOf(o) == {x \in AllAreas : x[2] \in areas[x[1]] /\ x[2].obj = o}

\* Every variable has its type.
TypeOK ==
  /\ alive \subseteq Procs
  /\ areas \in [Procs -> SUBSET [lo : Pages, hi : Pages, obj : Slots \cup {File},
                                 shared : BOOLEAN, linked : BOOLEAN]]
  /\ \A o \in Allocated : objs[o] \in
       [kind : {"file", "anon", "shadow"}, refs : Nat \ {0},
        shadowed : Slots \cup {File, Null}, bottom : Slots \cup {File, Null},
        pages : [Pages -> Values \cup {Null}]]
  /\ pt \in [Procs -> [Pages -> {Null} \cup [obj : Slots \cup {File}, write : BOOLEAN]]]

\* An object's count is what refers to it: areas, shadows right above it, all
\* shadows of which it is the bottom, and its resident pages (for the file, its
\* vnode in their stead).  anon_put and shadow_put free an object by this count.
RefsExact ==
  \A o \in Allocated :
    objs[o].refs =
      Cardinality(UsersOf(o)) + Cardinality({s \in Shadows : objs[s].shadowed = o})
      + Cardinality({s \in Shadows : objs[s].bottom = o})
      + IF o = File THEN 1 ELSE Resident(objs[o])

\* No object is kept that no process can reach: the last put of a chain frees
\* all of it, its pages included.
NothingLeaks ==
  \A o \in Allocated \ {File} :
    \E q \in alive : \E a \in areas[q] : o \in Chain(objs, a.obj)

\* What a process may read without a fault belongs to the chain of its area:
\* never another process's private page, never what was mapped there before.
LoadsAreOwn ==
  \A q \in alive, p \in Pages : pt[q][p] # Null =>
    Mapped(q, p) /\ pt[q][p].obj \in Chain(objs, AreaOf(q, p).obj)

\* A fault maps what the memory of the process is at that time, however long the
\* chain and wherever in it the page is: the first object of the chain that has
\* the page (shadow_lookuppage).
FaultsMapCurrent ==
  [][\A q \in alive, p \in Pages :
       pt'[q][p] \notin {pt[q][p], Null} =>
         pt'[q][p].obj = Holder(objs', AreaOf(q, p).obj, p)]_vars

\* Chains, page tables and reference counts implement the memory of CowMem:
\* every process sees its own writes, those to shared mappings, and no others,
\* across any sequence of forks, unmappings and exits.
MemOf(q, p) ==
  IF ~Mapped(q, p) THEN Null
  ELSE LET a == AreaOf(q, p)
           h == Holder(objs, a.obj, p)
       IN  CASE a.shared -> <<"shared", a.obj>>
             [] ~a.shared /\ h = File -> <<"file">>
             [] OTHER -> <<"own", IF objs[h].pages[p] = Null THEN Zero ELSE objs[h].pages[p]>>
ContentsOf(o) ==
  [p \in Pages |-> IF objs[o] = Null \/ objs[o].kind = "shadow" \/ objs[o].pages[p] = Null
                   THEN Zero ELSE objs[o].pages[p]]
Abstract == INSTANCE CowMem WITH
  Things <- Slots \cup {File},
  mem <- [q \in Procs |-> [p \in Pages |-> MemOf(q, p)]],
  contents <- [o \in Slots \cup {File} |-> ContentsOf(o)]
ImplementsCowMem == Abstract!Spec
=============================================================================
