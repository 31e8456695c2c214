-------------------------- MODULE PframeStepProofs --------------------------
(***************************************************************************)
(* The inductive invariant PframeInv of Pframe, and the steps that get a   *)
(* page, wait for one, allocate, fill or free one, and mark one dirty or   *)
(* clean.                                                                  *)
(***************************************************************************)
EXTENDS Pframe, TLAPS

\* Where each kind of thread can be; processes are gone before pframe_shutdown.
PlacesOK ==
  /\ \A t \in Clients :
       pc[t] \in {"user", "get", "fill", "dirty", "sync", "clean", "exit", "gone"}
  /\ pc[Pageoutd] \in {"pageout", "pclean", "asleep", "gone"}
  /\ pc[Idle] \in {"wait", "reap", "sync", "clean", "gone"}
  /\ pc[Idle] # "wait" => \A t \in Clients : pc[t] = "gone"

\* A thread that waits for the disk has a page.
HoldsOK ==
  \A t \in Threads : pc[t] \in {"fill", "dirty", "clean", "pclean"} => pf[t] \in Frames

\* What a process has asked for, and the page it works on.
RequestsOK ==
  \A t \in Clients :
    /\ pc[t] \in {"get", "fill", "dirty"} => req[t].page \in Pages
    /\ pc[t] \in {"fill", "dirty"} => pf_page[pf[t]] = req[t].page
    /\ pc[t] = "fill" => pf_pincount[pf[t]] = 0 /\ pf[t] \notin dirty
    /\ pc[t] = "dirty" => req[t].op \in {"fault_w", "kwrite"}

\* t holds f pinned in handle_pagefault's pframe_dirty.
Pins(t, f) == pc[t] = "dirty" /\ req[t].op = "fault_w" /\ pf[t] = f

\* A page is pinned only there.
PinsOK ==
  \A f \in Frames :
    pf_pincount[f] = IF \E t \in Clients : Pins(t, f) THEN 1 ELSE 0

\* Page tables refer to the frames that have the pages, which are filled; those
\* of processes that are gone to none.
MapsOK ==
  \A t \in Clients, p \in Pages :
    LET m == pt[t][p]
    IN  /\ m.frame # Null => pf_page[m.frame] = p /\ ~Filling(m.frame)
        /\ pc[t] = "gone" => m = NoMap

\* A page that is not being filled has been.
FilledOK == \A f \in InUse : ~Filling(f) => contents[f] \in Values

PframeInv ==
  /\ TypeOK /\ PlacesOK /\ HoldsOK /\ RequestsOK /\ PinsOK /\ dirty \subseteq InUse
  /\ FramesListed /\ BusyOwned /\ MapsOK /\ FilledOK /\ NoKassert

\* While pframe_dirty does not fail, what is mapped for writing is dirty; a frame
\* whose page is filled has what was last written to it, and so has the disk
\* unless the page is dirty, being dirtied or being cleaned.
WritesFault ==
  \A t \in Clients, p \in Pages : pt[t][p].write => pt[t][p].frame \in dirty
FrameCurrent ==
  \A f \in InUse : ~Filling(f) => contents[f] = written[pf_page[f]]
DiskCurrent ==
  \A f \in InUse : Filling(f) \/ f \notin dirty \cup busy =>
    disk[pf_page[f]] = written[pf_page[f]]
AbsentCurrent ==
  \A p \in Pages : (\A f \in Frames : pf_page[f] # p) => disk[p] = written[p]
DataOK == WritesFault /\ FrameCurrent /\ DiskCurrent /\ AbsentCurrent

(***************************************************************************)
(* Lists                                                                   *)
(***************************************************************************)

\* list_remove takes out one page and keeps the others.
LEMMA RemoveList ==
  ASSUME NEW l \in Seq(Frames), IsInjective(l), NEW f \in Range(l)
  PROVE  /\ list_remove(l, f) \in Seq(Frames) /\ IsInjective(list_remove(l, f))
         /\ Range(list_remove(l, f)) = Range(l) \ {f}
<1> DEFINE k == CHOOSE i \in DOMAIN l : l[i] = f
           at(i) == IF i < k THEN i ELSE i + 1
           r == list_remove(l, f)
<1>1. Len(l) \in Nat /\ DOMAIN l = 1..Len(l) /\ \A i \in DOMAIN l : l[i] \in Frames
  OBVIOUS
<1>2. k \in DOMAIN l /\ l[k] = f
  BY Zenon DEF Range
<1>3. r = [i \in 1..(Len(l) - 1) |-> l[at(i)]]
  BY Zenon DEF list_remove
<1> HIDE DEF k, r
<1>4. \A i \in 1..(Len(l) - 1) : at(i) \in DOMAIN l /\ at(i) # k
  BY <1>1, <1>2
<1>5. r \in Seq(Frames) /\ DOMAIN r = 1..(Len(l) - 1)
  BY <1>1, <1>2, <1>3, <1>4
<1>6. IsInjective(r)
  <2> SUFFICES ASSUME NEW i \in DOMAIN r, NEW j \in DOMAIN r, r[i] = r[j]
               PROVE  i = j
    BY Zenon DEF IsInjective
  <2>1. at(i) = at(j)
    BY <1>3, <1>4, <1>5, Zenon DEF IsInjective
  <2> QED
    BY <1>1, <1>2, <1>5, <2>1
<1>7. ASSUME NEW g \in Range(r)
      PROVE  g \in Range(l) \ {f}
  <2>1. PICK i \in DOMAIN r : g = r[i]
    BY Zenon DEF Range
  <2>2. at(i) \in DOMAIN l /\ at(i) # k /\ g = l[at(i)]
    BY <1>3, <1>4, <1>5, <2>1, Zenon
  <2> QED
    BY <1>2, <2>2, Zenon DEF Range, IsInjective
<1>8. ASSUME NEW g \in Range(l) \ {f}
      PROVE  g \in Range(r)
  <2>1. PICK j \in DOMAIN l : g = l[j]
    BY Zenon DEF Range
  <2>2. j # k
    BY <1>2, <2>1, Zenon
  <2>3. \E i \in 1..(Len(l) - 1) : at(i) = j
    <3>1. CASE j < k
      BY <1>1, <1>2, <3>1
    <3>2. CASE j > k
      <4>1. j - 1 \in 1..(Len(l) - 1) /\ at(j - 1) = j
        BY <1>1, <1>2, <3>2
      <4> QED
        BY <4>1, Zenon
    <3> QED
      BY <1>1, <1>2, <2>2, <3>1, <3>2
  <2> QED
    BY <1>3, <1>5, <2>1, <2>3, Zenon DEF Range
<1> QED
  BY <1>5, <1>6, <1>7, <1>8, Zenon DEF r

\* list_insert_tail adds a page that is not on the list.
LEMMA AppendList ==
  ASSUME NEW l \in Seq(Frames), IsInjective(l), NEW f \in Frames, f \notin Range(l)
  PROVE  /\ Append(l, f) \in Seq(Frames) /\ IsInjective(Append(l, f))
         /\ Range(Append(l, f)) = Range(l) \cup {f}
<1>1. /\ Append(l, f) \in Seq(Frames) /\ Len(l) \in Nat
      /\ DOMAIN l = 1..Len(l) /\ DOMAIN Append(l, f) = 1..(Len(l) + 1)
      /\ \A i \in 1..Len(l) : Append(l, f)[i] = l[i]
      /\ Append(l, f)[Len(l) + 1] = f
  OBVIOUS
<1>2. IsInjective(Append(l, f))
  BY <1>1 DEF IsInjective, Range
<1>3. Range(Append(l, f)) = Range(l) \cup {f}
  BY <1>1 DEF Range
<1> QED
  BY <1>1, <1>2, <1>3, Zenon

\* pframe_get_resident only moves the page to the end.
LEMMA RequestedList ==
  ASSUME TypeOK, FramesListed, NEW f \in InUse
  PROVE  /\ Requested(f) \in Seq(Frames) /\ IsInjective(Requested(f))
         /\ Range(Requested(f)) = Range(alloc_list)
<1>1. alloc_list \in Seq(Frames) /\ IsInjective(alloc_list) /\ f \in Frames /\ pf_pincount[f] \in Nat
  BY Zenon DEF TypeOK, FramesListed, InUse
<1>2. CASE pf_pincount[f] > 0
  BY <1>1, <1>2, Zenon DEF Requested
<1>3. CASE ~(pf_pincount[f] > 0)
  <2> DEFINE l == list_remove(alloc_list, f)
  <2>1. f \in Range(alloc_list)
    BY <1>1, <1>3 DEF FramesListed
  <2>2. l \in Seq(Frames) /\ IsInjective(l) /\ Range(l) = Range(alloc_list) \ {f}
    BY <1>1, <2>1, RemoveList, Zenon
  <2>3. Requested(f) = Append(l, f)
    BY <1>3, Zenon DEF Requested
  <2> HIDE DEF l
  <2>4. Append(l, f) \in Seq(Frames) /\ IsInjective(Append(l, f)) /\ Range(Append(l, f)) = Range(l) \cup {f}
    BY <1>1, <2>2, AppendList, Zenon
  <2> QED
    BY <2>1, <2>2, <2>3, <2>4, Zenon
<1> QED
  BY <1>2, <1>3, Zenon

(***************************************************************************)
(* pframe_get                                                              *)
(***************************************************************************)

\* Nothing is resident and nobody has asked for anything.
LEMMA InitInv == Init => PframeInv
<1> SUFFICES ASSUME Init PROVE PframeInv
  OBVIOUS
<1> USE PframeConstants DEF Init
<1>1. TypeOK
  BY DEF TypeOK, Threads, NoMap, NoReq
<1>2. PlacesOK /\ HoldsOK /\ RequestsOK /\ PinsOK /\ dirty \subseteq InUse
  BY Zenon DEF PlacesOK, HoldsOK, RequestsOK, PinsOK, Pins, Threads, InUse
<1>3. FramesListed
  <2>1. IsInjective(alloc_list) /\ Range(alloc_list) = {}
    BY DEF IsInjective, Range
  <2> QED
    BY <2>1, Zenon DEF FramesListed, InUse
<1>4. BusyOwned /\ FilledOK /\ NoKassert
  BY Zenon DEF BusyOwned, WorksOn, FilledOK, NoKassert, InUse, Threads
<1>5. MapsOK
  BY Zenon DEF MapsOK, NoMap
<1> QED
  BY <1>1, <1>2, <1>3, <1>4, <1>5, Zenon DEF PframeInv

\* The types of a request, of the page it is for and of the threads' places.
Places == {"user", "get", "fill", "dirty", "sync", "clean", "pclean",
           "pageout", "asleep", "exit", "gone", "wait", "reap"}
ReqType == [op : {"none", "fault_r", "fault_w", "kread", "kwrite", "copy"},
            page : Pages \cup {Null}, val : Values]

\* pframe_get returns f to t, which has it busy if it has just filled it, with
\* list, a reordering of alloc_list, and with data, contents after the fill.
Returns(t, r, f, list, data) ==
  /\ fault = "none" /\ pc[t] \in {"user", "get", "fill"}
  /\ r \in ReqType /\ r.page \in Pages
  /\ pf_page[f] = r.page /\ pf_pincount[f] = 0
  /\ f \in busy <=> pc[t] = "fill"
  /\ pc[t] = "fill" => pf[t] = f
  /\ list \in Seq(Frames) /\ IsInjective(list) /\ Range(list) = Range(alloc_list)
  /\ data \in [Frames -> Values \cup {Junk}] /\ data[f] \in Values
  /\ \A g \in Frames \ {f} : data[g] = contents[g]
  /\ wait' \in [Threads -> Frames \cup {Null}]
  /\ UNCHANGED <<pf_page, dirty, disk>>

\* A page table entry is set.
LEMMA PtUpdate ==
  ASSUME TypeOK, NEW t \in Clients, NEW p \in Pages,
         NEW m \in [frame : Frames \cup {Null}, write : BOOLEAN],
         pt' = [pt EXCEPT ![t][p] = m]
  PROVE  /\ pt' \in [Clients -> [Pages -> [frame : Frames \cup {Null}, write : BOOLEAN]]]
         /\ \A u \in Clients, q \in Pages :
              pt'[u][q] = IF u = t /\ q = p THEN m ELSE pt[u][q]
<1> DEFINE T == [Pages -> [frame : Frames \cup {Null}, write : BOOLEAN]]
           row == [pt[t] EXCEPT ![p] = m]
<1>1. pt \in [Clients -> T]
  BY Zenon DEF TypeOK
<1>2. row \in T /\ \A q \in Pages : row[q] = IF q = p THEN m ELSE pt[t][q]
  BY <1>1, Zenon
<1>3. pt' = [pt EXCEPT ![t] = row]
  OBVIOUS
<1> HIDE DEF T, row
<1>4. pt' \in [Clients -> T] /\ \A u \in Clients : pt'[u] = IF u = t THEN row ELSE pt[u]
  BY <1>1, <1>2, <1>3, Zenon
<1> QED
  BY <1>2, <1>4, Zenon DEF T

\* t starts to work on f.
LEMMA BusyAdd ==
  ASSUME BusyOwned, NEW t \in Threads, NEW f \in Frames,
         busy' = busy \cup {f}, busy' \subseteq InUse',
         \A u \in Threads : WorksOn(u, f) => u = t,
         \A g \in Frames : WorksOn(t, g) => g = f,
         \A u \in Threads, g \in Frames :
           WorksOn(u, g)' <=> IF u = t THEN g = f ELSE WorksOn(u, g)
  PROVE  BusyOwned'
<1>1. \A g \in Frames : g \in busy <=> \E u \in Threads : WorksOn(u, g)
  BY Zenon DEF BusyOwned
<1>2. ASSUME NEW g \in Frames
      PROVE  g \in busy' <=> \E u \in Threads : WorksOn(u, g)'
  <2>1. CASE g = f
    BY <2>1, Zenon
  <2>2. CASE g # f
    BY <1>1, <2>2, Zenon
  <2> QED
    BY <2>1, <2>2, Zenon
<1>3. busy' \subseteq Frames
  BY Zenon DEF BusyOwned
<1>4. \A g \in Frames, u, v \in Threads : WorksOn(u, g)' /\ WorksOn(v, g)' => u = v
  BY DEF BusyOwned
<1> QED
  BY <1>2, <1>3, <1>4, Zenon DEF BusyOwned

\* t is done with f, or never worked on it.
LEMMA BusyRemove ==
  ASSUME BusyOwned, NEW t \in Threads, NEW f \in Frames,
         busy' = busy \ {f}, busy' \subseteq InUse',
         \A u \in Threads : WorksOn(u, f) => u = t,
         \A g \in Frames : WorksOn(t, g) => g = f,
         \A u \in Threads, g \in Frames : WorksOn(u, g)' <=> WorksOn(u, g) /\ u # t
  PROVE  BusyOwned'
<1>1. \A g \in Frames : g \in busy <=> \E u \in Threads : WorksOn(u, g)
  BY Zenon DEF BusyOwned
<1>2. ASSUME NEW g \in Frames
      PROVE  g \in busy' <=> \E u \in Threads : WorksOn(u, g)'
  <2>1. CASE g = f
    BY <2>1, Zenon
  <2>2. CASE g # f
    BY <1>1, <2>2, Zenon
  <2> QED
    BY <2>1, <2>2, Zenon
<1>3. busy' \subseteq Frames
  BY Zenon DEF BusyOwned
<1>4. \A g \in Frames, u, v \in Threads : WorksOn(u, g)' /\ WorksOn(v, g)' => u = v
  BY Zenon DEF BusyOwned
<1> QED
  BY <1>2, <1>3, <1>4, Zenon DEF BusyOwned

\* Mappings go, or stay with pages that stay.
LEMMA MapsKept ==
  ASSUME TypeOK, MapsOK,
         \A g \in Frames : Filling(g)' => Filling(g),
         \A u \in Clients : pc'[u] = "gone" => pc[u] = "gone",
         \A u \in Clients, q \in Pages :
           \/ pt'[u][q] = NoMap
           \/ /\ pt'[u][q] = pt[u][q]
              /\ pt[u][q].frame # Null =>
                   pf_page'[pt[u][q].frame] = pf_page[pt[u][q].frame]
  PROVE  MapsOK'
<1>1. NoMap.frame = Null
  BY Zenon DEF NoMap
<1>2. SUFFICES ASSUME NEW u \in Clients, NEW q \in Pages
               PROVE  (/\ pt[u][q].frame # Null =>
                             pf_page[pt[u][q].frame] = q /\ ~Filling(pt[u][q].frame)
                       /\ pc[u] = "gone" => pt[u][q] = NoMap)'
  BY Zenon DEF MapsOK
<1>3. CASE pt'[u][q] = NoMap
  BY <1>1, <1>3, Zenon
<1>4. CASE /\ pt'[u][q] = pt[u][q]
           /\ pt[u][q].frame # Null =>
                pf_page'[pt[u][q].frame] = pf_page[pt[u][q].frame]
  <2>1. pt[u][q].frame \in Frames \cup {Null}
    BY DEF TypeOK
  <2>2. /\ pt[u][q].frame # Null => pf_page[pt[u][q].frame] = q /\ ~Filling(pt[u][q].frame)
        /\ pc[u] = "gone" => pt[u][q] = NoMap
    BY DEF MapsOK
  <2> QED
    BY <1>4, <2>1, <2>2 DEF Filling
<1> QED
  BY <1>3, <1>4, Zenon

\* The reader of the page is done with it.
LEMMA ReadStep ==
  ASSUME PframeInv, NEW t \in Clients, NEW r, NEW f \in Frames, NEW list, NEW data,
         Returns(t, r, f, list, data),
         \/ ReadFault(t, r, f, list, busy \ {f}, data)
         \/ CopyOut(t, r, f, list, busy \ {f}, data)
  PROVE  PframeInv'
<1> USE PframeConstants DEF PframeInv
<1>1. /\ alloc_list' = list /\ busy' = busy \ {f} /\ contents' = data
      /\ pc' = [pc EXCEPT ![t] = "user"]
      /\ req' = [req EXCEPT ![t] = NoReq] /\ pf' = [pf EXCEPT ![t] = Null]
      /\ \/ pt' = [pt EXCEPT ![t][r.page] = [frame |-> f, write |-> FALSE]]
         \/ pt' = pt
      /\ UNCHANGED <<pf_pincount, pinned_list, written, fault>>
  BY Zenon DEF ReadFault, CopyOut, Go, Forget
<1>2. /\ pf_page[f] = r.page /\ r.page \in Pages
      /\ f \in busy <=> pc[t] = "fill"
      /\ pc[t] = "fill" => pf[t] = f
      /\ pc[t] \in {"user", "get", "fill"}
      /\ t \in Threads /\ t # Idle /\ t # Pageoutd
      /\ UNCHANGED <<pf_page, dirty, disk, InUse>>
  BY Zenon DEF Returns, Threads, InUse
<1>3. TypeOK'
  <2>1. pt' \in [Clients -> [Pages -> [frame : Frames \cup {Null}, write : BOOLEAN]]]
    <3> DEFINE m == [frame |-> f, write |-> FALSE]
    <3>1. m \in [frame : Frames \cup {Null}, write : BOOLEAN]
      OBVIOUS
    <3>2. CASE pt' = [pt EXCEPT ![t][r.page] = m]
      BY <1>2, <3>1, <3>2, PtUpdate, Zenon
    <3>3. CASE pt' = pt
      BY <3>3, Zenon DEF TypeOK
    <3> QED
      BY <1>1, <3>2, <3>3, Zenon
  <2>2. /\ req' \in [Threads -> ReqType] /\ pf' \in [Threads -> Frames \cup {Null}]
        /\ pc' \in [Threads -> Places]
    BY <1>1, <1>2, Zenon DEF TypeOK, NoReq, ReqType, Places
  <2> QED
    BY <1>1, <1>2, <2>1, <2>2, ZenonT(40) DEF TypeOK, Returns, ReqType, Places
<1>4. PlacesOK' /\ HoldsOK'
  BY <1>1, <1>2 DEF PlacesOK, HoldsOK, TypeOK
<1>5. RequestsOK' /\ PinsOK' /\ (dirty \subseteq InUse)'
  BY <1>1, <1>2, SMTT(30) DEF RequestsOK, PinsOK, Pins, TypeOK
<1>6. FramesListed'
  BY <1>1, <1>2 DEF FramesListed, Returns
<1>7. \A u \in Threads, g \in Frames : WorksOn(u, g)' <=> WorksOn(u, g) /\ u # t
  BY <1>1, <1>2, Zenon DEF WorksOn, TypeOK
<1>8. \A u \in Threads : WorksOn(u, f) => u = t
  <2>1. CASE f \in busy
    BY <1>2, <2>1, Zenon DEF BusyOwned, WorksOn
  <2>2. CASE f \notin busy
    BY <2>2, Zenon DEF BusyOwned
  <2> QED
    BY <2>1, <2>2, Zenon
<1>9. BusyOwned'
  <2>1. \A g \in Frames : WorksOn(t, g) => g = f
    BY <1>2, Zenon DEF WorksOn
  <2>2. busy' = busy \ {f} /\ busy' \subseteq InUse'
    BY <1>1, <1>2, Zenon DEF BusyOwned
  <2>3. t \in Threads
    BY Zenon DEF Threads
  <2> QED
    BY <1>7, <1>8, <2>1, <2>2, <2>3, BusyRemove, Zenon
<1>13. \A g \in Frames : Filling(g)' <=> Filling(g) /\ g # f
  BY <1>1, <1>2, <1>8, Zenon DEF Filling, TypeOK, WorksOn
<1>10. MapsOK'
  <2> DEFINE m == [frame |-> f, write |-> FALSE]
  <2>1. \A u \in Clients, q \in Pages :
          pt'[u][q] = pt[u][q] \/ (u = t /\ q = r.page /\ pt'[u][q] = m)
    <3>1. CASE pt' = [pt EXCEPT ![t][r.page] = m]
      BY <1>2, <3>1, PtUpdate, ZenonT(40)
    <3>2. CASE pt' = pt
      BY <3>2, Zenon
    <3> QED
      BY <1>1, <3>1, <3>2, Zenon
  <2>2. m.frame = f /\ pc'[t] = "user" /\ \A u \in Clients \ {t} : pc'[u] = pc[u]
    BY <1>1, <1>2 DEF TypeOK
  <2> HIDE DEF m
  <2>3. \A u \in Clients, q \in Pages : pt[u][q].frame \in Frames \cup {Null}
    BY DEF TypeOK
  <2> QED
    BY <1>1, <1>2, <1>13, <2>1, <2>2, <2>3 DEF MapsOK
<1>11. FilledOK'
  BY <1>1, <1>2, <1>13, Zenon DEF FilledOK, Returns, InUse
<1>12. NoKassert'
  BY <1>1, Zenon DEF NoKassert
<1> QED
  BY <1>3, <1>4, <1>5, <1>6, <1>9, <1>10, <1>11, <1>12, Zenon

\* The writer of the page goes on to dirtypage: handle_pagefault with a pin on
\* the page, vmmap_write without.
LEMMA WriteStep ==
  ASSUME PframeInv, NEW t \in Clients, NEW r, NEW f \in Frames, NEW list, NEW data,
         Returns(t, r, f, list, data),
         \/ WriteFault(t, r, f, list, busy \ {f}, data)
         \/ CopyIn(t, r, f, list, busy \ {f}, data)
  PROVE  PframeInv'
<1> USE PframeConstants DEF PframeInv
<1>1. /\ busy' = busy \cup {f} /\ fault' = "none" /\ pc' = [pc EXCEPT ![t] = "dirty"]
      /\ req' = [req EXCEPT ![t] = r] /\ pf' = [pf EXCEPT ![t] = f]
      /\ r.op \in {"fault_w", "kwrite"}
      /\ UNCHANGED pt
  BY Zenon DEF WriteFault, CopyIn, Go, KASSERT
<1>2. /\ pf_page[f] = r.page /\ r.page \in Pages /\ r \in ReqType /\ pf_pincount[f] = 0
      /\ f \in busy <=> pc[t] = "fill"
      /\ pc[t] = "fill" => pf[t] = f
      /\ pc[t] \in {"user", "get", "fill"}
      /\ t \in Threads /\ t # Idle /\ t # Pageoutd /\ f \in InUse
      /\ UNCHANGED <<pf_page, dirty, disk, InUse>>
  BY ZenonT(40) DEF Returns, Threads, InUse
<1>3. /\ contents' \in [Frames -> Values \cup {Junk}] /\ contents'[f] \in Values
      /\ \A g \in Frames \ {f} : contents'[g] = contents[g]
      /\ written' \in [Pages -> Values]
  <2>1. /\ data \in [Frames -> Values \cup {Junk}] /\ data[f] \in Values /\ r.val \in Values
        /\ \A g \in Frames \ {f} : data[g] = contents[g]
    BY <1>2, Zenon DEF Returns, ReqType
  <2>2. written \in [Pages -> Values]
    BY Zenon DEF TypeOK
  <2>3. \/ contents' = data /\ written' = written
        \/ /\ contents' = [data EXCEPT ![f] = r.val]
           /\ written' = [written EXCEPT ![r.page] = r.val]
    BY Zenon DEF WriteFault, CopyIn
  <2> QED
    BY <1>2, <2>1, <2>2, <2>3, Zenon
<1>4. /\ alloc_list' \in Seq(Frames) /\ IsInjective(alloc_list')
      /\ \/ /\ r.op = "fault_w" /\ pf_pincount' = [pf_pincount EXCEPT ![f] = 1]
            /\ Range(alloc_list') = Range(alloc_list) \ {f}
            /\ pinned_list' = pinned_list \cup {f}
         \/ /\ r.op = "kwrite" /\ UNCHANGED <<pf_pincount, pinned_list>>
            /\ Range(alloc_list') = Range(alloc_list)
  <2>1. list \in Seq(Frames) /\ IsInjective(list) /\ Range(list) = Range(alloc_list)
    BY Zenon DEF Returns
  <2>2. CASE CopyIn(t, r, f, list, busy \ {f}, data)
    BY <2>1, <2>2, Zenon DEF CopyIn
  <2>3. CASE WriteFault(t, r, f, list, busy \ {f}, data)
    <3>1. f \in Range(list)
      BY <1>2, <2>1, Zenon DEF FramesListed
    <3>2. /\ r.op = "fault_w" /\ alloc_list' = list_remove(list, f)
          /\ pinned_list' = pinned_list \cup {f}
          /\ pf_pincount' = [pf_pincount EXCEPT ![f] = @ + 1]
      BY <1>2, <2>3, Zenon DEF WriteFault
    <3>3. pf_pincount' = [pf_pincount EXCEPT ![f] = 1]
      BY <1>2, <3>2
    <3> QED
      BY <2>1, <3>1, <3>2, <3>3, RemoveList, Zenon
  <2> QED
    BY <2>2, <2>3, Zenon
<1>16. /\ \A g \in Frames :
            pf_pincount'[g] = IF g = f /\ r.op = "fault_w" THEN 1 ELSE pf_pincount[g]
       /\ \A g \in Frames :
            /\ g \in Range(alloc_list') <=>
                 g \in Range(alloc_list) /\ ~(g = f /\ r.op = "fault_w")
            /\ g \in pinned_list' <=> g \in pinned_list \/ (g = f /\ r.op = "fault_w")
  <2>1. pf_pincount \in [Frames -> Nat]
    BY Zenon DEF TypeOK
  <2> QED
    BY <1>4, <2>1, Zenon
<1>5. TypeOK'
  <2>1. /\ req' \in [Threads -> ReqType] /\ pf' \in [Threads -> Frames \cup {Null}]
        /\ pc' \in [Threads -> Places]
    BY <1>1, <1>2, Zenon DEF TypeOK, ReqType, Places
  <2>2. pf_pincount' \in [Frames -> Nat] /\ pinned_list' \subseteq Frames
    <3>1. pf_pincount \in [Frames -> Nat] /\ pinned_list \subseteq Frames
      BY Zenon DEF TypeOK
    <3>2. CASE pf_pincount' = [pf_pincount EXCEPT ![f] = 1]
      BY <1>4, <3>1, <3>2, Zenon
    <3>3. CASE pf_pincount' = pf_pincount
      BY <1>4, <3>1, <3>3, Zenon
    <3> QED
      BY <1>4, <3>2, <3>3, Zenon
  <2>3. wait' \in [Threads -> Frames \cup {Null}]
    BY Zenon DEF Returns
  <2> QED
    BY <1>1, <1>2, <1>3, <1>4, <2>1, <2>2, <2>3, ZenonT(40) DEF TypeOK, ReqType, Places
<1>6. PlacesOK' /\ HoldsOK'
  BY <1>1, <1>2 DEF PlacesOK, HoldsOK, TypeOK
<1>7. \A u \in Threads, g \in Frames :
        WorksOn(u, g)' <=> IF u = t THEN g = f ELSE WorksOn(u, g)
  BY <1>1, <1>2, Zenon DEF WorksOn, TypeOK
<1>8. \A u \in Threads : WorksOn(u, f) => u = t
  <2>1. CASE f \in busy
    BY <1>2, <2>1, Zenon DEF BusyOwned, WorksOn
  <2>2. CASE f \notin busy
    BY <2>2, Zenon DEF BusyOwned
  <2> QED
    BY <2>1, <2>2, Zenon
<1>9. BusyOwned'
  <2>1. \A g \in Frames : WorksOn(t, g) => g = f
    BY <1>2, Zenon DEF WorksOn
  <2>2. busy' = busy \cup {f} /\ busy' \subseteq InUse'
    BY <1>1, <1>2, Zenon DEF BusyOwned
  <2>3. t \in Threads
    BY Zenon DEF Threads
  <2> QED
    BY <1>7, <1>8, <2>1, <2>2, <2>3, BusyAdd, ZenonT(40)
<1>10. \A g \in Frames : Filling(g)' <=> Filling(g) /\ g # f
  BY <1>1, <1>2, <1>8, Zenon DEF Filling, TypeOK, WorksOn
<1>11. MapsOK'
  <2>1. \A u \in Clients : pc'[u] = "gone" => pc[u] = "gone"
    BY <1>1, <1>2 DEF TypeOK
  <2>2. pf_page' = pf_page /\ pt' = pt
    BY <1>1, <1>2, Zenon
  <2>3. \A g \in Frames : Filling(g)' => Filling(g)
    BY <1>10, Zenon
  <2> QED
    BY <2>1, <2>2, <2>3, MapsKept, Zenon
<1>12. FilledOK'
  BY <1>2, <1>3, <1>10, Zenon DEF FilledOK, InUse
<1>13. FramesListed'
  <2>1. \A g \in Frames : pf_pincount[g] \in Nat
    BY Zenon DEF TypeOK
  <2>2. \A g \in Frames :
          /\ g \in Range(alloc_list') <=> (g \in InUse /\ pf_pincount'[g] = 0)
          /\ g \in pinned_list' <=> (g \in InUse /\ pf_pincount'[g] > 0)
    <3>1. \A g \in Frames :
            /\ g \in Range(alloc_list) <=> (g \in InUse /\ pf_pincount[g] = 0)
            /\ g \in pinned_list <=> (g \in InUse /\ pf_pincount[g] > 0)
      BY Zenon DEF FramesListed
    <3>2. f \in InUse
      BY <1>2, Zenon
    <3> QED
      BY <1>16, <2>1, <3>1, <3>2
  <2>3. IsInjective(alloc_list') /\ pf_page' = pf_page /\ InUse' = InUse
    BY <1>2, <1>4, Zenon
  <2> QED
    BY <2>2, <2>3, Zenon DEF FramesListed
<1>14. RequestsOK'
  <2>1. \A u \in Clients \ {t} : pc[u] = "fill" => pf[u] # f
    BY <1>8, Zenon DEF WorksOn, Threads
  <2>2. \A u \in Clients \ {t} : pc'[u] = pc[u] /\ pf'[u] = pf[u] /\ req'[u] = req[u]
    BY <1>1, <1>2, Zenon DEF TypeOK, Threads
  <2>3. pc'[t] = "dirty" /\ pf'[t] = f /\ req'[t] = r
    BY <1>1, <1>2, Zenon DEF TypeOK
  <2>4. \A g \in Frames \ {f} : pf_pincount'[g] = pf_pincount[g]
    BY <1>16, Zenon
  <2>5. \A u \in Clients : pc[u] = "fill" => pf[u] \in Frames
    BY Zenon DEF HoldsOK, Threads
  <2>6. /\ pf_page' = pf_page /\ dirty' = dirty
        /\ pf_page[f] = r.page /\ r.page \in Pages /\ r.op \in {"fault_w", "kwrite"}
    BY <1>1, <1>2, Zenon
  <2> QED
    BY <2>1, <2>2, <2>3, <2>4, <2>5, <2>6 DEF RequestsOK
<1>15. PinsOK'
  <2>1. \A u \in Clients \ {t}, g \in Frames : Pins(u, g)' <=> Pins(u, g)
    BY <1>1, <1>2, Zenon DEF Pins, TypeOK, Threads
  <2>2. \A g \in Frames : ~Pins(t, g) /\ (Pins(t, g)' <=> g = f /\ r.op = "fault_w")
    BY <1>1, <1>2, Zenon DEF Pins, TypeOK
  <2>3. \A u \in Clients : ~Pins(u, f)
    <3>1. pf_pincount[f] = 0
      BY <1>2, Zenon
    <3> QED
      BY <3>1 DEF PinsOK
  <2>4. SUFFICES ASSUME NEW g \in Frames
                 PROVE  pf_pincount'[g] = IF \E u \in Clients : Pins(u, g)' THEN 1 ELSE 0
    BY Zenon DEF PinsOK
  <2>5. pf_pincount[g] = IF \E u \in Clients : Pins(u, g) THEN 1 ELSE 0
    BY Zenon DEF PinsOK
  <2>6. CASE g = f
    BY <1>16, <2>1, <2>2, <2>3, <2>5, <2>6, Zenon
  <2>7. CASE g # f
    BY <1>16, <2>1, <2>2, <2>5, <2>7, Zenon
  <2> QED
    BY <2>6, <2>7, Zenon
<1> QED
  BY <1>1, <1>2, <1>5, <1>6, <1>9, <1>11, <1>12, <1>13, <1>14, <1>15, Zenon DEF NoKassert

\* A page that is not busy is neither pinned nor being filled.
LEMMA NotBusy ==
  ASSUME PframeInv, NEW f \in Frames, f \notin busy
  PROVE  pf_pincount[f] = 0 /\ ~Filling(f)
<1>1. \A t \in Threads : ~WorksOn(t, f)
  BY Zenon DEF PframeInv, BusyOwned
<1>2. \A t \in Clients : ~Pins(t, f)
  BY <1>1, Zenon DEF WorksOn, Pins, Threads
<1> QED
  BY <1>1, <1>2, Zenon DEF PframeInv, PinsOK, Filling, WorksOn

\* Only processes fill and dirty pages.
LEMMA FillersAreClients ==
  ASSUME PframeInv, NEW t \in Threads
  PROVE  /\ pc[t] \in {"fill", "dirty"} => t \in Clients
         /\ pc[t] = "clean" => t # Pageoutd
         /\ pc[t] = "pclean" => t = Pageoutd
  BY PframeConstants, Zenon DEF PframeInv, PlacesOK, Threads

\* A broadcast leaves the other waits as they are.
LEMMA WokenType ==
  ASSUME TypeOK, NEW f
  PROVE  Woken(f) \in [Threads -> Frames \cup {Null}]
  BY Zenon DEF TypeOK, Woken

\* The page is resident and not busy.
LEMMA HitReturns ==
  ASSUME PframeInv, fault = "none", NEW t \in Clients, pc[t] \in {"user", "get"},
         NEW r \in ReqType, r.page \in Pages, GetHit(t, r)
  PROVE  \E f \in InUse \ busy : /\ Returns(t, r, f, Requested(f), contents)
                                 /\ Return(t, r, f, Requested(f), busy \ {f}, contents)
<1> USE PframeConstants
<1>1. PICK f \in Resident(r.page) \ busy :
        Return(t, r, f, Requested(f), busy, contents)
  BY Zenon DEF GetHit
<1>2. f \in Frames /\ pf_page[f] = r.page /\ f \in InUse /\ f \notin busy
  BY <1>1, Zenon DEF Resident, InUse
<1>3. busy = busy \ {f}
  BY <1>2, Zenon
<1>4. pf_pincount[f] = 0 /\ contents[f] \in Values
  BY <1>2, NotBusy, Zenon DEF PframeInv, FilledOK
<1>5. Return(t, r, f, Requested(f), busy \ {f}, contents)
  BY <1>1, <1>3, Zenon
<1>6. /\ Requested(f) \in Seq(Frames) /\ IsInjective(Requested(f))
      /\ Range(Requested(f)) = Range(alloc_list)
  BY <1>2, RequestedList, Zenon DEF PframeInv
<1>7. /\ wait' \in [Threads -> Frames \cup {Null}]
      /\ contents \in [Frames -> Values \cup {Junk}]
      /\ UNCHANGED <<pf_page, dirty, disk>>
  BY <1>1, Zenon DEF GetHit, Return, PframeInv, TypeOK
<1>8. Returns(t, r, f, Requested(f), contents)
  BY <1>2, <1>4, <1>6, <1>7, Zenon DEF Returns
<1> QED
  BY <1>2, <1>5, <1>8, Zenon

LEMMA HitStep ==
  ASSUME PframeInv, fault = "none", NEW t \in Clients, pc[t] \in {"user", "get"},
         NEW r \in ReqType, r.page \in Pages, GetHit(t, r)
  PROVE  PframeInv'
<1>1. PICK f \in InUse \ busy :
        /\ Returns(t, r, f, Requested(f), contents)
        /\ Return(t, r, f, Requested(f), busy \ {f}, contents)
  BY HitReturns, Zenon
<1> QED
  BY <1>1, ReadStep, WriteStep, Zenon DEF Return, InUse

\* fillpage has read the page.
LEMMA FillReturns ==
  ASSUME PframeInv, NEW t \in Threads, FillDone(t)
  PROVE  \E f \in Frames, data \in [Frames -> Values \cup {Junk}] :
           /\ t \in Clients /\ pc[t] = "fill" /\ pf[t] = f
           /\ data[f] = disk[req[t].page]
           /\ Returns(t, req[t], f, alloc_list, data)
           /\ Return(t, req[t], f, alloc_list, busy \ {f}, data)
<1> USE PframeConstants
<1> DEFINE f == pf[t]
           r == req[t]
           data == [contents EXCEPT ![f] = disk[r.page]]
<1>1. /\ fault = "none" /\ pc[t] = "fill" /\ wait' = Woken(f)
      /\ Return(t, r, f, alloc_list, busy \ {f}, data)
  BY Zenon DEF FillDone, At
<1>2. t \in Clients
  BY <1>1, FillersAreClients, Zenon
<1>3. /\ f \in Frames /\ r \in ReqType /\ r.page \in Pages
      /\ pf_page[f] = r.page /\ pf_pincount[f] = 0
  BY <1>1, <1>2, Zenon DEF PframeInv, HoldsOK, RequestsOK, TypeOK, ReqType, Threads
<1>4. f \in busy
  BY <1>1, <1>3, Zenon DEF PframeInv, BusyOwned, WorksOn
<1>5. /\ data \in [Frames -> Values \cup {Junk}] /\ data[f] \in Values
      /\ \A g \in Frames \ {f} : data[g] = contents[g]
      /\ data[f] = disk[req[t].page]
  BY <1>3, Zenon DEF PframeInv, TypeOK
<1>6. alloc_list \in Seq(Frames) /\ IsInjective(alloc_list)
  BY Zenon DEF PframeInv, TypeOK, FramesListed
<1>7. wait' \in [Threads -> Frames \cup {Null}]
  BY <1>1, WokenType, Zenon DEF PframeInv
<1>8. UNCHANGED <<pf_page, dirty, disk>>
  BY <1>1, Zenon DEF Return
<1> HIDE DEF data, f, r
<1>9. pf[t] = f
  BY Zenon DEF f
<1>10. Returns(t, r, f, alloc_list, data)
  BY <1>1, <1>3, <1>4, <1>5, <1>6, <1>7, <1>8, <1>9, Zenon DEF Returns
<1> QED
  BY <1>1, <1>2, <1>3, <1>5, <1>9, <1>10, Zenon DEF r

LEMMA FillDoneStep ==
  ASSUME PframeInv, NEW t \in Threads, FillDone(t)
  PROVE  PframeInv'
<1>1. PICK f \in Frames, data \in [Frames -> Values \cup {Junk}] :
        /\ t \in Clients
        /\ Returns(t, req[t], f, alloc_list, data)
        /\ Return(t, req[t], f, alloc_list, busy \ {f}, data)
  BY FillReturns, Zenon
<1> QED
  BY <1>1, ReadStep, WriteStep, Zenon DEF Return

\* The page is resident and busy: only its place on alloc_list changes.
LEMMA WaitStep ==
  ASSUME PframeInv, NEW t \in Clients, pc[t] \in {"user", "get"},
         NEW r \in ReqType, r.page \in Pages, GetWait(t, r)
  PROVE  PframeInv'
<1> USE PframeConstants DEF PframeInv
<1>1. PICK f \in Resident(r.page) : /\ alloc_list' = Requested(f)
                                    /\ wait' = [wait EXCEPT ![t] = f]
  BY Zenon DEF GetWait
<1>2. f \in InUse /\ f \in Frames /\ t \in Threads /\ t # Idle /\ t # Pageoutd
  BY <1>1, Zenon DEF Resident, InUse, Threads
<1>3. /\ alloc_list' \in Seq(Frames) /\ IsInjective(alloc_list')
      /\ Range(alloc_list') = Range(alloc_list)
  BY <1>1, <1>2, RequestedList, Zenon
<1>4. /\ pc' = [pc EXCEPT ![t] = "get"] /\ req' = [req EXCEPT ![t] = r]
      /\ UNCHANGED <<pf_page, busy, dirty, pf_pincount, pinned_list, contents,
                     disk, pt, pf, written, fault, InUse>>
  BY Zenon DEF GetWait, Go, InUse
<1>5. TypeOK'
  BY <1>1, <1>2, <1>3, <1>4, Zenon DEF TypeOK, ReqType
<1>6. PlacesOK' /\ HoldsOK' /\ RequestsOK'
  BY <1>2, <1>4 DEF PlacesOK, HoldsOK, RequestsOK, TypeOK
<1>7. PinsOK' /\ (dirty \subseteq InUse)' /\ NoKassert'
  BY <1>2, <1>4 DEF PinsOK, Pins, TypeOK, NoKassert
<1>8. FramesListed'
  BY <1>3, <1>4, Zenon DEF FramesListed
<1>9. \A u \in Threads, g \in Frames : WorksOn(u, g)' <=> WorksOn(u, g)
  BY <1>2, <1>4, Zenon DEF WorksOn, TypeOK
<1>10. BusyOwned'
  BY <1>4, <1>9, Zenon DEF BusyOwned
<1>11. \A g : Filling(g)' <=> Filling(g)
  BY <1>2, <1>4, Zenon DEF Filling, TypeOK
<1>12. MapsOK' /\ FilledOK'
  BY <1>2, <1>4, <1>11 DEF MapsOK, FilledOK, TypeOK, InUse
<1> QED
  BY <1>5, <1>6, <1>7, <1>8, <1>10, <1>12, Zenon

\* shadow_fillpage finds the page resident.
LEMMA CopyStep ==
  ASSUME PframeInv, NEW f \in InUse, alloc_list' = Requested(f),
         UNCHANGED <<pf_page, busy, dirty, pf_pincount, pinned_list, contents,
                     disk, pt, threadVars, written, fault>>
  PROVE  PframeInv'
<1> USE DEF PframeInv, threadVars
<1>1. /\ alloc_list' \in Seq(Frames) /\ IsInjective(alloc_list')
      /\ Range(alloc_list') = Range(alloc_list)
  BY RequestedList, Zenon
<1>2. TypeOK' /\ FramesListed'
  BY <1>1, Zenon DEF TypeOK, FramesListed, InUse
<1>3. PlacesOK' /\ HoldsOK' /\ RequestsOK'
  BY Zenon DEF PlacesOK, HoldsOK, RequestsOK
<1>4. PinsOK' /\ (dirty \subseteq InUse)' /\ NoKassert'
  BY Zenon DEF PinsOK, Pins, NoKassert, InUse
<1>5. BusyOwned' /\ MapsOK' /\ FilledOK'
  <2>1. /\ InUse' = InUse
        /\ \A u, g : WorksOn(u, g)' <=> WorksOn(u, g)
        /\ \A g : Filling(g)' <=> Filling(g)
    BY Zenon DEF InUse, WorksOn, Filling
  <2>2. BusyOwned'
    BY <2>1, Zenon DEF BusyOwned
  <2>3. MapsOK' /\ FilledOK'
    BY <2>1, ZenonT(40) DEF MapsOK, FilledOK
  <2> QED
    BY <2>2, <2>3, Zenon
<1> QED
  BY <1>2, <1>3, <1>4, <1>5, Zenon

\* The page is not resident: it gets a free frame, if there is one.
LEMMA MissStep ==
  ASSUME PframeInv, NEW t \in Clients, pc[t] \in {"user", "get"},
         NEW r \in ReqType, r.page \in Pages, GetMiss(t, r)
  PROVE  PframeInv'
<1> USE PframeConstants DEF PframeInv
<1>1. /\ req' = [req EXCEPT ![t] = r]
      /\ UNCHANGED <<pinned_list, contents, disk, pt, wait, written>>
      /\ t \in Threads /\ t # Idle /\ t # Pageoutd
  BY Zenon DEF GetMiss, Threads
<1>2. req' \in [Threads -> ReqType]
  BY <1>1, Zenon DEF TypeOK, ReqType
<1>3. CASE /\ fault' = "null"
           /\ UNCHANGED <<pf_page, alloc_list, busy, dirty, pf_pincount, pf, pc>>
  <2>1. TypeOK' /\ FramesListed'
    BY <1>1, <1>2, <1>3, Zenon DEF TypeOK, FramesListed, InUse, ReqType
  <2>2. PlacesOK' /\ HoldsOK' /\ RequestsOK'
    BY <1>1, <1>3 DEF PlacesOK, HoldsOK, RequestsOK, TypeOK
  <2>3. PinsOK' /\ (dirty \subseteq InUse)' /\ NoKassert'
    BY <1>1, <1>3 DEF PinsOK, Pins, NoKassert, InUse, TypeOK
  <2>4. BusyOwned' /\ MapsOK' /\ FilledOK'
    <3>1. /\ InUse' = InUse
          /\ \A u, g : WorksOn(u, g)' <=> WorksOn(u, g)
          /\ \A g : Filling(g)' <=> Filling(g)
      BY <1>1, <1>3, Zenon DEF InUse, WorksOn, Filling
    <3>2. busy' = busy /\ pt' = pt /\ pf_page' = pf_page /\ pc' = pc /\ contents' = contents
      BY <1>1, <1>3, Zenon
    <3>3. BusyOwned'
      BY <3>1, <3>2, Zenon DEF BusyOwned
    <3>4. MapsOK'
      BY <3>1, <3>2 DEF MapsOK
    <3>5. FilledOK'
      BY <3>1, <3>2, Zenon DEF FilledOK
    <3> QED
      BY <3>3, <3>4, <3>5, Zenon
  <2> QED
    BY <2>1, <2>2, <2>3, <2>4, Zenon
<1>4. ASSUME NEW f \in Frames \ InUse,
             /\ Resident(r.page) = {}
             /\ pf_page' = [pf_page EXCEPT ![f] = r.page]
             /\ alloc_list' = Append(alloc_list, f)
             /\ busy' = busy \cup {f}
             /\ dirty' = dirty \ {f}
             /\ pf_pincount' = [pf_pincount EXCEPT ![f] = 0]
             /\ pf' = [pf EXCEPT ![t] = f]
             /\ pc' = [pc EXCEPT ![t] = "fill"]
             /\ UNCHANGED fault
      PROVE  PframeInv'
  <2>1. /\ f \notin Range(alloc_list) /\ f \notin busy /\ f \notin dirty
        /\ f \notin pinned_list /\ pf_page[f] = Null /\ pf_pincount[f] = 0
    BY NotBusy, Zenon DEF FramesListed, BusyOwned, InUse
  <2>2. /\ alloc_list' \in Seq(Frames) /\ IsInjective(alloc_list')
        /\ Range(alloc_list') = Range(alloc_list) \cup {f}
    BY <1>4, <2>1, AppendList, Zenon DEF TypeOK, FramesListed
  <2>3. InUse' = InUse \cup {f} /\ dirty' = dirty /\ pf_pincount' = pf_pincount
    BY <1>4, <2>1, SMTT(30) DEF InUse, TypeOK
  <2>4. TypeOK'
    BY <1>1, <1>2, <1>4, <2>2, <2>3 DEF TypeOK, ReqType
  <2>5. FramesListed'
    <3>1. \A g \in InUse : pf_page[g] # r.page /\ pf_page'[g] = pf_page[g]
      BY <1>4, Zenon DEF Resident, InUse, TypeOK
    <3>2. \A g, h \in InUse' : pf_page'[g] = pf_page'[h] => g = h
      BY <1>4, <2>3, <3>1, SMTT(30) DEF FramesListed, TypeOK, InUse
    <3> QED
      <4>1. \A g \in Frames : g \in Range(alloc_list') <=> g \in InUse' /\ pf_pincount'[g] = 0
        BY <2>1, <2>2, <2>3, Zenon DEF FramesListed
      <4>2. \A g \in Frames : g \in pinned_list' <=> g \in InUse' /\ pf_pincount'[g] > 0
        <5>1. ~(pf_pincount[f] > 0)
          BY <2>1
        <5>2. pinned_list' = pinned_list
          BY <1>1, Zenon
        <5> QED
          BY <2>1, <2>3, <5>1, <5>2, Zenon DEF FramesListed
      <4> QED
        BY <2>2, <3>2, <4>1, <4>2, Zenon DEF FramesListed
  <2>6. PlacesOK' /\ HoldsOK'
    BY <1>1, <1>4 DEF PlacesOK, HoldsOK, TypeOK
  <2>7. \A u \in Threads, g \in Frames :
          WorksOn(u, g)' <=> IF u = t THEN g = f ELSE WorksOn(u, g)
    BY <1>1, <1>4, Zenon DEF WorksOn, TypeOK
  <2>8. \A u \in Threads : ~WorksOn(u, f)
    BY <2>1, Zenon DEF BusyOwned
  <2>9. \A g \in Frames : ~WorksOn(t, g)
    BY Zenon DEF WorksOn
  <2>10. BusyOwned'
    <3>1. busy' = busy \cup {f} /\ busy' \subseteq InUse'
      BY <1>4, <2>3, Zenon DEF BusyOwned
    <3> QED
      BY <1>1, <2>7, <2>8, <2>9, <3>1, BusyAdd
  <2>11. \A g \in Frames : Filling(g)' <=> Filling(g) \/ g = f
    BY <1>1, <1>4, Zenon DEF Filling, TypeOK
  <2>12. FilledOK'
    BY <1>1, <2>3, <2>11, Zenon DEF FilledOK, InUse
  <2>13. MapsOK'
    <3>1. \A u \in Clients, q \in Pages :
            pt[u][q].frame \in Frames \cup {Null} /\ pt[u][q].frame # f
      <4> SUFFICES ASSUME NEW u \in Clients, NEW q \in Pages
                   PROVE  pt[u][q].frame \in Frames \cup {Null} /\ pt[u][q].frame # f
        OBVIOUS
      <4>1. pt[u][q] \in [frame : Frames \cup {Null}, write : BOOLEAN]
        BY DEF TypeOK
      <4>2. pt[u][q].frame \in Frames \cup {Null}
        BY <4>1, Zenon
      <4>3. pt[u][q].frame # Null => pf_page[pt[u][q].frame] = q /\ q # Null
        BY Zenon DEF MapsOK
      <4> QED
        BY <2>1, <4>2, <4>3, Zenon
    <3>2. \A u \in Clients : pc'[u] = "gone" => pc[u] = "gone"
      BY <1>1, <1>4 DEF TypeOK
    <3>3. \A g \in Frames \ {f} : pf_page'[g] = pf_page[g]
      BY <1>4, Zenon DEF TypeOK
    <3> QED
      BY <1>1, <2>11, <3>1, <3>2, <3>3, SMTT(30) DEF MapsOK
  <2>14. RequestsOK'
    <3>1. \A u \in Clients \ {t} : pc'[u] = pc[u] /\ pf'[u] = pf[u] /\ req'[u] = req[u]
      BY <1>1, <1>4, Zenon DEF TypeOK, Threads
    <3>2. pc'[t] = "fill" /\ pf'[t] = f /\ req'[t] = r /\ pf_page'[f] = r.page
      BY <1>1, <1>4, Zenon DEF TypeOK
    <3>3. \A u \in Clients \ {t} : pc[u] \in {"fill", "dirty"} => pf[u] \in Frames \ {f}
      BY <2>8, Zenon DEF HoldsOK, WorksOn, Threads
    <3>4. \A g \in Frames \ {f} : pf_page'[g] = pf_page[g]
      BY <1>4, Zenon DEF TypeOK
    <3> QED
      <4> SUFFICES ASSUME NEW u \in Clients
                   PROVE  /\ pc'[u] \in {"get", "fill", "dirty"} => req'[u].page \in Pages
                          /\ pc'[u] \in {"fill", "dirty"} => pf_page'[pf'[u]] = req'[u].page
                          /\ pc'[u] = "fill" => pf_pincount'[pf'[u]] = 0 /\ pf'[u] \notin dirty'
                          /\ pc'[u] = "dirty" => req'[u].op \in {"fault_w", "kwrite"}
        BY Zenon DEF RequestsOK
      <4>1. CASE u = t
        BY <2>1, <2>3, <3>2, <4>1, Zenon
      <4>2. CASE u # t
        <5>1. pc'[u] = pc[u] /\ pf'[u] = pf[u] /\ req'[u] = req[u]
          BY <3>1, <4>2, Zenon
        <5>2. pc[u] \in {"fill", "dirty"} => pf_page'[pf[u]] = pf_page[pf[u]]
          BY <3>3, <3>4, <4>2, Zenon
        <5> QED
          BY <2>3, <5>1, <5>2, Zenon DEF RequestsOK
      <4> QED
        BY <4>1, <4>2, Zenon
  <2>15. PinsOK'
    <3>1. \A u \in Clients, g \in Frames : Pins(u, g)' <=> Pins(u, g)
      BY <1>1, <1>4, Zenon DEF Pins, TypeOK, Threads
    <3> QED
      BY <2>3, <3>1, Zenon DEF PinsOK
  <2> QED
    BY <1>4, <2>3, <2>4, <2>5, <2>6, <2>10, <2>12, <2>13, <2>14, <2>15, Zenon DEF NoKassert
<1> QED
  BY <1>3, <1>4, Zenon DEF GetMiss, Go

(***************************************************************************)
(* pframe_free                                                             *)
(***************************************************************************)

\* No page table refers to f any more; the others are as they were.
LEMMA Unmapped ==
  ASSUME TypeOK, NEW f \in Frames, pt' = RemovedFromPts(f)
  PROVE  /\ pt' \in [Clients -> [Pages -> [frame : Frames \cup {Null}, write : BOOLEAN]]]
         /\ \A u \in Clients, q \in Pages :
              pt'[u][q] = IF pt[u][q].frame = f THEN NoMap ELSE pt[u][q]
<1> DEFINE T == [frame : Frames \cup {Null}, write : BOOLEAN]
<1>1. NoMap \in T /\ \A u \in Clients, q \in Pages : pt[u][q] \in T
  BY DEF TypeOK, NoMap
<1> HIDE DEF T
<1>2. pt' \in [Clients -> [Pages -> T]]
  BY <1>1, Zenon DEF RemovedFromPts
<1>3. \A u \in Clients, q \in Pages :
        pt'[u][q] = IF pt[u][q].frame = f THEN NoMap ELSE pt[u][q]
  BY Zenon DEF RemovedFromPts
<1> QED
  BY <1>2, <1>3, Zenon DEF T

\* The frame is neither listed nor mapped any more.
LEMMA FreeFrame ==
  ASSUME PframeInv, NEW f \in InUse, pf_pincount[f] = 0,
         pframe_free(f), UNCHANGED <<pf_pincount, pinned_list>>
  PROVE  /\ InUse' = InUse \ {f} /\ FramesListed'
         /\ pf_page' \in [Frames -> Pages \cup {Null}]
         /\ contents' \in [Frames -> Values \cup {Junk}]
         /\ alloc_list' \in Seq(Frames)
         /\ \A g \in Frames \ {f} : pf_page'[g] = pf_page[g] /\ contents'[g] = contents[g]
         /\ pt' \in [Clients -> [Pages -> [frame : Frames \cup {Null}, write : BOOLEAN]]]
         /\ \A u \in Clients, q \in Pages :
              pt'[u][q] = IF pt[u][q].frame = f THEN NoMap ELSE pt[u][q]
<1> USE PframeConstants DEF PframeInv
<1>1. /\ f \in Frames /\ pf_page' = [pf_page EXCEPT ![f] = Null]
      /\ contents' = [contents EXCEPT ![f] = Junk]
      /\ alloc_list' = list_remove(alloc_list, f)
      /\ pt' = RemovedFromPts(f)
  BY Zenon DEF pframe_free, InUse
<1>2. /\ pf_page' \in [Frames -> Pages \cup {Null}]
      /\ contents' \in [Frames -> Values \cup {Junk}]
      /\ \A g \in Frames \ {f} : pf_page'[g] = pf_page[g] /\ contents'[g] = contents[g]
  BY <1>1, Zenon DEF TypeOK
<1>3. InUse' = InUse \ {f}
  BY <1>1, Zenon DEF InUse, TypeOK
<1>4. f \in Range(alloc_list) /\ alloc_list \in Seq(Frames) /\ IsInjective(alloc_list)
  BY Zenon DEF FramesListed, InUse, TypeOK
<1>5. /\ alloc_list' \in Seq(Frames) /\ IsInjective(alloc_list')
      /\ Range(alloc_list') = Range(alloc_list) \ {f}
  BY <1>1, <1>4, RemoveList, Zenon
<1>6. FramesListed'
  <2>1. \A g, h \in InUse' : pf_page'[g] = pf_page'[h] => g = h
    BY <1>2, <1>3, Zenon DEF FramesListed, InUse
  <2>2. f \notin pinned_list
    BY <1>1 DEF FramesListed
  <2> QED
    BY <1>3, <1>5, <2>1, <2>2, Zenon DEF FramesListed
<1> QED
  BY <1>1, <1>2, <1>3, <1>5, <1>6, Unmapped, Zenon

\* fillpage failed: the page is freed, and nobody else works on it.
LEMMA FillFailedStep ==
  ASSUME PframeInv, NEW t \in Threads, FillFailed(t)
  PROVE  PframeInv'
<1> USE PframeConstants DEF PframeInv
<1> DEFINE f == pf[t]
<1>1. /\ pc[t] = "fill" /\ wait' = Woken(f) /\ busy' = busy \ {f} /\ pframe_free(f)
      /\ fault' \in {"none", "wild"}
      /\ \/ pc' = [pc EXCEPT ![t] = "user"] \/ pc' = [pc EXCEPT ![t] = "exit"]
      /\ req' = [req EXCEPT ![t] = NoReq] /\ pf' = [pf EXCEPT ![t] = Null]
      /\ UNCHANGED <<dirty, pf_pincount, pinned_list, disk, written>>
  BY Zenon DEF FillFailed, At, Go, Forget
<1>2. t \in Clients /\ t # Idle /\ t # Pageoutd
  BY <1>1, FillersAreClients, Zenon
<1>3. f \in Frames /\ WorksOn(t, f)
  BY <1>1, Zenon DEF HoldsOK, WorksOn
<1>4. f \in busy /\ f \in InUse /\ pf_pincount[f] = 0 /\ f \notin dirty
  BY <1>1, <1>2, <1>3, Zenon DEF BusyOwned, RequestsOK
<1> HIDE DEF f
<1>5. /\ InUse' = InUse \ {f} /\ FramesListed'
      /\ pf_page' \in [Frames -> Pages \cup {Null}]
      /\ contents' \in [Frames -> Values \cup {Junk}]
      /\ alloc_list' \in Seq(Frames)
      /\ \A g \in Frames \ {f} : pf_page'[g] = pf_page[g] /\ contents'[g] = contents[g]
      /\ pt' \in [Clients -> [Pages -> [frame : Frames \cup {Null}, write : BOOLEAN]]]
      /\ \A u \in Clients, q \in Pages :
           pt'[u][q] = IF pt[u][q].frame = f THEN NoMap ELSE pt[u][q]
  BY <1>1, <1>4, FreeFrame, Zenon
<1>6. TypeOK'
  <2>1. wait' \in [Threads -> Frames \cup {Null}]
    BY <1>1, WokenType, Zenon
  <2>2. /\ req' \in [Threads -> ReqType] /\ pf' \in [Threads -> Frames \cup {Null}]
        /\ pc' \in [Threads -> Places]
    BY <1>1, Zenon DEF TypeOK, NoReq, ReqType, Places
  <2> QED
    BY <1>1, <1>5, <2>1, <2>2, Zenon DEF TypeOK, ReqType, Places
<1>7. PlacesOK' /\ HoldsOK'
  <2>1. /\ pc'[t] \in {"user", "exit"} /\ pf'[t] = Null
        /\ \A u \in Threads \ {t} : pc'[u] = pc[u] /\ pf'[u] = pf[u]
    BY <1>1, Zenon DEF TypeOK
  <2>2. PlacesOK'
    BY <1>1, <1>2, <2>1, Zenon DEF PlacesOK, Threads
  <2> QED
    BY <2>1, <2>2, Zenon DEF HoldsOK
<1>8. \A u \in Threads, g \in Frames : WorksOn(u, g)' <=> WorksOn(u, g) /\ u # t
  BY <1>1, Zenon DEF WorksOn, TypeOK
<1>9. /\ \A u \in Threads : WorksOn(u, f) => u = t
      /\ \A g \in Frames : WorksOn(t, g) => g = f
  BY <1>3, Zenon DEF BusyOwned, WorksOn
<1>10. BusyOwned'
  <2>1. busy' = busy \ {f} /\ busy' \subseteq InUse'
    BY <1>1, <1>5, Zenon DEF BusyOwned
  <2> QED
    BY <1>3, <1>8, <1>9, <2>1, BusyRemove, Zenon
<1>11. \A g \in Frames : Filling(g)' => Filling(g)
  BY <1>1, Zenon DEF Filling, TypeOK
<1>12. \A g \in Frames \ {f} : Filling(g) => Filling(g)'
  BY <1>1, <1>9, ZenonT(40) DEF Filling, TypeOK, WorksOn
<1>13. FilledOK'
  BY <1>5, <1>12, Zenon DEF FilledOK, InUse
<1>14. MapsOK'
  <2>1. \A u \in Clients : pc'[u] = "gone" => pc[u] = "gone"
    BY <1>1, Zenon DEF TypeOK, Threads
  <2>2. \A u \in Clients, q \in Pages : pt[u][q].frame \in Frames \cup {Null}
    BY DEF TypeOK
  <2>3. \A u \in Clients, q \in Pages :
          \/ pt'[u][q] = NoMap
          \/ /\ pt'[u][q] = pt[u][q]
             /\ pt[u][q].frame # Null =>
                  pf_page'[pt[u][q].frame] = pf_page[pt[u][q].frame]
    BY <1>5, <2>2, Zenon
  <2> QED
    BY <1>11, <2>1, <2>3, MapsKept, Zenon
<1>15. RequestsOK'
  <2>1. \A u \in Clients \ {t} : pc'[u] = pc[u] /\ pf'[u] = pf[u] /\ req'[u] = req[u]
    BY <1>1, Zenon DEF TypeOK, Threads
  <2>2. pc'[t] \in {"user", "exit"}
    BY <1>1, Zenon DEF TypeOK
  <2>3. \A u \in Clients \ {t} : pc[u] \in {"fill", "dirty"} => pf[u] \in Frames \ {f}
    BY <1>9, Zenon DEF HoldsOK, WorksOn, Threads
  <2> QED
    <3> SUFFICES ASSUME NEW u \in Clients
                 PROVE  /\ pc'[u] \in {"get", "fill", "dirty"} => req'[u].page \in Pages
                        /\ pc'[u] \in {"fill", "dirty"} => pf_page'[pf'[u]] = req'[u].page
                        /\ pc'[u] = "fill" => pf_pincount'[pf'[u]] = 0 /\ pf'[u] \notin dirty'
                        /\ pc'[u] = "dirty" => req'[u].op \in {"fault_w", "kwrite"}
      BY Zenon DEF RequestsOK
    <3>1. CASE u = t
      BY <2>2, <3>1, Zenon
    <3>2. CASE u # t
      <4>1. pc'[u] = pc[u] /\ pf'[u] = pf[u] /\ req'[u] = req[u]
        BY <2>1, <3>2, Zenon
      <4>2. pc[u] \in {"fill", "dirty"} => pf_page'[pf[u]] = pf_page[pf[u]]
        BY <1>5, <2>3, <3>2, Zenon
      <4>3. pf_pincount' = pf_pincount /\ dirty' = dirty
        BY <1>1, <1>5, Zenon
      <4> QED
        BY <4>1, <4>2, <4>3, Zenon DEF RequestsOK
    <3> QED
      BY <3>1, <3>2, Zenon
<1>16. PinsOK'
  <2>1. \A u \in Clients, g \in Frames : Pins(u, g)' <=> Pins(u, g)
    BY <1>1, Zenon DEF Pins, TypeOK, Threads
  <2> QED
    BY <1>1, <2>1, Zenon DEF PinsOK
<1> QED
  BY <1>1, <1>4, <1>5, <1>6, <1>7, <1>10, <1>13, <1>14, <1>15, <1>16, Zenon DEF NoKassert

(***************************************************************************)
(* pframe_dirty, pframe_clean and the page daemon                          *)
(***************************************************************************)

\* dirtypage has returned: unpin, and map the page for a write fault.
LEMMA DirtyDoneStep ==
  ASSUME PframeInv, NEW t \in Threads, DirtyDone(t)
  PROVE  PframeInv'
<1> USE PframeConstants DEF PframeInv
<1> DEFINE f == pf[t]
           r == req[t]
<1>1. /\ fault = "none" /\ pc[t] = "dirty" /\ wait' = Woken(f) /\ busy' = busy \ {f}
      /\ dirty' = dirty \cup {f} \/ dirty' = dirty
      /\ Unpin(t)
      /\ pt' = IF r.op = "kwrite" THEN pt
               ELSE [pt EXCEPT ![t][r.page] = [frame |-> f, write |-> TRUE]]
      /\ pc' = [pc EXCEPT ![t] = "user"]
      /\ req' = [req EXCEPT ![t] = NoReq] /\ pf' = [pf EXCEPT ![t] = Null]
      /\ UNCHANGED <<pf_page, contents, disk, written, fault>>
  BY Zenon DEF DirtyDone, At, Go, Forget
<1>2. t \in Clients /\ t # Idle /\ t # Pageoutd
  BY <1>1, FillersAreClients, Zenon
<1>3. /\ f \in Frames /\ WorksOn(t, f) /\ r.page \in Pages /\ pf_page[f] = r.page
      /\ r.op \in {"fault_w", "kwrite"}
  BY <1>1, <1>2, Zenon DEF HoldsOK, WorksOn, RequestsOK
<1>4. f \in busy /\ f \in InUse /\ InUse' = InUse
  BY <1>1, <1>2, <1>3, Zenon DEF BusyOwned, InUse
<1>5. r.op = "fault_w" => Pins(t, f) /\ pf_pincount[f] = 1 /\ f \notin Range(alloc_list)
  BY <1>1, <1>2, <1>3 DEF Pins, PinsOK, FramesListed
<1>6. /\ alloc_list' \in Seq(Frames) /\ IsInjective(alloc_list')
      /\ \A g \in Frames :
           /\ pf_pincount'[g] = IF g = f /\ r.op = "fault_w" THEN 0 ELSE pf_pincount[g]
           /\ g \in Range(alloc_list') <=>
                g \in Range(alloc_list) \/ (g = f /\ r.op = "fault_w")
           /\ g \in pinned_list' <=> g \in pinned_list /\ ~(g = f /\ r.op = "fault_w")
      /\ pf_pincount' \in [Frames -> Nat] /\ pinned_list' \subseteq Frames
  <2>1. /\ alloc_list \in Seq(Frames) /\ IsInjective(alloc_list)
        /\ pf_pincount \in [Frames -> Nat] /\ pinned_list \subseteq Frames
    BY Zenon DEF TypeOK, FramesListed
  <2>2. CASE r.op = "kwrite"
    BY <1>1, <2>1, <2>2, Zenon DEF Unpin
  <2>3. CASE r.op = "fault_w"
    <3>1. /\ pf_pincount' = [pf_pincount EXCEPT ![f] = @ - 1]
          /\ pinned_list' = pinned_list \ {f} /\ alloc_list' = Append(alloc_list, f)
      BY <1>1, <1>5, <2>3, Zenon DEF Unpin
    <3>2. /\ alloc_list' \in Seq(Frames) /\ IsInjective(alloc_list')
          /\ Range(alloc_list') = Range(alloc_list) \cup {f}
      BY <1>3, <1>5, <2>1, <2>3, <3>1, AppendList, Zenon
    <3> HIDE DEF f, r
    <3>3. pf_pincount' = [pf_pincount EXCEPT ![f] = 0]
      <4>1. pf_pincount[f] - 1 = 0
        BY <1>5, <2>3
      <4> QED
        BY <3>1, <4>1, Zenon
    <3>4. pf_pincount' \in [Frames -> Nat] /\ pinned_list' \subseteq Frames
      <4>1. pinned_list' \subseteq Frames
        BY <2>1, <3>1, Zenon
      <4>2. pf_pincount' \in [Frames -> Nat]
        BY <2>1, <3>3, Zenon
      <4> QED
        BY <4>1, <4>2, Zenon
    <3> QED
      BY <2>1, <2>3, <3>1, <3>2, <3>3, <3>4, Zenon
  <2> QED
    BY <1>3, <2>2, <2>3, Zenon
<1> HIDE DEF f, r
<1>7. /\ pt' \in [Clients -> [Pages -> [frame : Frames \cup {Null}, write : BOOLEAN]]]
      /\ \A u \in Clients, q \in Pages :
           \/ pt'[u][q] = pt[u][q]
           \/ /\ u = t /\ q = r.page /\ r.op = "fault_w"
              /\ pt'[u][q] = [frame |-> f, write |-> TRUE]
  <2> DEFINE m == [frame |-> f, write |-> TRUE]
  <2>1. m \in [frame : Frames \cup {Null}, write : BOOLEAN]
    BY <1>3, Zenon
  <2>2. CASE r.op = "kwrite"
    BY <1>1, <2>2, Zenon DEF TypeOK
  <2>3. CASE r.op = "fault_w"
    <3>1. pt' = [pt EXCEPT ![t][r.page] = m]
      BY <1>1, <2>3, Zenon DEF m
    <3>2. t \in Clients /\ r.page \in Pages
      BY <1>2, <1>3, Zenon
    <3>3. pt' \in [Clients -> [Pages -> [frame : Frames \cup {Null}, write : BOOLEAN]]]
      BY <2>1, <3>1, <3>2, PtUpdate, Zenon
    <3>4. \A u \in Clients, q \in Pages :
            pt'[u][q] = pt[u][q] \/ (u = t /\ q = r.page /\ pt'[u][q] = m)
      BY <2>1, <3>1, <3>2, PtUpdate
    <3> QED
      BY <2>3, <3>3, <3>4, Zenon
  <2> QED
    BY <1>3, <2>2, <2>3, Zenon
<1>8. TypeOK'
  <2>1. wait' \in [Threads -> Frames \cup {Null}]
    BY <1>1, WokenType, Zenon
  <2>2. /\ req' \in [Threads -> ReqType] /\ pf' \in [Threads -> Frames \cup {Null}]
        /\ pc' \in [Threads -> Places]
    BY <1>1, Zenon DEF TypeOK, NoReq, ReqType, Places
  <2>3. dirty' \subseteq Frames /\ busy' \subseteq Frames
    BY <1>1, <1>3, Zenon DEF TypeOK
  <2> QED
    BY <1>1, <1>6, <1>7, <2>1, <2>2, <2>3, Zenon DEF TypeOK, ReqType, Places
<1>9. PlacesOK' /\ HoldsOK'
  <2>1. /\ pc'[t] = "user"
        /\ \A u \in Threads \ {t} : pc'[u] = pc[u] /\ pf'[u] = pf[u]
    BY <1>1, Zenon DEF TypeOK
  <2>2. PlacesOK'
    BY <1>1, <1>2, <2>1, Zenon DEF PlacesOK, Threads
  <2> QED
    BY <2>1, <2>2, Zenon DEF HoldsOK
<1>10. \A u \in Threads, g \in Frames : WorksOn(u, g)' <=> WorksOn(u, g) /\ u # t
  BY <1>1, Zenon DEF WorksOn, TypeOK
<1>11. /\ \A u \in Threads : WorksOn(u, f) => u = t
       /\ \A g \in Frames : WorksOn(t, g) => g = f
  BY <1>3, Zenon DEF BusyOwned, WorksOn
<1>12. BusyOwned'
  <2>1. busy' = busy \ {f} /\ busy' \subseteq InUse'
    BY <1>1, <1>4, Zenon DEF BusyOwned
  <2> QED
    BY <1>3, <1>10, <1>11, <2>1, BusyRemove, Zenon
<1>13. \A g : Filling(g)' <=> Filling(g)
  BY <1>1, Zenon DEF Filling, TypeOK
<1>14. FilledOK'
  BY <1>1, <1>4, <1>13, Zenon DEF FilledOK
<1>15. MapsOK'
  <2>1. pc'[t] = "user" /\ \A u \in Clients \ {t} : pc'[u] = pc[u]
    BY <1>1, <1>2, Zenon DEF TypeOK, Threads
  <2>2. ~Filling(f)
    BY <1>1, <1>11, Zenon DEF Filling, WorksOn
  <2>3. \A u \in Clients, q \in Pages :
          \/ pt'[u][q] = pt[u][q]
          \/ u = t /\ q = r.page /\ pt'[u][q].frame = f
    BY <1>7, SMTT(30)
  <2> QED
    BY <1>1, <1>3, <1>13, <2>1, <2>2, <2>3, SMTT(30) DEF MapsOK
<1>16. RequestsOK'
  <2>1. \A u \in Clients \ {t} : pc'[u] = pc[u] /\ pf'[u] = pf[u] /\ req'[u] = req[u]
    BY <1>1, Zenon DEF TypeOK, Threads
  <2>2. pc'[t] = "user"
    BY <1>1, Zenon DEF TypeOK
  <2>3. \A u \in Clients \ {t} : pc[u] \in {"fill", "dirty"} => pf[u] \in Frames \ {f}
    BY <1>11, Zenon DEF HoldsOK, WorksOn, Threads
  <2> QED
    BY <1>1, <1>6, <2>1, <2>2, <2>3 DEF RequestsOK
<1>17. PinsOK'
  <2>1. \A u \in Clients, g \in Frames : Pins(u, g)' <=> Pins(u, g) /\ u # t
    BY <1>1, Zenon DEF Pins, TypeOK, Threads
  <2>2. \A u \in Clients : Pins(u, f) => u = t
    BY <1>11, Zenon DEF Pins, WorksOn, Threads
  <2>3. \A g \in Frames : Pins(t, g) <=> g = f /\ r.op = "fault_w"
    BY <1>1, Zenon DEF Pins, f, r
  <2> QED
    BY <1>6, <2>1, <2>2, <2>3 DEF PinsOK
<1>18. FramesListed'
  <2>1. \A g \in Frames : pf_pincount[g] \in Nat
    BY Zenon DEF TypeOK
  <2>2. \A g \in Frames :
          /\ g \in Range(alloc_list') <=> (g \in InUse /\ pf_pincount'[g] = 0)
          /\ g \in pinned_list' <=> (g \in InUse /\ pf_pincount'[g] > 0)
    BY <1>4, <1>6, <2>1 DEF FramesListed
  <2> QED
    BY <1>1, <1>4, <1>6, <2>2, Zenon DEF FramesListed
<1> QED
  BY <1>1, <1>4, <1>8, <1>9, <1>12, <1>14, <1>15, <1>16, <1>17, <1>18, Zenon DEF NoKassert

\* pframe_clean up to cleanpage: the page is clean, unmapped and busy.
LEMMA CleanStep ==
  ASSUME PframeInv, NEW t \in Threads, NEW f \in Range(alloc_list), NEW place,
         f \notin busy, f \in dirty, pframe_clean(t, f, place),
         \/ pc[t] = "sync" /\ place = "clean"
         \/ pc[t] = "pageout" /\ place = "pclean"
  PROVE  PframeInv'
<1> USE PframeConstants DEF PframeInv
<1>1. f \in Frames /\ f \in InUse /\ pf_pincount[f] = 0
  BY Zenon DEF TypeOK, FramesListed, InUse
<1>2. /\ fault' = "none" /\ dirty' = dirty \ {f} /\ pt' = RemovedFromPts(f)
      /\ busy' = busy \cup {f} /\ pf' = [pf EXCEPT ![t] = f]
      /\ pc' = [pc EXCEPT ![t] = place]
      /\ UNCHANGED <<pf_page, pf_pincount, alloc_list, pinned_list, contents,
                     disk, req, wait, written, InUse>>
  BY <1>1, Zenon DEF pframe_clean, KASSERT, Go, InUse
<1>3. /\ pt' \in [Clients -> [Pages -> [frame : Frames \cup {Null}, write : BOOLEAN]]]
      /\ \A u \in Clients, q \in Pages : pt'[u][q] = pt[u][q] \/ pt'[u][q] = NoMap
  BY <1>1, <1>2, Unmapped, Zenon
<1>4. /\ pc'[t] = place /\ pf'[t] = f
      /\ \A u \in Threads \ {t} : pc'[u] = pc[u] /\ pf'[u] = pf[u]
  BY <1>2, Zenon DEF TypeOK
<1>5. TypeOK'
  <2>1. pc' \in [Threads -> Places] /\ pf' \in [Threads -> Frames \cup {Null}]
    BY <1>1, <1>2, Zenon DEF TypeOK, Places
  <2> QED
    BY <1>1, <1>2, <1>3, <2>1, Zenon DEF TypeOK, Places
<1>6. PlacesOK' /\ HoldsOK'
  BY <1>1, <1>4, Zenon DEF PlacesOK, HoldsOK, Threads
<1>7. \A u \in Threads, g \in Frames :
        WorksOn(u, g)' <=> IF u = t THEN g = f ELSE WorksOn(u, g)
  BY <1>4, Zenon DEF WorksOn
<1>8. /\ \A u \in Threads : ~WorksOn(u, f)
      /\ \A g \in Frames : ~WorksOn(t, g)
  BY <1>1, Zenon DEF BusyOwned, WorksOn
<1>9. BusyOwned'
  <2>1. busy' = busy \cup {f} /\ busy' \subseteq InUse'
    BY <1>1, <1>2, Zenon DEF BusyOwned
  <2> QED
    <3>1. /\ \A u \in Threads : WorksOn(u, f) => u = t
          /\ \A g \in Frames : WorksOn(t, g) => g = f
          /\ BusyOwned
      BY <1>8, Zenon
    <3>2. f \in Frames
      BY <1>1, Zenon
    <3>3. \A u \in Threads, g \in Frames :
            WorksOn(u, g)' <=> IF u = t THEN g = f ELSE WorksOn(u, g)
      BY <1>7, Zenon
    <3> HIDE DEF PframeInv
    <3> QED
      BY <2>1, <3>1, <3>2, <3>3, BusyAdd
<1>10. \A g : Filling(g)' <=> Filling(g)
  BY <1>4, Zenon DEF Filling
<1>11. FilledOK'
  BY <1>2, <1>10, Zenon DEF FilledOK
<1>12. MapsOK'
  <2>1. \A u \in Clients : pc'[u] = "gone" => pc[u] = "gone"
    BY <1>4, Zenon DEF Threads
  <2>2. pf_page' = pf_page
    BY <1>2, Zenon
  <2> QED
    BY <1>3, <1>10, <2>1, <2>2, MapsKept, Zenon
<1>13. RequestsOK'
  <2>1. \A u \in Clients : /\ pc'[u] \in {"get", "fill", "dirty"} => u # t
                           /\ u # t => pc'[u] = pc[u] /\ pf'[u] = pf[u]
    BY <1>4, Zenon DEF Threads
  <2>2. pf_page' = pf_page /\ req' = req /\ pf_pincount' = pf_pincount /\ dirty' \subseteq dirty
    BY <1>2, Zenon
  <2> QED
    BY <2>1, <2>2, ZenonT(40) DEF RequestsOK
<1>14. PinsOK'
  <2>1. \A u \in Clients, g \in Frames : Pins(u, g)' <=> Pins(u, g)
    BY <1>2, <1>4, Zenon DEF Pins, Threads
  <2> QED
    BY <1>2, <2>1, Zenon DEF PinsOK
<1>15. FramesListed' /\ (dirty \subseteq InUse)' /\ NoKassert'
  BY <1>2, Zenon DEF FramesListed, NoKassert
<1> QED
  BY <1>5, <1>6, <1>9, <1>11, <1>12, <1>13, <1>14, <1>15, Zenon
=============================================================================
