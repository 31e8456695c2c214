---------------------------- MODULE PframeProofs ----------------------------
(***************************************************************************)
(* The page cache's properties for any sets of pages, frames, values and   *)
(* processes: the remaining steps (the end of cleaning, pageoutd's         *)
(* reclaiming, exit and shutdown) preserve PframeInv too, so it is an      *)
(* invariant, and, while pframe_dirty does not fail, so is DataOK.         *)
(***************************************************************************)
EXTENDS PframeStepProofs

\* cleanpage has returned, whether it wrote the page or failed.
LEMMA CleanDoneStep ==
  ASSUME PframeInv, NEW t \in Threads, NEW from, NEW to, CleanDone(t, from, to),
         \/ from = "clean" /\ to = "sync"
         \/ from = "pclean" /\ to = "pageout"
  PROVE  PframeInv'
<1> USE PframeConstants DEF PframeInv
<1> DEFINE f == pf[t]
<1>1. /\ fault = "none" /\ pc[t] = from /\ wait' = Woken(f) /\ busy' = busy \ {f}
      /\ \/ disk' = [disk EXCEPT ![pf_page[f]] = contents[f]] /\ dirty' = dirty
         \/ disk' = disk /\ dirty' = dirty \cup {f}
      /\ pc' = [pc EXCEPT ![t] = to]
      /\ req' = [req EXCEPT ![t] = NoReq] /\ pf' = [pf EXCEPT ![t] = Null]
      /\ UNCHANGED <<pf_page, pf_pincount, alloc_list, pinned_list, contents, pt,
                     written, fault, InUse>>
  BY Zenon DEF CleanDone, CleanFailed, At, Go, Forget, InUse
<1>2. f \in Frames /\ WorksOn(t, f)
  BY <1>1, Zenon DEF HoldsOK, WorksOn
<1>3. f \in busy /\ f \in InUse
  BY <1>2, Zenon DEF BusyOwned
<1> HIDE DEF f
<1>4. /\ pc'[t] = to /\ pf'[t] = Null
      /\ \A u \in Threads \ {t} : pc'[u] = pc[u] /\ pf'[u] = pf[u] /\ req'[u] = req[u]
  BY <1>1, Zenon DEF TypeOK
<1>5. \A u \in Threads, g \in Frames : WorksOn(u, g)' <=> WorksOn(u, g) /\ u # t
  BY <1>4, Zenon DEF WorksOn
<1>6. /\ \A u \in Threads : WorksOn(u, f) => u = t
      /\ \A g \in Frames : WorksOn(t, g) => g = f
  BY <1>2, Zenon DEF BusyOwned, WorksOn
<1>7. TypeOK'
  <2>1. wait' \in [Threads -> Frames \cup {Null}]
    BY <1>1, WokenType, Zenon
  <2>2. /\ req' \in [Threads -> ReqType] /\ pf' \in [Threads -> Frames \cup {Null}]
        /\ pc' \in [Threads -> Places]
    BY <1>1, Zenon DEF TypeOK, NoReq, ReqType, Places
  <2>3. disk' \in [Pages -> Values]
    <3>1. ~Filling(f)
      BY <1>1, <1>6, Zenon DEF Filling, WorksOn
    <3>2. contents[f] \in Values /\ disk \in [Pages -> Values]
      BY <1>3, <3>1, Zenon DEF FilledOK, TypeOK
    <3> QED
      BY <1>1, <3>2, Zenon
  <2>4. dirty' \subseteq Frames /\ busy' \subseteq Frames
    BY <1>1, <1>2, Zenon DEF TypeOK
  <2> QED
    BY <1>1, <2>1, <2>2, <2>3, <2>4, Zenon DEF TypeOK, ReqType, Places
<1>8. PlacesOK' /\ HoldsOK'
  BY <1>1, <1>4, Zenon DEF PlacesOK, HoldsOK, Threads
<1>9. BusyOwned'
  <2>1. busy' = busy \ {f} /\ busy' \subseteq InUse'
    BY <1>1, Zenon DEF BusyOwned
  <2> QED
    BY <1>2, <1>5, <1>6, <2>1, BusyRemove, Zenon
<1>10. \A g : Filling(g)' <=> Filling(g)
  BY <1>1, <1>4, Zenon DEF Filling
<1>11. FilledOK' /\ FramesListed' /\ (dirty \subseteq InUse)' /\ NoKassert'
  BY <1>1, <1>3, <1>10, Zenon DEF FilledOK, FramesListed, NoKassert
<1>12. MapsOK'
  <2>1. \A u \in Clients : pc'[u] = "gone" => pc[u] = "gone"
    BY <1>4, Zenon DEF Threads
  <2>2. pf_page' = pf_page /\ pt' = pt
    BY <1>1, Zenon
  <2> QED
    BY <1>10, <2>1, <2>2, MapsKept, Zenon
<1>13. RequestsOK'
  <2>1. \A u \in Clients :
          /\ pc'[u] \in {"get", "fill", "dirty"} => u # t
          /\ u # t => pc'[u] = pc[u] /\ pf'[u] = pf[u] /\ req'[u] = req[u]
    BY <1>4, Zenon DEF Threads
  <2>2. \A u \in Clients \ {t} : pc[u] = "fill" => pf[u] # f
    BY <1>6, Zenon DEF WorksOn, Threads
  <2> QED
    BY <1>1, <2>1, <2>2 DEF RequestsOK
<1>14. PinsOK'
  <2>1. \A u \in Clients, g \in Frames : Pins(u, g)' <=> Pins(u, g)
    BY <1>1, <1>4, Zenon DEF Pins, Threads
  <2> QED
    BY <1>1, <2>1, Zenon DEF PinsOK
<1> QED
  BY <1>7, <1>8, <1>9, <1>11, <1>12, <1>13, <1>14, Zenon

\* pageoutd_run reclaims a page that is clean and not busy.
LEMMA ReclaimStep ==
  ASSUME PframeInv, NEW f \in Range(alloc_list), f \notin busy, f \notin dirty,
         KASSERT(pf_pincount[f] = 0 /\ f \notin busy), pframe_free(f),
         UNCHANGED <<busy, dirty, pf_pincount, pinned_list, disk, threadVars, written>>
  PROVE  PframeInv'
<1> USE PframeConstants DEF PframeInv, threadVars
<1>1. f \in Frames /\ f \in InUse /\ pf_pincount[f] = 0
  <2>1. f \in Frames
    BY DEF TypeOK, Range
  <2> QED
    BY <2>1, Zenon DEF FramesListed
<1>2. fault' = "none"
  BY <1>1, Zenon DEF KASSERT
<1>3. /\ InUse' = InUse \ {f} /\ FramesListed'
      /\ pf_page' \in [Frames -> Pages \cup {Null}]
      /\ contents' \in [Frames -> Values \cup {Junk}]
      /\ alloc_list' \in Seq(Frames)
      /\ \A g \in Frames \ {f} : pf_page'[g] = pf_page[g] /\ contents'[g] = contents[g]
      /\ pt' \in [Clients -> [Pages -> [frame : Frames \cup {Null}, write : BOOLEAN]]]
      /\ \A u \in Clients, q \in Pages :
           pt'[u][q] = IF pt[u][q].frame = f THEN NoMap ELSE pt[u][q]
  BY <1>1, FreeFrame, Zenon
<1>4. TypeOK'
  BY <1>2, <1>3, Zenon DEF TypeOK
<1>5. PlacesOK' /\ HoldsOK' /\ PinsOK' /\ (dirty \subseteq InUse)' /\ NoKassert'
  BY <1>2, <1>3 DEF PlacesOK, HoldsOK, PinsOK, Pins, NoKassert
<1>6. BusyOwned'
  BY <1>3 DEF BusyOwned, WorksOn
<1>7. \A g : Filling(g)' <=> Filling(g)
  BY Zenon DEF Filling
<1>8. FilledOK'
  BY <1>3, <1>7, Zenon DEF FilledOK, InUse
<1>9. MapsOK'
  <2>1. pc' = pc
    BY <1>3, Zenon DEF threadVars
  <2>2. \A u \in Clients, q \in Pages : pt[u][q].frame \in Frames \cup {Null}
    BY DEF TypeOK
  <2>3. \A u \in Clients, q \in Pages :
          \/ pt'[u][q] = NoMap
          \/ /\ pt'[u][q] = pt[u][q]
             /\ pt[u][q].frame # Null =>
                  pf_page'[pt[u][q].frame] = pf_page[pt[u][q].frame]
    BY <1>3, <2>2, ZenonT(40)
  <2> QED
    BY <1>7, <2>1, <2>3, MapsKept, Zenon
<1>10. RequestsOK'
  <2>1. \A u \in Clients : pc[u] \in {"fill", "dirty"} => pf[u] \in Frames \ {f}
    BY <1>1, Zenon DEF HoldsOK, BusyOwned, WorksOn, Threads
  <2> QED
    BY <1>3, <2>1, Zenon DEF RequestsOK
<1> QED
  BY <1>3, <1>4, <1>5, <1>6, <1>8, <1>9, <1>10, Zenon

(***************************************************************************)
(* Steps that leave the cache alone, and shutdown                          *)
(***************************************************************************)

\* Threads go from one place where they have no page to another, or to sleep; a
\* process that goes has no page mapped.
LEMMA MoveStep ==
  ASSUME PframeInv, UNCHANGED <<frameVars, disk, req, pf, written>>, PlacesOK',
         fault' \in {"none", "null", "wild"},
         wait' \in [Threads -> Frames \cup {Null}],
         pc' \in [Threads -> Places],
         \A t \in Threads :
           \/ pc'[t] = pc[t]
           \/ /\ pc[t] \notin {"fill", "dirty", "clean", "pclean"}
              /\ pc'[t] \notin {"get", "fill", "dirty", "clean", "pclean"},
         pt' \in [Clients -> [Pages -> [frame : Frames \cup {Null}, write : BOOLEAN]]],
         \A t \in Clients, p \in Pages :
           \/ pt'[t][p] = NoMap
           \/ pt'[t][p] = pt[t][p] /\ (pc'[t] = "gone" => pc[t] = "gone")
  PROVE  PframeInv'
<1> USE DEF PframeInv, frameVars
<1>1. TypeOK'
  BY Zenon DEF TypeOK, Places
<1>2. FramesListed' /\ (dirty \subseteq InUse)' /\ NoKassert' /\ InUse' = InUse
  BY Zenon DEF FramesListed, InUse, NoKassert
<1>3. HoldsOK' /\ RequestsOK'
  BY Zenon DEF HoldsOK, RequestsOK, Threads
<1>4. PinsOK'
  <2>1. \A u \in Clients, g \in Frames : Pins(u, g)' <=> Pins(u, g)
    BY Zenon DEF Pins, Threads
  <2> QED
    BY <2>1, Zenon DEF PinsOK
<1>5. BusyOwned'
  <2>1. \A u \in Threads, g \in Frames : WorksOn(u, g)' <=> WorksOn(u, g)
    BY Zenon DEF WorksOn
  <2> QED
    BY <1>2, <2>1, Zenon DEF BusyOwned
<1>6. \A g : Filling(g)' <=> Filling(g)
  BY Zenon DEF Filling
<1>7. FilledOK'
  BY <1>2, <1>6, Zenon DEF FilledOK
<1>8. MapsOK'
  <2>1. NoMap.frame = Null
    BY Zenon DEF NoMap
  <2> QED
    BY <1>6, <2>1 DEF MapsOK
<1> QED
  BY <1>1, <1>2, <1>3, <1>4, <1>5, <1>7, <1>8, Zenon

\* Sleeping on a busy page.
LEMMA WaitForStep ==
  ASSUME PframeInv, fault = "none", NEW t \in Threads, NEW f \in Frames, WaitFor(t, f)
  PROVE  PframeInv'
<1> USE DEF PframeInv, WaitFor
<1>1. /\ wait' \in [Threads -> Frames \cup {Null}] /\ pc' \in [Threads -> Places]
      /\ pt' \in [Clients -> [Pages -> [frame : Frames \cup {Null}, write : BOOLEAN]]]
  BY Zenon DEF TypeOK, Places
<1>2. PlacesOK'
  BY Zenon DEF PlacesOK
<1> QED
  BY <1>1, <1>2, MoveStep, Zenon

\* SYS_sync, the ends of the loops, and the order of shutdown.
LEMMA MoveSteps ==
  ASSUME PframeInv, NEW t \in Threads,
         \/ t \in Clients /\ SYS_sync(t)
         \/ SyncEnd(t) \/ PageoutEnd \/ ShutdownStart \/ ShutdownSync
  PROVE  PframeInv'
<1> USE PframeConstants DEF PframeInv
<1>1. /\ UNCHANGED <<frameVars, disk, pt, req, pf, wait, written>>
      /\ fault = "none"
  BY Zenon DEF SYS_sync, SyncEnd, PageoutEnd, ShutdownStart, ShutdownSync, At
<1>2. /\ wait' \in [Threads -> Frames \cup {Null}]
      /\ pt' \in [Clients -> [Pages -> [frame : Frames \cup {Null}, write : BOOLEAN]]]
  BY <1>1, Zenon DEF TypeOK
<1>3. CASE t \in Clients /\ SYS_sync(t)
  <2>1. pc[t] = "user" /\ pc' = [pc EXCEPT ![t] = "sync"] /\ fault' = "none"
    BY <1>3, Zenon DEF SYS_sync, At, Go
  <2>2. PlacesOK' /\ pc' \in [Threads -> Places]
    BY <1>3, <2>1, Zenon DEF PlacesOK, TypeOK, Places, Threads
  <2>3. \A u \in Threads : pc'[u] = IF u = t THEN "sync" ELSE pc[u]
    BY <2>1, Zenon DEF TypeOK
  <2> QED
    BY <1>1, <1>2, <2>1, <2>2, <2>3, MoveStep, Zenon DEF Threads
<1>4. CASE SyncEnd(t)
  <2>1. pc[t] = "sync" /\ t # Idle /\ pc' = [pc EXCEPT ![t] = "user"] /\ fault' = "none"
    BY <1>4, Zenon DEF SyncEnd, At, Go
  <2>2. PlacesOK' /\ pc' \in [Threads -> Places]
    BY <2>1, Zenon DEF PlacesOK, TypeOK, Places, Threads
  <2>3. \A u \in Threads : pc'[u] = IF u = t THEN "user" ELSE pc[u]
    BY <2>1, Zenon DEF TypeOK
  <2> QED
    BY <1>1, <1>2, <2>1, <2>2, <2>3, MoveStep, Zenon DEF Threads
<1>5. CASE PageoutEnd
  <2>1. /\ pc[Pageoutd] = "pageout" /\ fault' = "none"
        /\ \/ pc' = [pc EXCEPT ![Pageoutd] = "gone"]
           \/ pc' = [pc EXCEPT ![Pageoutd] = "asleep"]
    BY <1>5, Zenon DEF PageoutEnd, At, Go
  <2>2. /\ pc'[Pageoutd] \in {"gone", "asleep"}
        /\ \A u \in Threads \ {Pageoutd} : pc'[u] = pc[u]
    BY <2>1, Zenon DEF TypeOK, Threads
  <2>3. PlacesOK' /\ pc' \in [Threads -> Places]
    <3>1. pc' \in [Threads -> Places]
      <4>1. pc \in [Threads -> Places] /\ "gone" \in Places /\ "asleep" \in Places
        BY Zenon DEF TypeOK, Places
      <4> QED
        BY <2>1, <4>1, Zenon
    <3> QED
      BY <2>1, <2>2, <3>1, Zenon DEF PlacesOK, Threads
  <2> QED
    BY <1>1, <1>2, <2>1, <2>2, <2>3, MoveStep, Zenon DEF Threads
<1>6. CASE ShutdownStart
  <2>1. /\ pc[Idle] = "wait" /\ fault' = "none"
        /\ \A u \in Clients : pc[u] = "gone"
        /\ pc' = [pc EXCEPT ![Idle] = "reap",
                            ![Pageoutd] = IF @ = "asleep" THEN "gone" ELSE @]
    BY <1>1, <1>6, Zenon DEF ShutdownStart, At
  <2>2. /\ pc'[Idle] = "reap"
        /\ pc'[Pageoutd] = pc[Pageoutd] \/ (pc[Pageoutd] = "asleep" /\ pc'[Pageoutd] = "gone")
        /\ \A u \in Clients : pc'[u] = pc[u]
    BY <2>1, Zenon DEF TypeOK, Threads
  <2>3. PlacesOK' /\ pc' \in [Threads -> Places]
    <3>1. pc' \in [Threads -> Places]
      BY <2>1, Zenon DEF TypeOK, Places
    <3> QED
      BY <2>1, <2>2, <3>1, Zenon DEF PlacesOK
  <2> QED
    BY <1>1, <1>2, <2>1, <2>2, <2>3, MoveStep, Zenon DEF Threads
<1>7. CASE ShutdownSync
  <2>1. pc[Idle] = "reap" /\ pc' = [pc EXCEPT ![Idle] = "sync"] /\ KASSERT(pinned_list = {})
    BY <1>7, Zenon DEF ShutdownSync, At, Go
  <2>2. pinned_list = {}
    <3>1. \A u \in Clients, f \in Frames : ~Pins(u, f)
      BY <2>1, Zenon DEF PlacesOK, Pins
    <3> QED
      BY <3>1, SMTT(30) DEF PinsOK, FramesListed, TypeOK
  <2>3. fault' = "none"
    BY <2>1, <2>2, Zenon DEF KASSERT
  <2>4. PlacesOK' /\ pc' \in [Threads -> Places]
    BY <2>1, Zenon DEF PlacesOK, TypeOK, Places, Threads
  <2>5. \A u \in Threads : pc'[u] = IF u = Idle THEN "sync" ELSE pc[u]
    BY <2>1, Zenon DEF TypeOK
  <2> QED
    BY <1>1, <1>2, <2>1, <2>3, <2>4, <2>5, MoveStep, Zenon DEF Threads
<1> QED
  BY <1>3, <1>4, <1>5, <1>6, <1>7, Zenon

\* A process exits.
LEMMA ExitStep ==
  ASSUME PframeInv, NEW t \in Clients, Exit(t)
  PROVE  PframeInv'
<1> USE PframeConstants DEF PframeInv
<1>1. /\ fault = "none" /\ pc[t] \in {"user", "exit"} /\ pc' = [pc EXCEPT ![t] = "gone"]
      /\ pt' = [pt EXCEPT ![t] = [p \in Pages |-> NoMap]]
      /\ UNCHANGED <<frameVars, disk, req, pf, wait, written, fault>>
  BY Zenon DEF Exit, At, Go
<1>2. \A u \in Threads : pc'[u] = IF u = t THEN "gone" ELSE pc[u]
  BY <1>1, Zenon DEF TypeOK
<1>3. PlacesOK' /\ pc' \in [Threads -> Places] /\ wait' \in [Threads -> Frames \cup {Null}]
  BY <1>1, Zenon DEF PlacesOK, TypeOK, Places, Threads
<1>4. /\ pt' \in [Clients -> [Pages -> [frame : Frames \cup {Null}, write : BOOLEAN]]]
      /\ \A u \in Clients, p \in Pages : pt'[u][p] = IF u = t THEN NoMap ELSE pt[u][p]
  <2> DEFINE T == [Pages -> [frame : Frames \cup {Null}, write : BOOLEAN]]
             row == [p \in Pages |-> NoMap]
  <2>1. row \in T /\ pt \in [Clients -> T] /\ \A p \in Pages : row[p] = NoMap
    BY Zenon DEF NoMap, TypeOK
  <2>2. pt' = [pt EXCEPT ![t] = row]
    BY <1>1, Zenon
  <2> HIDE DEF T, row
  <2>3. pt' \in [Clients -> T] /\ \A u \in Clients : pt'[u] = IF u = t THEN row ELSE pt[u]
    BY <2>1, <2>2, Zenon
  <2> QED
    BY <2>1, <2>3, Zenon DEF T
<1> QED
  BY <1>1, <1>2, <1>3, <1>4, MoveStep, Zenon DEF Threads

\* A store to a mapped page.
LEMMA StoreStep ==
  ASSUME PframeInv, NEW t \in Clients, NEW p \in Pages, NEW v \in Values, UserStore(t, p, v)
  PROVE  PframeInv'
<1> USE PframeConstants DEF PframeInv
<1>1. /\ contents' = [contents EXCEPT ![pt[t][p].frame] = v]
      /\ written' = [written EXCEPT ![p] = v]
      /\ UNCHANGED <<pf_page, busy, dirty, pf_pincount, alloc_list, pinned_list,
                     disk, pt, pc, req, pf, wait, fault, InUse>>
  BY Zenon DEF UserStore, threadVars, InUse
<1>2. TypeOK' /\ \A f \in Frames : contents'[f] = contents[f] \/ contents'[f] = v
  BY <1>1, Zenon DEF TypeOK
<1>3. PlacesOK' /\ HoldsOK' /\ RequestsOK' /\ PinsOK'
  BY <1>1, ZenonT(40) DEF PlacesOK, HoldsOK, RequestsOK, PinsOK, Pins
<1>4. FramesListed' /\ (dirty \subseteq InUse)' /\ NoKassert'
  BY <1>1, Zenon DEF FramesListed, NoKassert
<1>5. BusyOwned' /\ MapsOK'
  BY <1>1 DEF BusyOwned, WorksOn, MapsOK, Filling
<1>6. FilledOK'
  BY <1>1, <1>2, Zenon DEF FilledOK, Filling, InUse
<1> QED
  BY <1>2, <1>3, <1>4, <1>5, <1>6, Zenon

\* pframe_shutdown frees all pages: the processes are gone, and no page is left.
LEMMA ShutdownEndStep ==
  ASSUME PframeInv, ShutdownEnd
  PROVE  PframeInv'
<1> USE PframeConstants DEF PframeInv
<1>1. /\ fault = "none" /\ pc[Idle] = "sync"
      /\ \A i \in DOMAIN alloc_list : alloc_list[i] \notin busy \cup dirty
      /\ pf_page' = [f \in Frames |-> IF f \in Range(alloc_list) THEN Null ELSE pf_page[f]]
      /\ contents' = [f \in Frames |-> IF f \in Range(alloc_list) THEN Junk ELSE contents[f]]
      /\ alloc_list' = <<>> /\ pc' = [pc EXCEPT ![Idle] = "gone"]
      /\ UNCHANGED <<busy, dirty, pf_pincount, pinned_list, disk, pt,
                     req, pf, wait, written, fault>>
  BY Zenon DEF ShutdownEnd, At, Go
<1>2. \A f \in Range(alloc_list) : f \notin busy \cup dirty
  BY <1>1, Zenon DEF Range
<1>3. InUse' = InUse \ Range(alloc_list)
  BY <1>1, Zenon DEF InUse
<1>4. /\ alloc_list' \in Seq(Frames) /\ IsInjective(alloc_list') /\ Range(alloc_list') = {}
  BY <1>1 DEF IsInjective, Range
<1>5. pc'[Idle] = "gone" /\ \A u \in Threads \ {Idle} : pc'[u] = pc[u]
  BY <1>1, Zenon DEF TypeOK, Threads
<1>6. TypeOK'
  <2>1. pc' \in [Threads -> Places]
    BY <1>1, Zenon DEF TypeOK, Places
  <2>2. /\ pf_page' \in [Frames -> Pages \cup {Null}]
        /\ contents' \in [Frames -> Values \cup {Junk}]
    BY <1>1, Zenon DEF TypeOK
  <2> QED
    BY <1>1, <1>4, <2>1, <2>2, Zenon DEF TypeOK, Places
<1>7. PlacesOK' /\ HoldsOK'
  BY <1>1, <1>5, Zenon DEF PlacesOK, HoldsOK, Threads
<1>8. FramesListed'
  <2>1. \A f \in InUse' : pf_page'[f] = pf_page[f]
    BY <1>1, <1>3, Zenon DEF InUse
  <2>2. \A f \in Frames : f \in InUse' <=> f \in InUse /\ ~(pf_pincount[f] = 0)
    BY <1>3, Zenon DEF FramesListed
  <2>3. \A f \in Frames : pf_pincount[f] \in Nat
    BY Zenon DEF TypeOK
  <2> QED
    BY <1>1, <1>3, <1>4, <2>1, <2>2, <2>3 DEF FramesListed
<1>9. \A u \in Threads, g \in Frames : WorksOn(u, g)' <=> WorksOn(u, g)
  BY <1>1, <1>5, Zenon DEF WorksOn
<1>10. BusyOwned' /\ (dirty \subseteq InUse)' /\ NoKassert'
  BY <1>1, <1>2, <1>3, <1>9, Zenon DEF BusyOwned, NoKassert
<1>11. \A g : Filling(g)' <=> Filling(g)
  BY <1>1, <1>5, Zenon DEF Filling
<1>12. FilledOK'
  BY <1>1, <1>3, <1>11, Zenon DEF FilledOK, InUse
<1>13. MapsOK'
  <2>1. NoMap.frame = Null
    BY Zenon DEF NoMap
  <2>2. \A u \in Clients : pc[u] = "gone"
    BY <1>1, Zenon DEF PlacesOK
  <2>3. \A u \in Clients, q \in Pages : pt[u][q] = NoMap
    BY <2>2 DEF MapsOK
  <2> QED
    BY <1>1, <2>1, <2>3, ZenonT(40) DEF MapsOK
<1>14. RequestsOK' /\ PinsOK'
  <2>1. \A u \in Clients : pc'[u] = "gone" /\ pc[u] = "gone"
    BY <1>1, <1>5, Zenon DEF PlacesOK, Threads
  <2> QED
    BY <1>1, <2>1, Zenon DEF RequestsOK, PinsOK, Pins
<1> QED
  BY <1>6, <1>7, <1>8, <1>10, <1>12, <1>13, <1>14, Zenon

\* A page of the list is a frame.
LEMMA Listed ==
  ASSUME TypeOK, NEW i \in DOMAIN alloc_list
  PROVE  alloc_list[i] \in Frames /\ alloc_list[i] \in Range(alloc_list)
  BY DEF TypeOK, Range

\* pframe_clean_all's loop.
LEMMA SyncStepInv ==
  ASSUME PframeInv, NEW t \in Threads, SyncStep(t)
  PROVE  PframeInv'
<1>1. fault = "none" /\ pc[t] = "sync"
  BY Zenon DEF SyncStep, At
<1>2. PICK i \in DOMAIN alloc_list :
        /\ alloc_list[i] \in busy \cup dirty
        /\ IF alloc_list[i] \in busy THEN WaitFor(t, alloc_list[i])
           ELSE pframe_clean(t, alloc_list[i], "clean")
  BY Zenon DEF SyncStep
<1>3. alloc_list[i] \in Frames /\ alloc_list[i] \in Range(alloc_list)
  BY Listed, Zenon DEF PframeInv
<1> QED
  BY <1>1, <1>2, <1>3, WaitForStep, CleanStep, Zenon

\* pageoutd_run's inner loop.
LEMMA PageoutStepInv ==
  ASSUME PframeInv, PageoutStep
  PROVE  PframeInv'
<1> DEFINE f == Head(alloc_list)
<1>1. fault = "none" /\ pc[Pageoutd] = "pageout" /\ Pageoutd \in Threads
  BY Zenon DEF PageoutStep, At, Threads
<1>2. alloc_list # <<>> /\ alloc_list \in Seq(Frames)
  BY Zenon DEF PageoutStep, PframeInv, TypeOK
<1>3. 1 \in DOMAIN alloc_list /\ f = alloc_list[1]
  BY <1>2
<1>4. f \in Frames /\ f \in Range(alloc_list)
  BY <1>3, Listed, Zenon DEF PframeInv
<1>5. \/ f \in busy /\ WaitFor(Pageoutd, f)
      \/ f \notin busy /\ f \in dirty /\ pframe_clean(Pageoutd, f, "pclean")
      \/ /\ f \notin busy /\ f \notin dirty
         /\ KASSERT(pf_pincount[f] = 0 /\ f \notin busy) /\ pframe_free(f)
         /\ UNCHANGED <<busy, dirty, pf_pincount, pinned_list, disk, threadVars, written>>
  BY Zenon DEF PageoutStep
<1> QED
  BY <1>1, <1>4, <1>5, WaitForStep, CleanStep, ReclaimStep, Zenon

\* What a process may ask for.
LEMMA RequestTypes ==
  /\ \A r \in Requests : r \in ReqType /\ r.page \in Pages
  /\ \A p \in Pages : /\ [op |-> "copy", page |-> p, val |-> Zero] \in ReqType
                      /\ [op |-> "copy", page |-> p, val |-> Zero].page = p
  BY PframeConstants, Zenon DEF Requests, ReqType

\* A request is answered, waits, or starts to fill the page.
LEMMA GetStep ==
  ASSUME PframeInv, fault = "none", NEW t \in Clients, pc[t] \in {"user", "get"},
         NEW r \in ReqType, r.page \in Pages, pframe_get(t, r)
  PROVE  PframeInv'
  BY WaitStep, HitStep, MissStep, Zenon DEF pframe_get

LEMMA ClientStep ==
  ASSUME PframeInv, NEW t \in Clients, Client(t)
  PROVE  PframeInv'
<1>1. CASE At(t, "user") /\ \E r \in Requests : pframe_get(t, r)
  BY <1>1, RequestTypes, GetStep, Zenon DEF At
<1>2. CASE At(t, "get") /\ pframe_get(t, req[t])
  <2>1. req[t] \in ReqType /\ req[t].page \in Pages
    BY <1>2, Zenon DEF PframeInv, RequestsOK, TypeOK, ReqType, At, Threads
  <2> QED
    BY <1>2, <2>1, GetStep, Zenon DEF At
<1>3. CASE \E p \in Pages : shadow_fillpage(t, p)
  <2>1. PICK p \in Pages : shadow_fillpage(t, p)
    BY <1>3, Zenon
  <2>2. CASE \E f \in Resident(p) :
               /\ alloc_list' = Requested(f)
               /\ UNCHANGED <<pf_page, busy, dirty, pf_pincount, pinned_list, contents,
                              disk, pt, threadVars, written, fault>>
    <3>1. Resident(p) \subseteq InUse
      BY PframeConstants, Zenon DEF Resident, InUse
    <3> QED
      BY <2>2, <3>1, CopyStep, Zenon
  <2>3. CASE pframe_get(t, [op |-> "copy", page |-> p, val |-> Zero])
    <3> DEFINE r == [op |-> "copy", page |-> p, val |-> Zero]
    <3>1. r \in ReqType /\ r.page \in Pages
      BY RequestTypes, Zenon
    <3>2. fault = "none" /\ pc[t] = "user"
      BY <2>1, Zenon DEF shadow_fillpage, At
    <3> HIDE DEF r
    <3> QED
      BY <2>3, <3>1, <3>2, GetStep, Zenon DEF r
  <2> QED
    BY <2>1, <2>2, <2>3, Zenon DEF shadow_fillpage
<1>4. CASE \E p \in Pages, v \in Values : UserStore(t, p, v)
  BY <1>4, StoreStep, Zenon
<1>5. CASE SYS_sync(t)
  BY <1>5, MoveSteps, Zenon DEF Threads
<1>6. CASE Exit(t)
  BY <1>6, ExitStep, Zenon
<1> QED
  BY <1>1, <1>2, <1>3, <1>4, <1>5, <1>6, Zenon DEF Client

\* A step that changes nothing.
LEMMA StutterStep ==
  ASSUME PframeInv, UNCHANGED vars
  PROVE  PframeInv'
<1> USE DEF PframeInv, vars, frameVars, threadVars
<1>1. TypeOK' /\ PlacesOK' /\ HoldsOK' /\ RequestsOK' /\ NoKassert'
  BY Zenon DEF TypeOK, PlacesOK, HoldsOK, RequestsOK, NoKassert
<1>2. PinsOK' /\ (dirty \subseteq InUse)' /\ FramesListed'
  BY Zenon DEF PinsOK, Pins, InUse, FramesListed
<1>3. BusyOwned' /\ MapsOK' /\ FilledOK'
  <2>1. /\ InUse' = InUse
        /\ \A u, g : WorksOn(u, g)' <=> WorksOn(u, g)
        /\ \A g : Filling(g)' <=> Filling(g)
    BY Zenon DEF InUse, WorksOn, Filling
  <2>2. BusyOwned'
    BY <2>1, Zenon DEF BusyOwned
  <2>3. MapsOK'
    BY <2>1 DEF MapsOK
  <2>4. FilledOK'
    BY <2>1, Zenon DEF FilledOK
  <2> QED
    BY <2>2, <2>3, <2>4, Zenon
<1> QED
  BY <1>1, <1>2, <1>3, Zenon

\* Every step preserves the invariant.
LEMMA NextInv ==
  ASSUME PframeInv, [Next]_vars
  PROVE  PframeInv'
<1>1. ASSUME NEW t \in Threads, Completes(t)
      PROVE  PframeInv'
  BY <1>1, FillDoneStep, FillFailedStep, DirtyDoneStep, CleanDoneStep, Zenon DEF Completes
<1>2. ASSUME NEW t \in Threads, SyncStep(t) \/ SyncEnd(t)
      PROVE  PframeInv'
  BY <1>2, SyncStepInv, MoveSteps, Zenon
<1>3. ASSUME PageoutEnd \/ ShutdownStart \/ ShutdownSync
      PROVE  PframeInv'
  <2>1. Idle \in Threads
    BY Zenon DEF Threads
  <2> QED
    BY <1>3, <2>1, MoveSteps, Zenon
<1>4. ASSUME PageoutStep \/ ShutdownEnd
      PROVE  PframeInv'
  BY <1>4, PageoutStepInv, ShutdownEndStep, Zenon
<1>5. ASSUME Stopped \/ UNCHANGED vars
      PROVE  PframeInv'
  BY <1>5, StutterStep, Zenon DEF Stopped
<1> QED
  BY <1>1, <1>2, <1>3, <1>4, <1>5, ClientStep, Zenon DEF Next

(***************************************************************************)
(* DataOK: which pages are being filled                                    *)
(***************************************************************************)

LEMMA FillingKept ==
  ASSUME \A u \in Threads : \/ pc'[u] = pc[u] /\ pf'[u] = pf[u]
                            \/ pc[u] # "fill" /\ pc'[u] # "fill"
  PROVE  \A g \in Frames : Filling(g)' <=> Filling(g)
  BY Zenon DEF Filling

\* t is done with f, or has found it filled.
LEMMA FillingEnds ==
  ASSUME NEW t \in Threads, NEW f \in Frames, pc'[t] # "fill",
         \A u \in Threads \ {t} : pc'[u] = pc[u] /\ pf'[u] = pf[u],
         \A u \in Threads : WorksOn(u, f) => u = t,
         \A g \in Frames : WorksOn(t, g) => g = f
  PROVE  \A g \in Frames : Filling(g)' <=> Filling(g) /\ g # f
<1>1. ASSUME NEW g \in Frames, Filling(g)'
      PROVE  Filling(g) /\ g # f
  <2>1. PICK u \in Threads : pc'[u] = "fill" /\ pf'[u] = g
    BY <1>1, Zenon DEF Filling
  <2>2. u # t /\ pc[u] = "fill" /\ pf[u] = g
    BY <2>1, Zenon
  <2> QED
    BY <2>2, Zenon DEF Filling, WorksOn
<1>2. ASSUME NEW g \in Frames, Filling(g), g # f
      PROVE  Filling(g)'
  <2>1. PICK u \in Threads : pc[u] = "fill" /\ pf[u] = g
    BY <1>2, Zenon DEF Filling
  <2>2. u # t
    BY <1>2, <2>1, Zenon DEF WorksOn
  <2> QED
    BY <2>1, <2>2, Zenon DEF Filling
<1> QED
  BY <1>1, <1>2, Zenon

\* Only one thread works on a page, and it on no other.
LEMMA OnlyWorker ==
  ASSUME PframeInv, NEW t \in Threads, NEW f \in Frames,
         WorksOn(t, f) \/ f \notin busy, WorksOn(t, f) \/ \A g \in Frames : ~WorksOn(t, g)
  PROVE  /\ \A u \in Threads : WorksOn(u, f) => u = t
         /\ \A g \in Frames : WorksOn(t, g) => g = f
<1>1. CASE WorksOn(t, f)
  BY <1>1, Zenon DEF PframeInv, BusyOwned, WorksOn
<1>2. CASE f \notin busy /\ \A g \in Frames : ~WorksOn(t, g)
  BY <1>2, Zenon DEF PframeInv, BusyOwned
<1> QED
  BY <1>1, <1>2, Zenon

\* A step that changes no page, and maps none for writing.
LEMMA QuietData ==
  ASSUME DataOK, UNCHANGED <<pf_page, busy, dirty, contents, disk, written>>,
         \A u \in Threads : \/ pc'[u] = pc[u] /\ pf'[u] = pf[u]
                            \/ pc[u] # "fill" /\ pc'[u] # "fill",
         \A u \in Clients, q \in Pages : pt'[u][q].write => pt'[u][q] = pt[u][q]
  PROVE  DataOK'
<1> USE DEF DataOK
<1>1. (\A g \in Frames : Filling(g)' <=> Filling(g)) /\ InUse' = InUse
  BY FillingKept, Zenon DEF InUse
<1>2. WritesFault'
  BY Zenon DEF WritesFault
<1>3. FrameCurrent'
  BY <1>1, Zenon DEF FrameCurrent, InUse
<1>4. DiskCurrent' /\ AbsentCurrent'
  BY <1>1, Zenon DEF DiskCurrent, AbsentCurrent, InUse
<1> QED
  BY <1>2, <1>3, <1>4, Zenon

(***************************************************************************)
(* DataOK: the steps                                                       *)
(***************************************************************************)

\* pframe_get returned f, which has what was last written to it.
LEMMA ReturnFacts ==
  ASSUME PframeInv, NEW t \in Clients, NEW r, NEW f \in Frames, NEW list, NEW data,
         Returns(t, r, f, list, data), pc'[t] # "fill",
         \A u \in Threads \ {t} : pc'[u] = pc[u] /\ pf'[u] = pf[u]
  PROVE  /\ \A g \in Frames : Filling(g)' <=> Filling(g) /\ g # f
         /\ f \in InUse /\ InUse' = InUse /\ pf_page[f] = r.page /\ r.page \in Pages
         /\ \A g \in Frames \ {f} : data[g] = contents[g]
         /\ UNCHANGED <<pf_page, dirty, disk>>
<1>1. /\ pc[t] \in {"user", "get", "fill"} /\ f \in busy <=> pc[t] = "fill"
      /\ pc[t] = "fill" => pf[t] = f
  BY Zenon DEF Returns
<1>2. t \in Threads
  BY Zenon DEF Threads
<1>3. WorksOn(t, f) \/ f \notin busy
  BY <1>1, Zenon DEF WorksOn, Returns
<1>4. WorksOn(t, f) \/ \A g \in Frames : ~WorksOn(t, g)
  BY <1>1, Zenon DEF WorksOn, Returns
<1>5. \A g \in Frames : Filling(g)' <=> Filling(g) /\ g # f
  BY <1>2, <1>3, <1>4, OnlyWorker, FillingEnds, Zenon
<1> QED
  BY <1>5, PframeConstants, ZenonT(40) DEF Returns, InUse

LEMMA ReadData ==
  ASSUME PframeInv, DataOK, NEW t \in Clients, NEW r, NEW f \in Frames, NEW list, NEW data,
         Returns(t, r, f, list, data), data[f] = written[r.page],
         f \notin dirty => disk[r.page] = written[r.page],
         \/ ReadFault(t, r, f, list, busy \ {f}, data)
         \/ CopyOut(t, r, f, list, busy \ {f}, data)
  PROVE  DataOK'
<1> USE DEF DataOK
<1>1. /\ busy' = busy \ {f} /\ contents' = data /\ written' = written
      /\ pc' = [pc EXCEPT ![t] = "user"] /\ pf' = [pf EXCEPT ![t] = Null]
      /\ \/ pt' = [pt EXCEPT ![t][r.page] = [frame |-> f, write |-> FALSE]]
         \/ pt' = pt
  BY Zenon DEF ReadFault, CopyOut, Go, Forget
<1>2. /\ pc'[t] = "user" /\ t \in Threads
      /\ \A u \in Threads \ {t} : pc'[u] = pc[u] /\ pf'[u] = pf[u]
  BY <1>1, Zenon DEF PframeInv, TypeOK, Threads
<1>3. /\ \A g \in Frames : Filling(g)' <=> Filling(g) /\ g # f
      /\ f \in InUse /\ InUse' = InUse /\ pf_page[f] = r.page /\ r.page \in Pages
      /\ \A g \in Frames \ {f} : contents'[g] = contents[g]
      /\ UNCHANGED <<pf_page, dirty, disk>>
  BY <1>1, <1>2, ReturnFacts
<1>4. WritesFault'
  <2> DEFINE m == [frame |-> f, write |-> FALSE]
  <2>1. m \in [frame : Frames \cup {Null}, write : BOOLEAN] /\ ~m.write
    OBVIOUS
  <2>2. pt' = [pt EXCEPT ![t][r.page] = m] \/ pt' = pt
    BY <1>1, Zenon
  <2> HIDE DEF m
  <2>3. \A u \in Clients, q \in Pages : pt'[u][q] = pt[u][q] \/ pt'[u][q] = m
    BY <1>3, <2>1, <2>2, PtUpdate DEF PframeInv
  <2> QED
    BY <1>3, <2>1, <2>3, Zenon DEF WritesFault
<1>5. FrameCurrent'
  BY <1>1, <1>3, Zenon DEF FrameCurrent, InUse
<1>6. DiskCurrent'
  BY <1>1, <1>3, Zenon DEF DiskCurrent, InUse
<1>7. AbsentCurrent'
  BY <1>1, <1>3, Zenon DEF AbsentCurrent
<1> QED
  BY <1>4, <1>5, <1>6, <1>7, Zenon

LEMMA WriteData ==
  ASSUME PframeInv, DataOK, NEW t \in Clients, NEW r, NEW f \in Frames, NEW list, NEW data,
         Returns(t, r, f, list, data), data[f] = written[r.page],
         \/ WriteFault(t, r, f, list, busy \ {f}, data)
         \/ CopyIn(t, r, f, list, busy \ {f}, data)
  PROVE  DataOK'
<1> USE DEF DataOK
<1>1. /\ busy' = busy \cup {f} /\ pt' = pt
      /\ pc' = [pc EXCEPT ![t] = "dirty"] /\ pf' = [pf EXCEPT ![t] = f]
      /\ \/ contents' = data /\ written' = written
         \/ /\ contents' = [data EXCEPT ![f] = r.val]
            /\ written' = [written EXCEPT ![r.page] = r.val]
  BY Zenon DEF WriteFault, CopyIn, Go
<1>2. /\ pc'[t] = "dirty" /\ t \in Threads
      /\ \A u \in Threads \ {t} : pc'[u] = pc[u] /\ pf'[u] = pf[u]
  BY <1>1, Zenon DEF PframeInv, TypeOK, Threads
<1>3. /\ \A g \in Frames : Filling(g)' <=> Filling(g) /\ g # f
      /\ f \in InUse /\ InUse' = InUse /\ pf_page[f] = r.page /\ r.page \in Pages
      /\ \A g \in Frames \ {f} : data[g] = contents[g]
      /\ UNCHANGED <<pf_page, dirty, disk>>
  BY <1>1, <1>2, ReturnFacts, Zenon
<1>4. \A g \in InUse \ {f} : pf_page[g] # r.page /\ pf_page[g] \in Pages
  <2>1. \A g \in InUse : g \in Frames /\ pf_page[g] \in Pages
    BY Zenon DEF PframeInv, TypeOK, InUse
  <2> QED
    <3>1. \A g, h \in InUse : pf_page[g] = pf_page[h] => g = h
      BY Zenon DEF PframeInv, FramesListed
    <3>2. f \in InUse /\ pf_page[f] = r.page
      BY <1>3, Zenon
    <3> QED
      BY <2>1, <3>1, <3>2, Zenon
<1>5. /\ contents'[f] = written'[r.page]
      /\ \A g \in Frames \ {f} : contents'[g] = contents[g]
      /\ \A p \in Pages \ {r.page} : written'[p] = written[p]
  <2>1. /\ data \in [Frames -> Values \cup {Junk}] /\ r.page \in Pages
        /\ written \in [Pages -> Values]
    BY Zenon DEF Returns, PframeInv, TypeOK
  <2> QED
    BY <1>1, <1>3, <2>1, Zenon
<1>6. WritesFault'
  BY <1>1, <1>3, Zenon DEF WritesFault
<1>7. FrameCurrent'
  <2>1. \A g \in InUse \ {f} : ~Filling(g) => contents'[g] = written'[pf_page[g]]
    BY <1>4, <1>5, Zenon DEF FrameCurrent, InUse
  <2> QED
    BY <1>3, <1>5, <2>1, Zenon DEF FrameCurrent, InUse
<1>8. DiskCurrent'
  <2>1. \A g \in InUse \ {f} : Filling(g) \/ g \notin dirty \cup busy =>
          disk[pf_page[g]] = written'[pf_page[g]]
    BY <1>4, <1>5, Zenon DEF DiskCurrent
  <2>2. \A g \in InUse : Filling(g)' \/ g \notin (dirty \cup busy)' =>
          g # f /\ (Filling(g) \/ g \notin dirty \cup busy)
    BY <1>1, <1>3, Zenon DEF InUse
  <2> QED
    BY <1>3, <2>1, <2>2, Zenon DEF DiskCurrent
<1>9. AbsentCurrent'
  BY <1>3, <1>5, Zenon DEF AbsentCurrent
<1> QED
  BY <1>6, <1>7, <1>8, <1>9, Zenon

LEMMA HitData ==
  ASSUME PframeInv, DataOK, fault = "none", NEW t \in Clients, pc[t] \in {"user", "get"},
         NEW r \in ReqType, r.page \in Pages, GetHit(t, r)
  PROVE  DataOK'
<1>1. PICK f \in InUse \ busy :
        /\ Returns(t, r, f, Requested(f), contents)
        /\ Return(t, r, f, Requested(f), busy \ {f}, contents)
  BY HitReturns, Zenon
<1>2. f \in Frames /\ ~Filling(f) /\ pf_page[f] = r.page
  BY <1>1, NotBusy, Zenon DEF InUse, Returns
<1>3. /\ contents[f] = written[r.page]
      /\ f \notin dirty => disk[r.page] = written[r.page]
  BY <1>1, <1>2 DEF DataOK, FrameCurrent, DiskCurrent
<1> QED
  BY <1>1, <1>2, <1>3, ReadData, WriteData, Zenon DEF Return

LEMMA FillDoneData ==
  ASSUME PframeInv, DataOK, NEW t \in Threads, FillDone(t)
  PROVE  DataOK'
<1>1. PICK f \in Frames, data \in [Frames -> Values \cup {Junk}] :
        /\ t \in Clients /\ pc[t] = "fill" /\ pf[t] = f
        /\ data[f] = disk[req[t].page]
        /\ Returns(t, req[t], f, alloc_list, data)
        /\ Return(t, req[t], f, alloc_list, busy \ {f}, data)
  BY FillReturns, Zenon
<1>2. Filling(f) /\ pf_page[f] = req[t].page /\ f \in InUse
  BY <1>1, PframeConstants, ZenonT(40) DEF Filling, Returns, InUse
<1>3. disk[req[t].page] = written[req[t].page]
  BY <1>2, SMTT(30) DEF DataOK, DiskCurrent
<1> QED
  BY <1>1, <1>3, ReadData, WriteData, Zenon DEF Return

\* The page that is to be filled was not resident: the disk has it.
LEMMA MissData ==
  ASSUME PframeInv, DataOK, NEW t \in Clients, pc[t] \in {"user", "get"},
         NEW r \in ReqType, r.page \in Pages, GetMiss(t, r)
  PROVE  DataOK'
<1> USE DEF DataOK
<1>1. /\ UNCHANGED <<contents, disk, pt, written>> /\ t \in Threads
      /\ Resident(r.page) = {}
  BY Zenon DEF GetMiss, Threads
<1>2. CASE UNCHANGED <<pf_page, alloc_list, busy, dirty, pf_pincount, pf, pc>>
  BY <1>1, <1>2, QuietData, Zenon
<1>3. ASSUME NEW f \in Frames \ InUse,
             /\ pf_page' = [pf_page EXCEPT ![f] = r.page]
             /\ busy' = busy \cup {f}
             /\ dirty' = dirty \ {f}
             /\ pf' = [pf EXCEPT ![t] = f]
             /\ pc' = [pc EXCEPT ![t] = "fill"]
      PROVE  DataOK'
  <2>1. dirty' = dirty /\ pf_page'[f] = r.page /\ f \in Frames
    BY <1>3, Zenon DEF PframeInv, TypeOK
  <2>2. \A g \in Frames \ {f} : pf_page'[g] = pf_page[g]
    BY <1>3, Zenon DEF PframeInv, TypeOK
  <2>3. InUse' = InUse \cup {f}
    BY <2>1, <2>2, PframeConstants, Zenon DEF InUse
  <2>4. /\ pc'[t] = "fill" /\ pf'[t] = f
        /\ \A u \in Threads \ {t} : pc'[u] = pc[u] /\ pf'[u] = pf[u]
    BY <1>1, <1>3, Zenon DEF PframeInv, TypeOK
  <2>5. \A g \in Frames : Filling(g)' <=> Filling(g) \/ g = f
    BY <1>1, <2>4, Zenon DEF Filling
  <2>6. disk[r.page] = written[r.page]
    BY <1>1, Zenon DEF AbsentCurrent, Resident
  <2>7. WritesFault'
    BY <1>1, <2>1, Zenon DEF WritesFault
  <2>8. FrameCurrent'
    BY <1>1, <2>2, <2>3, <2>5, Zenon DEF FrameCurrent, InUse
  <2>9. DiskCurrent'
    BY <1>1, <1>3, <2>1, <2>2, <2>3, <2>5, <2>6, Zenon DEF DiskCurrent, InUse
  <2>10. AbsentCurrent'
    <3>1. pf_page[f] = Null
      BY Zenon DEF InUse
    <3> QED
      BY <1>1, <2>1, <2>2, <3>1, PframeConstants, SMTT(30) DEF AbsentCurrent
  <2> QED
    BY <2>7, <2>8, <2>9, <2>10, Zenon
<1> QED
  BY <1>2, <1>3, Zenon DEF GetMiss, Go

\* f, which is being filled or is neither dirty nor busy, is freed.
LEMMA FreeData ==
  ASSUME PframeInv, DataOK, NEW f \in InUse, pframe_free(f),
         Filling(f) \/ f \notin dirty \cup busy,
         busy' = busy \ {f}, UNCHANGED <<dirty, disk, written>>,
         \A g \in Frames \ {f} : Filling(g)' <=> Filling(g)
  PROVE  DataOK'
<1> USE DEF DataOK
<1>1. f \in Frames /\ pf_page[f] \in Pages /\ disk[pf_page[f]] = written[pf_page[f]]
  BY Zenon DEF DiskCurrent, InUse, PframeInv, TypeOK
<1>2. /\ pf_page' = [pf_page EXCEPT ![f] = Null] /\ contents' = [contents EXCEPT ![f] = Junk]
      /\ pt' = RemovedFromPts(f)
  BY Zenon DEF pframe_free
<1>3. /\ pf_page'[f] = Null
      /\ \A g \in Frames \ {f} : pf_page'[g] = pf_page[g] /\ contents'[g] = contents[g]
  BY <1>1, <1>2, Zenon DEF PframeInv, TypeOK
<1>4. InUse' = InUse \ {f}
  BY <1>1, <1>3, Zenon DEF InUse
<1>5. WritesFault'
  <2>1. \A u \in Clients, q \in Pages : pt'[u][q] = pt[u][q] \/ pt'[u][q] = NoMap
    BY <1>1, <1>2, Unmapped, Zenon DEF PframeInv
  <2>2. ~NoMap.write
    BY Zenon DEF NoMap
  <2> QED
    BY <2>1, <2>2, Zenon DEF WritesFault
<1>6. FrameCurrent'
  BY <1>3, <1>4, Zenon DEF FrameCurrent, InUse
<1>7. DiskCurrent'
  BY <1>3, <1>4, ZenonT(40) DEF DiskCurrent, InUse
<1>8. AbsentCurrent'
  BY <1>1, <1>3, Zenon DEF AbsentCurrent
<1> QED
  BY <1>5, <1>6, <1>7, <1>8, Zenon

LEMMA FillFailedData ==
  ASSUME PframeInv, DataOK, NEW t \in Threads, FillFailed(t)
  PROVE  DataOK'
<1> DEFINE f == pf[t]
<1>1. /\ pc[t] = "fill" /\ busy' = busy \ {f} /\ pframe_free(f)
      /\ \/ pc' = [pc EXCEPT ![t] = "user"] \/ pc' = [pc EXCEPT ![t] = "exit"]
      /\ pf' = [pf EXCEPT ![t] = Null]
      /\ UNCHANGED <<dirty, disk, written>>
  BY Zenon DEF FillFailed, At, Go, Forget
<1>2. f \in Frames /\ WorksOn(t, f) /\ Filling(f)
  BY <1>1, Zenon DEF PframeInv, HoldsOK, WorksOn, Filling
<1>3. f \in InUse
  BY <1>2, Zenon DEF PframeInv, BusyOwned
<1> HIDE DEF f
<1>4. /\ pc'[t] # "fill"
      /\ \A u \in Threads \ {t} : pc'[u] = pc[u] /\ pf'[u] = pf[u]
  BY <1>1, Zenon DEF PframeInv, TypeOK
<1>5. \A g \in Frames : Filling(g)' <=> Filling(g) /\ g # f
  BY <1>2, <1>4, OnlyWorker, FillingEnds, Zenon
<1> QED
  BY <1>1, <1>2, <1>3, <1>5, FreeData, Zenon

LEMMA ReclaimData ==
  ASSUME PframeInv, DataOK, NEW f \in Range(alloc_list), f \notin busy, f \notin dirty,
         pframe_free(f),
         UNCHANGED <<busy, dirty, disk, threadVars, written>>
  PROVE  DataOK'
<1>1. f \in InUse
  <2>1. alloc_list \in Seq(Frames)
    BY Zenon DEF PframeInv, TypeOK
  <2>2. f \in Frames
    BY <2>1 DEF Range
  <2> QED
    BY <2>2, Zenon DEF PframeInv, FramesListed
<1>2. \A g \in Frames : Filling(g)' <=> Filling(g)
  BY Zenon DEF Filling, threadVars
<1> QED
  BY <1>1, <1>2, FreeData, Zenon

\* pframe_dirty has set PF_DIRTY, which it does unless dirtypage fails.
LEMMA DirtyDoneData ==
  ASSUME PframeInv, DataOK, "dirty" \notin Failures, NEW t \in Threads, DirtyDone(t)
  PROVE  DataOK'
<1> USE DEF DataOK
<1> DEFINE f == pf[t]
           m == [frame |-> f, write |-> TRUE]
           p == req[t].page
<1>1. /\ pc[t] = "dirty" /\ dirty' = dirty \cup {f} /\ busy' = busy \ {f}
      /\ pt' = pt \/ pt' = [pt EXCEPT ![t][p] = m]
      /\ pc' = [pc EXCEPT ![t] = "user"] /\ pf' = [pf EXCEPT ![t] = Null]
      /\ UNCHANGED <<pf_page, contents, disk, written>>
  BY Zenon DEF DirtyDone, At, Go, Forget
<1>2. f \in Frames /\ WorksOn(t, f) /\ t \in Clients /\ p \in Pages
  BY <1>1, FillersAreClients, Zenon DEF PframeInv, HoldsOK, RequestsOK, WorksOn
<1>3. m \in [frame : Frames \cup {Null}, write : BOOLEAN] /\ m.frame = f
  BY <1>2, Zenon
<1> HIDE DEF f, m, p
<1>4. pc'[t] = "user" /\ \A u \in Threads \ {t} : pc'[u] = pc[u] /\ pf'[u] = pf[u]
  BY <1>1, Zenon DEF PframeInv, TypeOK
<1>5. (\A g \in Frames : Filling(g)' <=> Filling(g)) /\ InUse' = InUse
  BY <1>1, <1>4, FillingKept, Zenon DEF InUse
<1>6. ~Filling(f)
  BY <1>1, <1>2, OnlyWorker, Zenon DEF Filling, WorksOn
<1>7. WritesFault'
  <2>1. \A u \in Clients, q \in Pages : pt'[u][q] = pt[u][q] \/ pt'[u][q] = m
    BY <1>1, <1>2, <1>3, PtUpdate DEF PframeInv
  <2> QED
    BY <1>1, <1>3, <2>1, Zenon DEF WritesFault
<1>8. FrameCurrent' /\ AbsentCurrent'
  BY <1>1, <1>5, Zenon DEF FrameCurrent, AbsentCurrent, InUse
<1>9. DiskCurrent'
  BY <1>1, <1>2, <1>5, <1>6, Zenon DEF DiskCurrent, InUse
<1> QED
  BY <1>7, <1>8, <1>9, Zenon

\* pframe_clean: the page is unmapped before PF_DIRTY goes, so no store is missed.
LEMMA CleanData ==
  ASSUME PframeInv, DataOK, NEW t \in Threads, NEW f \in Range(alloc_list), NEW place,
         f \in dirty, f \notin busy, pframe_clean(t, f, place),
         pc[t] # "fill", place # "fill"
  PROVE  DataOK'
<1> USE DEF DataOK
<1>1. /\ dirty' = dirty \ {f} /\ pt' = RemovedFromPts(f) /\ busy' = busy \cup {f}
      /\ pf' = [pf EXCEPT ![t] = f] /\ pc' = [pc EXCEPT ![t] = place]
      /\ UNCHANGED <<pf_page, contents, disk, written>>
  BY Zenon DEF pframe_clean, Go
<1>2. f \in Frames /\ ~Filling(f)
  BY NotBusy, Zenon DEF PframeInv, TypeOK
<1>3. pc'[t] = place /\ \A u \in Threads \ {t} : pc'[u] = pc[u] /\ pf'[u] = pf[u]
  BY <1>1, Zenon DEF PframeInv, TypeOK
<1>4. (\A g \in Frames : Filling(g)' <=> Filling(g)) /\ InUse' = InUse
  BY <1>1, <1>3, FillingKept, Zenon DEF InUse
<1>5. WritesFault'
  <2>1. \A u \in Clients, q \in Pages :
          pt'[u][q] = IF pt[u][q].frame = f THEN NoMap ELSE pt[u][q]
    BY <1>1, <1>2, Unmapped, Zenon DEF PframeInv
  <2>2. ~NoMap.write
    BY Zenon DEF NoMap
  <2> QED
    <3> SUFFICES ASSUME NEW u \in Clients, NEW q \in Pages, pt'[u][q].write
                 PROVE  pt'[u][q].frame \in dirty'
      BY Zenon DEF WritesFault
    <3>1. pt[u][q].frame # f
      BY <2>1, <2>2, Zenon
    <3>2. pt'[u][q] = pt[u][q]
      BY <2>1, <3>1, Zenon
    <3>3. pt[u][q].frame \in dirty
      BY <3>2, Zenon DEF WritesFault
    <3> QED
      BY <1>1, <3>1, <3>2, <3>3, Zenon
<1>6. FrameCurrent' /\ AbsentCurrent'
  BY <1>1, <1>4, Zenon DEF FrameCurrent, AbsentCurrent, InUse
<1>7. DiskCurrent'
  BY <1>1, <1>2, <1>4, Zenon DEF DiskCurrent, InUse
<1> QED
  BY <1>5, <1>6, <1>7, Zenon

\* cleanpage has written what was last written to the page, or PF_DIRTY is set again.
LEMMA CleanDoneData ==
  ASSUME PframeInv, DataOK, NEW t \in Threads, NEW from, NEW to, CleanDone(t, from, to),
         \/ from = "clean" /\ to = "sync"
         \/ from = "pclean" /\ to = "pageout"
  PROVE  DataOK'
<1> USE DEF DataOK
<1> DEFINE f == pf[t]
           p == pf_page[f]
<1>1. /\ pc[t] = from /\ busy' = busy \ {f}
      /\ \/ disk' = [disk EXCEPT ![p] = contents[f]] /\ dirty' = dirty
         \/ disk' = disk /\ dirty' = dirty \cup {f}
      /\ pc' = [pc EXCEPT ![t] = to] /\ pf' = [pf EXCEPT ![t] = Null]
      /\ UNCHANGED <<pf_page, contents, pt, written, InUse>>
  BY Zenon DEF CleanDone, CleanFailed, At, Go, Forget, InUse
<1>2. f \in Frames /\ WorksOn(t, f)
  BY <1>1, Zenon DEF PframeInv, HoldsOK, WorksOn
<1>3. f \in InUse /\ ~Filling(f)
  BY <1>1, <1>2, OnlyWorker, Zenon DEF PframeInv, BusyOwned, Filling, WorksOn
<1>4. p \in Pages /\ contents[f] = written[p]
  BY <1>2, <1>3, ZenonT(40) DEF FrameCurrent, PframeInv, TypeOK, InUse
<1>5. p = pf_page[f]
  OBVIOUS
<1> HIDE DEF f, p
<1>6. pc'[t] = to /\ \A u \in Threads \ {t} : pc'[u] = pc[u] /\ pf'[u] = pf[u]
  BY <1>1, Zenon DEF PframeInv, TypeOK
<1>7. \A g \in Frames : Filling(g)' <=> Filling(g)
  BY <1>1, <1>6, FillingKept, Zenon
<1>8. \A q \in Pages : \/ disk'[q] = disk[q]
                       \/ disk'[q] = written[q]
  BY <1>1, <1>4, Zenon DEF PframeInv, TypeOK
<1>9. disk'[p] = written[p] \/ f \in dirty'
  BY <1>1, <1>4, Zenon DEF PframeInv, TypeOK
<1>10. WritesFault'
  BY <1>1, Zenon DEF WritesFault
<1>11. FrameCurrent'
  BY <1>1, <1>7, Zenon DEF FrameCurrent, InUse
<1>12. DiskCurrent'
  <2>1. \A g \in InUse : g \in Frames /\ pf_page[g] \in Pages
    BY Zenon DEF PframeInv, TypeOK, InUse
  <2>2. dirty \subseteq dirty'
    BY <1>1, Zenon
  <2>3. \A g \in InUse \ {f} : Filling(g) \/ g \notin dirty \cup busy =>
                                 disk'[pf_page[g]] = written[pf_page[g]]
    BY <1>8, <2>1 DEF DiskCurrent
  <2>4. f \notin dirty' => disk'[pf_page[f]] = written[pf_page[f]]
    BY <1>5, <1>9, Zenon
  <2> QED
    BY <1>1, <1>3, <1>7, <2>1, <2>2, <2>3, <2>4, Zenon DEF DiskCurrent
<1>13. AbsentCurrent'
  BY <1>1, <1>8, Zenon DEF AbsentCurrent
<1> QED
  BY <1>10, <1>11, <1>12, <1>13, Zenon

\* A process stores to a page that it has mapped for writing: the page is dirty.
LEMMA StoreData ==
  ASSUME PframeInv, DataOK, NEW t \in Clients, NEW p \in Pages, NEW v \in Values,
         UserStore(t, p, v)
  PROVE  DataOK'
<1> USE DEF DataOK
<1> DEFINE f == pt[t][p].frame
<1>1. /\ pt[t][p].write /\ contents' = [contents EXCEPT ![f] = v]
      /\ written' = [written EXCEPT ![p] = v]
      /\ UNCHANGED <<pf_page, busy, dirty, disk, pt, pc, pf, InUse>>
  BY Zenon DEF UserStore, threadVars, InUse
<1>2. f \in dirty /\ f \in InUse /\ f \in Frames
  BY <1>1, Zenon DEF WritesFault, PframeInv, TypeOK
<1>3. pf_page[f] = p /\ ~Filling(f)
  BY <1>2, PframeConstants, Zenon DEF PframeInv, MapsOK
<1> HIDE DEF f
<1>4. \A g \in InUse : g \in Frames /\ pf_page[g] \in Pages /\ (pf_page[g] = p => g = f)
  BY <1>2, <1>3, Zenon DEF PframeInv, FramesListed, TypeOK, InUse
<1>5. /\ contents'[f] = v /\ written'[p] = v
      /\ \A g \in Frames \ {f} : contents'[g] = contents[g]
      /\ \A q \in Pages \ {p} : written'[q] = written[q]
  BY <1>1, <1>2, Zenon DEF PframeInv, TypeOK
<1>6. \A g \in Frames : Filling(g)' <=> Filling(g)
  BY <1>1, FillingKept, Zenon
<1>7. WritesFault'
  BY <1>1, Zenon DEF WritesFault
<1>8. FrameCurrent'
  <2>1. \A g \in InUse : ~Filling(g) => contents'[g] = written'[pf_page[g]]
    <3>1. \A g \in InUse \ {f} : ~Filling(g) => contents'[g] = written'[pf_page[g]]
      BY <1>4, <1>5, Zenon DEF FrameCurrent
    <3> QED
      BY <1>3, <1>5, <3>1, Zenon
  <2> QED
    BY <1>1, <1>4, <1>6, <2>1, Zenon DEF FrameCurrent
<1>9. DiskCurrent'
  BY <1>1, <1>2, <1>3, <1>4, <1>5, <1>6, Zenon DEF DiskCurrent
<1>10. AbsentCurrent'
  BY <1>1, <1>2, <1>3, <1>5, Zenon DEF AbsentCurrent
<1> QED
  BY <1>7, <1>8, <1>9, <1>10, Zenon

\* pframe_shutdown frees pages that are neither dirty nor busy.
LEMMA ShutdownEndData ==
  ASSUME PframeInv, DataOK, ShutdownEnd
  PROVE  DataOK'
<1> USE DEF DataOK
<1>1. /\ pc[Idle] = "sync"
      /\ \A i \in DOMAIN alloc_list : alloc_list[i] \notin busy \cup dirty
      /\ pf_page' = [f \in Frames |-> IF f \in Range(alloc_list) THEN Null ELSE pf_page[f]]
      /\ contents' = [f \in Frames |-> IF f \in Range(alloc_list) THEN Junk ELSE contents[f]]
      /\ pc' = [pc EXCEPT ![Idle] = "gone"]
      /\ UNCHANGED <<busy, dirty, disk, pt, pf, written>>
  BY Zenon DEF ShutdownEnd, At, Go
<1>2. \A f \in Range(alloc_list) : f \notin busy \cup dirty
  BY <1>1, Zenon DEF Range
<1>3. InUse' = InUse \ Range(alloc_list)
  BY <1>1, PframeConstants, Zenon DEF InUse
<1>4. \A g \in InUse' : g \in Frames /\ pf_page'[g] = pf_page[g] /\ contents'[g] = contents[g]
  BY <1>1, <1>3, Zenon DEF InUse
<1>5. pc'[Idle] = "gone" /\ \A u \in Threads \ {Idle} : pc'[u] = pc[u]
  BY <1>1, Zenon DEF PframeInv, TypeOK, Threads
<1>6. \A g \in Frames : Filling(g)' <=> Filling(g)
  BY <1>1, <1>5, FillingKept, Zenon
<1>7. WritesFault'
  BY <1>1, Zenon DEF WritesFault
<1>8. FrameCurrent'
  BY <1>1, <1>3, <1>4, <1>6, Zenon DEF FrameCurrent
<1>9. DiskCurrent'
  BY <1>1, <1>3, <1>4, <1>6, Zenon DEF DiskCurrent
<1>10. AbsentCurrent'
  <2>1. \A f \in Range(alloc_list) : f \in InUse => disk[pf_page[f]] = written[pf_page[f]]
    BY <1>2, Zenon DEF DiskCurrent
  <2>2. \A f \in Frames : pf_page'[f] = pf_page[f] \/ f \in Range(alloc_list)
    BY <1>1, Zenon
  <2>3. \A f \in Frames, q \in Pages : pf_page[f] = q => f \in InUse
    BY PframeConstants, Zenon DEF InUse
  <2> QED
    BY <1>1, <2>1, <2>2, <2>3, Zenon DEF AbsentCurrent
<1> QED
  BY <1>7, <1>8, <1>9, <1>10, Zenon

\* Waits, and what moves threads only.
LEMMA QuietSteps ==
  ASSUME PframeInv, DataOK, NEW t \in Threads, NEW f,
         \/ WaitFor(t, f) \/ UNCHANGED vars
         \/ SYS_sync(t) \/ SyncEnd(t) \/ PageoutEnd \/ ShutdownStart \/ ShutdownSync
  PROVE  DataOK'
<1> DEFINE Quiet == \A u \in Threads : \/ pc'[u] = pc[u]
                                       \/ pc[u] # "fill" /\ pc'[u] # "fill"
<1>1. UNCHANGED <<pf_page, busy, dirty, contents, disk, written, pt, pf>>
  BY Zenon DEF WaitFor, SYS_sync, SyncEnd, PageoutEnd, ShutdownStart, ShutdownSync, vars,
     frameVars, threadVars
<1>2. CASE WaitFor(t, f) \/ UNCHANGED vars
  BY <1>1, <1>2, QuietData, Zenon DEF WaitFor, vars, threadVars
<1>3. CASE SYS_sync(t) \/ SyncEnd(t)
  <2>1. /\ pc[t] \in {"user", "sync"}
        /\ pc' = [pc EXCEPT ![t] = "sync"] \/ pc' = [pc EXCEPT ![t] = "user"]
    BY <1>3, Zenon DEF SYS_sync, SyncEnd, At, Go
  <2>2. Quiet
    BY <2>1, Zenon DEF PframeInv, TypeOK
  <2> QED
    BY <1>1, <2>2, QuietData, Zenon
<1>4. CASE PageoutEnd \/ ShutdownStart \/ ShutdownSync
  <2>1. pc[Pageoutd] # "fill" /\ pc[Idle] # "fill"
    BY Zenon DEF PframeInv, PlacesOK
  <2>2. /\ pc'[Pageoutd] = pc[Pageoutd] \/ pc'[Pageoutd] \in {"gone", "asleep"}
        /\ pc'[Idle] = pc[Idle] \/ pc'[Idle] \in {"reap", "sync"}
        /\ \A u \in Clients : pc'[u] = pc[u]
    BY <1>4, PframeConstants
   , Zenon DEF PageoutEnd, ShutdownStart, ShutdownSync, Go, PframeInv, TypeOK, Threads
  <2>3. Quiet
    BY <2>1, <2>2, Zenon DEF Threads
  <2> QED
    BY <1>1, <2>3, QuietData, Zenon
<1> QED
  BY <1>2, <1>3, <1>4, Zenon

LEMMA GetData ==
  ASSUME PframeInv, DataOK, fault = "none", NEW t \in Clients, pc[t] \in {"user", "get"},
         NEW r \in ReqType, r.page \in Pages, pframe_get(t, r)
  PROVE  DataOK'
<1>1. CASE GetWait(t, r)
  <2>1. /\ pc' = [pc EXCEPT ![t] = "get"]
        /\ UNCHANGED <<pf_page, busy, dirty, contents, disk, written, pt, pf>>
    BY <1>1, Zenon DEF GetWait, Go
  <2>2. \A u \in Threads : \/ pc'[u] = pc[u]
                           \/ pc[u] # "fill" /\ pc'[u] # "fill"
    BY <2>1, Zenon DEF PframeInv, TypeOK
  <2> QED
    BY <2>1, <2>2, QuietData, Zenon
<1> QED
  BY <1>1, HitData, MissData, Zenon DEF pframe_get

LEMMA ClientData ==
  ASSUME PframeInv, DataOK, NEW t \in Clients, Client(t)
  PROVE  DataOK'
<1>1. CASE At(t, "user") /\ \E r \in Requests : pframe_get(t, r)
  BY <1>1, RequestTypes, GetData, Zenon DEF At
<1>2. CASE At(t, "get") /\ pframe_get(t, req[t])
  <2>1. req[t] \in ReqType /\ req[t].page \in Pages
    BY <1>2, Zenon DEF PframeInv, RequestsOK, TypeOK, ReqType, At, Threads
  <2> QED
    BY <1>2, <2>1, GetData, Zenon DEF At
<1>3. ASSUME NEW p \in Pages, shadow_fillpage(t, p)
      PROVE  DataOK'
  <2>1. CASE UNCHANGED <<pf_page, busy, dirty, contents, disk, pt, threadVars, written>>
    BY <2>1, QuietData, Zenon DEF threadVars
  <2>2. CASE pframe_get(t, [op |-> "copy", page |-> p, val |-> Zero])
    <3> DEFINE r == [op |-> "copy", page |-> p, val |-> Zero]
    <3>1. r \in ReqType /\ r.page \in Pages
      BY RequestTypes, Zenon
    <3>2. fault = "none" /\ pc[t] = "user"
      BY <1>3, Zenon DEF shadow_fillpage, At
    <3> HIDE DEF r
    <3> QED
      BY <2>2, <3>1, <3>2, GetData, Zenon DEF r
  <2> QED
    BY <1>3, <2>1, <2>2, Zenon DEF shadow_fillpage
<1>4. CASE Exit(t)
  <2>1. /\ pc[t] \in {"user", "exit"} /\ pc' = [pc EXCEPT ![t] = "gone"]
        /\ pt' = [pt EXCEPT ![t] = [p \in Pages |-> NoMap]]
        /\ UNCHANGED <<pf_page, busy, dirty, contents, disk, written, pf>>
    BY <1>4, Zenon DEF Exit, At, Go, frameVars
  <2>2. \A u \in Threads : \/ pc'[u] = pc[u]
                           \/ pc[u] # "fill" /\ pc'[u] # "fill"
    BY <2>1, Zenon DEF PframeInv, TypeOK
  <2>3. ~NoMap.write
    BY Zenon DEF NoMap
  <2>4. \A u \in Clients, q \in Pages : pt'[u][q] = pt[u][q] \/ pt'[u][q] = NoMap
    BY <2>1, Zenon DEF PframeInv, TypeOK
  <2> QED
    BY <2>1, <2>2, <2>3, <2>4, QuietData, Zenon
<1>5. CASE SYS_sync(t)
  BY <1>5, QuietSteps, Zenon DEF Threads
<1> QED
  BY <1>1, <1>2, <1>3, <1>4, <1>5, StoreData, Zenon DEF Client

\* While dirtypage does not fail, every step preserves DataOK.
LEMMA NextData ==
  ASSUME PframeInv, DataOK, "dirty" \notin Failures, [Next]_vars
  PROVE  DataOK'
<1>1. ASSUME NEW t \in Threads, Completes(t)
      PROVE  DataOK'
  BY <1>1, FillDoneData, FillFailedData, DirtyDoneData, CleanDoneData, Zenon DEF Completes
<1>2. ASSUME NEW t \in Threads, SyncStep(t)
      PROVE  DataOK'
  <2>1. pc[t] = "sync"
    BY <1>2, Zenon DEF SyncStep, At
  <2>2. PICK i \in DOMAIN alloc_list :
          /\ alloc_list[i] \in busy \cup dirty
          /\ IF alloc_list[i] \in busy THEN WaitFor(t, alloc_list[i])
             ELSE pframe_clean(t, alloc_list[i], "clean")
    BY <1>2, Zenon DEF SyncStep
  <2>3. alloc_list[i] \in Range(alloc_list)
    BY Listed, Zenon DEF PframeInv
  <2> QED
    BY <2>1, <2>2, <2>3, QuietSteps, CleanData, Zenon
<1>3. ASSUME PageoutStep
      PROVE  DataOK'
  <2> DEFINE f == Head(alloc_list)
  <2>1. pc[Pageoutd] = "pageout" /\ Pageoutd \in Threads
    BY <1>3, Zenon DEF PageoutStep, At, Threads
  <2>2. f \in Range(alloc_list)
    <3>1. alloc_list # <<>> /\ alloc_list \in Seq(Frames)
      BY <1>3, Zenon DEF PageoutStep, PframeInv, TypeOK
    <3>2. 1 \in DOMAIN alloc_list /\ f = alloc_list[1]
      BY <3>1
    <3> QED
      BY <3>2, Zenon DEF Range
  <2>3. \/ WaitFor(Pageoutd, f)
        \/ f \notin busy /\ f \in dirty /\ pframe_clean(Pageoutd, f, "pclean")
        \/ /\ f \notin busy /\ f \notin dirty /\ pframe_free(f)
           /\ UNCHANGED <<busy, dirty, disk, threadVars, written>>
    BY <1>3, Zenon DEF PageoutStep
  <2> HIDE DEF f
  <2> QED
    BY <2>1, <2>2, <2>3, QuietSteps, CleanData, ReclaimData, Zenon
<1>4. ASSUME NEW t \in Threads,
             \/ SyncEnd(t) \/ PageoutEnd \/ ShutdownStart \/ ShutdownSync
             \/ Stopped \/ UNCHANGED vars
      PROVE  DataOK'
  BY <1>4, QuietSteps, Zenon DEF Stopped
<1>5. Idle \in Threads
  BY Zenon DEF Threads
<1> QED
  BY <1>1, <1>2, <1>3, <1>4, <1>5, ClientData, ShutdownEndData, Zenon DEF Next

(***************************************************************************)
(* The theorems                                                            *)
(***************************************************************************)

\* The invariant of the page cache, whatever fails: who holds which page, and the
\* lists, pins and page tables that belong to that.
THEOREM PframeInvariant == Spec => []PframeInv
<1>1. PframeInv /\ [Next]_vars => PframeInv'
  BY NextInv, Zenon
<1> QED
  BY InitInv, <1>1, PTL DEF Spec

\* pframe_get never gives a page two frames, and every frame in use is on the list
\* that its pin count says.
THEOREM FramesStayListed == Spec => []FramesListed
<1>1. PframeInv => FramesListed
  BY Zenon DEF PframeInv
<1> QED
  BY <1>1, PframeInvariant, PTL

\* PF_BUSY excludes: one thread fills, dirties or cleans a page at a time.
THEOREM OneWorker == Spec => []BusyOwned
<1>1. PframeInv => BusyOwned
  BY Zenon DEF PframeInv
<1> QED
  BY <1>1, PframeInvariant, PTL

\* The KASSERTs of pframe_dirty, pframe_clean, pframe_free and pframe_shutdown hold.
THEOREM KassertsHold == Spec => []NoKassert
<1>1. PframeInv => NoKassert
  BY Zenon DEF PframeInv
<1> QED
  BY <1>1, PframeInvariant, PTL

\* While dirtypage does not fail, frames and disk have what was last written.
THEOREM DataStaysCurrent ==
  ASSUME "dirty" \notin Failures
  PROVE  Spec => []DataOK
<1>1. Init => DataOK
  BY PframeConstants
  DEF Init, DataOK, WritesFault, FrameCurrent, DiskCurrent, AbsentCurrent, InUse, NoMap
<1>2. PframeInv /\ DataOK /\ [Next]_vars => DataOK'
  BY NextData, Zenon
<1> QED
  BY <1>1, <1>2, PframeInvariant, PTL DEF Spec

\* pframe_clean's "make sure a future write to the page will fault": what is mapped
\* is resident, and what is mapped for writing is dirty.
THEOREM WritesFaultAgain ==
  ASSUME "dirty" \notin Failures
  PROVE  Spec => []MappedIsResident
<1>1. PframeInv /\ DataOK => MappedIsResident
  BY Zenon DEF PframeInv, DataOK, MapsOK, WritesFault, MappedIsResident
<1> QED
  BY <1>1, PframeInvariant, DataStaysCurrent, PTL

\* No write is lost, whatever is cleaned, reclaimed and read again in whatever
\* order, and although reading and cleaning may fail.
THEOREM NoWriteLost ==
  ASSUME "dirty" \notin Failures
  PROVE  Spec => []CacheCoherent
<1>1. PframeInv /\ DataOK => CacheCoherent
  <2> SUFFICES ASSUME PframeInv, DataOK, NEW p \in Pages
               PROVE  IF {f \in Resident(p) : ~Filling(f)} = {} THEN disk[p] = written[p]
                      ELSE \A f \in {g \in Resident(p) : ~Filling(g)} : contents[f] = written[p]
    BY Zenon DEF CacheCoherent
  <2>1. \A f \in Resident(p) : f \in InUse /\ pf_page[f] = p
    BY PframeConstants, Zenon DEF Resident, InUse
  <2>2. CASE Resident(p) = {}
    BY <2>2, Zenon DEF DataOK, AbsentCurrent, Resident
  <2>3. CASE \E f \in Resident(p) : Filling(f)
    <3>1. PICK f \in Resident(p) : Filling(f)
      BY <2>3, Zenon
    <3>2. \A g \in Resident(p) : g = f
      BY <2>1, <3>1, Zenon DEF PframeInv, FramesListed
    <3> QED
      BY <2>1, <3>1, <3>2, Zenon DEF DataOK, DiskCurrent
  <2>4. CASE Resident(p) # {} /\ \A f \in Resident(p) : ~Filling(f)
    BY <2>1, <2>4, Zenon DEF DataOK, FrameCurrent
  <2> QED
    BY <2>2, <2>3, <2>4, Zenon
<1> QED
  BY <1>1, PframeInvariant, DataStaysCurrent, PTL
=============================================================================
