----------------------------- MODULE AddrSpace -----------------------------
(***************************************************************************)
(* What an address space promises a process, with no areas in it: a user   *)
(* page is unmapped or is a page of some object.  This is what mmap,       *)
(* munmap, brk and exit of kernel/vm mean; module Vmmap implements it.     *)
(***************************************************************************)
EXTENDS Integers

CONSTANTS LOW, HIGH,      \* the user pages are LOW..HIGH-1
          Files, Anons, Offsets, Prots, Null

VARIABLE pages            \* per page, Null or <<object, its page, protection>>

Pages == LOW..(HIGH - 1)
Range(lo, n) == lo..(lo + n - 1)
Free(map, lo, n) == \A p \in Range(lo, n) : map[p] = Null

\* map with the pages from lo on being o's pages from off on.
With(map, lo, n, o, off, prot) ==
  [p \in Pages |-> IF p \in Range(lo, n) THEN <<o, off + p - lo, prot>> ELSE map[p]]

\* An object nothing is mapped from, or a file.
Mappable(map, o) == o \in Files \/ \A p \in Pages : map[p] = Null \/ map[p][1] # o

(***************************************************************************)
(* The operations, as relations between the address spaces before and      *)
(* after.                                                                  *)
(***************************************************************************)

\* In the stead of what was there.
Map(old, new, lo, n, o, off, prot) ==
  Mappable(old, o) /\ new = With(old, lo, n, o, off, prot)

Unmap(old, new, lo, n) ==
  new = [p \in Pages |-> IF p \in Range(lo, n) THEN Null ELSE old[p]]

\* The break grows: n free pages continue the page below them.
Grow(old, new, lo, n) ==
  /\ lo - 1 \in Pages
  /\ old[lo - 1] # Null
  /\ Free(old, lo, n)
  /\ new = With(old, lo, n, old[lo - 1][1], old[lo - 1][2] + 1, old[lo - 1][3])

Exit(old, new) == new = [p \in Pages |-> Null]

Init == \E o \in Anons, n \in 1..(HIGH - LOW) :
  pages = [p \in Pages |-> IF p < LOW + n THEN <<o, p - LOW, {"r", "w"}>> ELSE Null]

\* Only pages of the range that is mapped or unmapped change.
Step(old, new) ==
  LET changed == {p \in Pages : old[p] # new[p]}
  IN  \/ Exit(old, new)
      \/ \E lo \in Pages : \E n \in 1..(HIGH - lo) :
           /\ changed \subseteq Range(lo, n)
           /\ \/ Unmap(old, new, lo, n)
              \/ Grow(old, new, lo, n)
              \/ \E o \in Files \cup Anons, off \in Offsets, prot \in Prots :
                   Map(old, new, lo, n, o, off, prot)

Next == \E old \in {pages}, new \in {pages'} : old # new /\ Step(old, new)

Spec == Init /\ [][Next]_pages
============================================================================
