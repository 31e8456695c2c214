-------------------------- MODULE VmmapListProofs --------------------------
(***************************************************************************)
(* What the operations of Vmmap on lists of areas compute, for sorted      *)
(* lists of any length.                                                    *)
(***************************************************************************)
EXTENDS Vmmap, WellFoundedInduction, TLAPS

(***************************************************************************)
(* Induction.  A set of numbers stands for the formula that is proved.     *)
(***************************************************************************)

\* A set of natural numbers has a least element.
LEMMA LeastNat ==
  ASSUME NEW T, T \subseteq Nat, T # {}
  PROVE  \E m \in T : \A n \in T : m <= n
<1> DEFINE R == OpToRel(<, Nat)
<1>1. \E x \in T : \A y \in T : ~(<<y, x>> \in R)
  <2>1. IsWellFoundedOn(R, Nat)
    BY NatLessThanWellFounded, Zenon
  <2> HIDE DEF R
  <2> QED
    BY <2>1, WFMin, Zenon
<1>2. \A x, y \in Nat : <<y, x>> \in R <=> y < x
  BY Zenon DEF OpToRel
<1> HIDE DEF R
<1>3. PICK x \in T : \A y \in T : ~(<<y, x>> \in R)
  BY <1>1, Zenon
<1>4. ASSUME NEW y \in T
      PROVE  x <= y
  <2>1. ~(<<y, x>> \in R) /\ x \in Nat /\ y \in Nat
    BY <1>3, Zenon
  <2>2. ~(y < x)
    BY <2>1, <1>2, Zenon
  <2> QED
    BY <2>1, <2>2
<1> QED
  BY <1>4, Zenon

\* Up from 0 to m.
LEMMA Induction ==
  ASSUME NEW S, NEW m \in Nat, 0 \in S, \A n \in 0..(m - 1) : n \in S => n + 1 \in S
  PROVE  0..m \subseteq S
<1> DEFINE T == (0..m) \ S
<1>1. SUFFICES ASSUME T # {} PROVE FALSE
  OBVIOUS
<1>2. T \subseteq Nat
  OBVIOUS
<1>3. \E k \in T : \A j \in T : k <= j
  <2> HIDE DEF T
  <2> QED
    BY <1>1, <1>2, LeastNat, Zenon
<1>4. PICK k \in T : \A j \in T : k <= j
  BY <1>3, Zenon
<1>5. k - 1 \in 0..(m - 1) /\ k - 1 \in S
  BY <1>4
<1> QED
  BY <1>4, <1>5

\* A bounded set of natural numbers has a greatest element.
LEMMA GreatestNat ==
  ASSUME NEW T, NEW m \in Nat, T \subseteq 0..m, T # {}
  PROVE  Max(T) \in T /\ \A n \in T : n <= Max(T)
<1> DEFINE B == {k \in 0..m : \A n \in T : n <= k}
<1>1. B \subseteq Nat /\ m \in B
  OBVIOUS
<1>2. \E k \in B : \A j \in B : k <= j
  <2> HIDE DEF B
  <2> QED
    BY <1>1, LeastNat, Zenon
<1>3. PICK k \in B : \A j \in B : k <= j
  BY <1>2, Zenon
<1>4. k \in T
  <2> SUFFICES ASSUME k \notin T
               PROVE  FALSE
    OBVIOUS
  <2>1. \A n \in T : n \in Nat /\ n < k
    BY <1>3
  <2>2. k \in 0..m /\ k # 0
    <3>1. PICK x \in T : TRUE
      OBVIOUS
    <3> QED
      BY <1>3, <2>1, <3>1
  <2>3. k - 1 \in B
    BY <2>1, <2>2
  <2> QED
    BY <1>3, <2>2, <2>3
<1>5. \A n \in T : k >= n
  BY <1>3, Zenon
<1>6. \A x \in T : (\A y \in T : x >= y) => \A n \in T : n <= x
  OBVIOUS
<1> QED
  BY <1>4, <1>5, <1>6, Zenon DEF Max

\* The least element of a set of natural numbers.
LEMMA MinNat ==
  ASSUME NEW T, T \subseteq Nat, T # {}
  PROVE  Min(T) \in T /\ \A n \in T : Min(T) <= n
BY LeastNat, Zenon DEF Min

(***************************************************************************)
(* Looking up                                                              *)
(***************************************************************************)

\* The fields of an area.
LEMMA AreaType ==
  ASSUME NEW a \in Areas
  PROVE  /\ a.start \in Nat /\ a.end \in Nat /\ USER_LOW <= a.start /\ a.end <= USER_HIGH
         /\ a.off \in Nat /\ a.obj \in Objects /\ a.prot \in SUBSET {"r", "w"}
         /\ a.linked \in BOOLEAN
BY VmmapConstants DEF Areas, Pages

\* vmmap_lookup finds the one area that covers a page.
LEMMA Lookup ==
  ASSUME NEW list \in Seq(Areas), Sorted(list), NEW p \in Int
  PROVE  /\ vmmap_lookup(list, p) \in 0..Len(list)
         /\ vmmap_lookup(list, p) # 0 => Covers(list[vmmap_lookup(list, p)], p)
         /\ \A i \in DOMAIN list : Covers(list[i], p) => i = vmmap_lookup(list, p)
<1> DEFINE I == {i \in DOMAIN list : Covers(list[i], p)}
<1>1. vmmap_lookup(list, p) = IF I = {} THEN 0 ELSE Min(I)
  BY Zenon DEF vmmap_lookup
<1>2. I \subseteq Nat /\ I \subseteq 1..Len(list) /\ DOMAIN list = 1..Len(list)
  OBVIOUS
<1>3. I # {} => Min(I) \in I
  <2> HIDE DEF I
  <2> QED
    BY <1>2, MinNat, Zenon
<1>4. ASSUME NEW i \in I, NEW j \in I
      PROVE  i = j
  <2>1. /\ list[i].start \in Nat /\ list[i].end \in Nat
        /\ list[j].start \in Nat /\ list[j].end \in Nat
    BY <1>2, AreaType
  <2>2. ~(i < j) /\ ~(j < i)
    BY <1>2, <2>1 DEF Sorted, Covers
  <2> QED
    BY <1>2, <2>2
<1>5. \A i \in DOMAIN list : Covers(list[i], p) => i \in I
  BY <1>2, Zenon
<1>6. \A i \in I : i \in 1..Len(list) /\ i # 0 /\ Covers(list[i], p)
  OBVIOUS
<1> HIDE DEF I
<1>7. CASE I = {}
  BY <1>1, <1>5, <1>7
<1>8. CASE I # {}
  <2> DEFINE k == Min(I)
  <2>1. k \in I /\ vmmap_lookup(list, p) = k
    BY <1>1, <1>3, <1>8, Zenon
  <2>2. k \in 0..Len(list) /\ Covers(list[k], p)
    BY <1>6, <2>1
  <2>3. \A i \in DOMAIN list : Covers(list[i], p) => i = k
    BY <1>4, <1>5, <2>1, Zenon
  <2> HIDE DEF k
  <2> QED
    BY <2>1, <2>2, <2>3, Zenon
<1> QED
  BY <1>7, <1>8, Zenon

(***************************************************************************)
(* Removing                                                                *)
(***************************************************************************)

\* b is a part of a that keeps clear of the pages from lo to hi.
PartOf(b, a, lo, hi) ==
  /\ b \in Areas
  /\ b.start < b.end /\ a.start <= b.start /\ b.end <= a.end
  /\ b.obj = a.obj /\ b.prot = a.prot /\ b.off - b.start = a.off - a.start
  /\ b.linked => a.linked
  /\ b.end <= lo \/ hi <= b.start

\* What vmmap_remove leaves of one area: at most two parts, in order, that have
\* all its pages outside the range.
LEMMA RestParts ==
  ASSUME NEW a \in Areas, a.start < a.end, NEW lo \in Nat, NEW hi \in Nat, lo <= hi
  PROVE  /\ Rest(a, lo, hi) \in Seq(Areas) /\ Len(Rest(a, lo, hi)) \in 0..2
         /\ \A k \in DOMAIN Rest(a, lo, hi) : PartOf(Rest(a, lo, hi)[k], a, lo, hi)
         /\ Sorted(Rest(a, lo, hi))
         /\ \A p \in Int : Covers(a, p) /\ (p < lo \/ hi <= p) =>
              \E k \in DOMAIN Rest(a, lo, hi) : Covers(Rest(a, lo, hi)[k], p)
<1> DEFINE low == [a EXCEPT !.end = lo]
           high == MoveStart(a, hi)
           new == [MoveStart(a, hi) EXCEPT !.linked = FALSE]
<1>1. /\ a.start \in Nat /\ a.end \in Nat /\ USER_LOW <= a.start /\ a.end <= USER_HIGH
      /\ a.off \in Nat /\ USER_LOW \in Nat /\ USER_HIGH \in Nat
  BY AreaType, VmmapConstants, Zenon
<1>2. /\ low.start = a.start /\ low.end = lo /\ low.off = a.off /\ low.obj = a.obj
      /\ low.prot = a.prot /\ low.linked = a.linked
  BY Zenon DEF Areas
<1>3. /\ high.start = hi /\ high.end = a.end /\ high.off = a.off + hi - a.start
      /\ high.obj = a.obj /\ high.prot = a.prot /\ high.linked = a.linked
  BY Zenon DEF Areas, MoveStart
<1>4. /\ new.start = hi /\ new.end = a.end /\ new.off = a.off + hi - a.start
      /\ new.obj = a.obj /\ new.prot = a.prot /\ new.linked = FALSE
  BY Zenon DEF Areas, MoveStart
<1>5. a.start < lo /\ lo <= a.end => low \in Areas
  BY <1>1 DEF Areas, Pages
<1>6. ASSUME a.start <= hi, hi < a.end
      PROVE  high \in Areas /\ new \in Areas
  <2>1. hi \in Pages /\ a.off + hi - a.start \in Nat
    BY <1>1, <1>6 DEF Pages
  <2>2. high \in Areas
    BY <2>1, Zenon DEF Areas, MoveStart
  <2>3. new = [high EXCEPT !.linked = FALSE]
    OBVIOUS
  <2> HIDE DEF high, new
  <2> QED
    BY <2>2, <2>3, Zenon DEF Areas
<1> HIDE DEF low, high, new
<1>7. CASE a.start < lo /\ a.end > hi
  <2>1. Rest(a, lo, hi) = <<low, new>>
    <3>1. ~(a.end <= hi) /\ ~(lo <= a.start)
      BY <1>1, <1>7
    <3> QED
      BY <1>7, <3>1, Zenon DEF Rest, low, new
  <2>2. PartOf(low, a, lo, hi) /\ PartOf(new, a, lo, hi)
    BY <1>1, <1>2, <1>4, <1>5, <1>6, <1>7 DEF PartOf
  <2>3. \A p \in Int : Covers(a, p) /\ (p < lo \/ hi <= p) => Covers(low, p) \/ Covers(new, p)
    BY <1>1, <1>2, <1>4, <1>7, Zenon DEF Covers
  <2>4. low.start < low.end /\ new.start < new.end /\ low.end <= new.start
    BY <1>1, <1>2, <1>4, <1>7, Zenon
  <2>5. low \in Areas /\ new \in Areas
    BY <2>2, Zenon DEF PartOf
  <2> QED
    BY <2>1, <2>2, <2>3, <2>4, <2>5 DEF Sorted
<1>8. CASE a.start < lo /\ lo < a.end /\ a.end <= hi
  <2>1. Rest(a, lo, hi) = <<low>>
    BY <1>1, <1>8 DEF Rest, low
  <2>2. PartOf(low, a, lo, hi)
    BY <1>1, <1>2, <1>5, <1>8 DEF PartOf
  <2>3. \A p \in Int : Covers(a, p) /\ (p < lo \/ hi <= p) => Covers(low, p)
    BY <1>1, <1>2, <1>8 DEF Covers
  <2> QED
    BY <2>1, <2>2, <2>3 DEF Sorted, PartOf
<1>9. CASE lo <= a.start /\ a.start < hi /\ hi < a.end
  <2>1. Rest(a, lo, hi) = <<high>>
    BY <1>1, <1>9 DEF Rest, high
  <2>2. PartOf(high, a, lo, hi)
    BY <1>1, <1>3, <1>6, <1>9 DEF PartOf
  <2>3. \A p \in Int : Covers(a, p) /\ (p < lo \/ hi <= p) => Covers(high, p)
    BY <1>1, <1>3, <1>9 DEF Covers
  <2> QED
    BY <2>1, <2>2, <2>3 DEF Sorted, PartOf
<1>10. CASE lo <= a.start /\ a.end <= hi
  <2>1. Rest(a, lo, hi) = <<>>
    BY <1>1, <1>10 DEF Rest
  <2>2. \A p \in Int : ~(Covers(a, p) /\ (p < lo \/ hi <= p))
    BY <1>1, <1>10 DEF Covers
  <2> QED
    BY <2>1, <2>2 DEF Sorted
<1>11. CASE a.end <= lo \/ (hi <= a.start /\ ~(lo <= a.start /\ a.end <= hi))
  <2>1. Rest(a, lo, hi) = <<a>>
    BY <1>1, <1>11 DEF Rest
  <2>2. PartOf(a, a, lo, hi)
    BY <1>1, <1>11 DEF PartOf
  <2> QED
    BY <2>1, <2>2 DEF Sorted, PartOf
<1> QED
  BY <1>1, <1>7, <1>8, <1>9, <1>10, <1>11

\* Two lists, one behind the other.
LEMMA Concat ==
  ASSUME NEW l \in Seq(Areas), NEW m \in Seq(Areas), Sorted(l), Sorted(m),
         \A i \in DOMAIN l, j \in DOMAIN m : l[i].end <= m[j].start
  PROVE  /\ l \o m \in Seq(Areas) /\ Sorted(l \o m)
         /\ \A i \in DOMAIN (l \o m) :
              (\E j \in DOMAIN l : (l \o m)[i] = l[j]) \/ (\E j \in DOMAIN m : (l \o m)[i] = m[j])
         /\ \A j \in DOMAIN l : \E i \in DOMAIN (l \o m) : (l \o m)[i] = l[j]
         /\ \A j \in DOMAIN m : \E i \in DOMAIN (l \o m) : (l \o m)[i] = m[j]
<1> DEFINE r == l \o m
<1>1. /\ r \in Seq(Areas) /\ Len(r) = Len(l) + Len(m) /\ DOMAIN r = 1..Len(r)
      /\ Len(l) \in Nat /\ Len(m) \in Nat /\ DOMAIN l = 1..Len(l) /\ DOMAIN m = 1..Len(m)
  OBVIOUS
<1>2. \A i \in 1..Len(l) : i \in DOMAIN r /\ r[i] = l[i]
  BY <1>1
<1>3. \A i \in 1..Len(m) : i + Len(l) \in DOMAIN r /\ r[i + Len(l)] = m[i]
  BY <1>1
<1>4. \A i \in DOMAIN r : i \in 1..Len(l) \/ (i - Len(l) \in 1..Len(m) /\ r[i] = m[i - Len(l)])
  BY <1>1
<1> HIDE DEF r
<1>5. Sorted(r)
  <2>1. \A i \in DOMAIN r : r[i].start < r[i].end
    BY <1>1, <1>2, <1>4, Zenon DEF Sorted
  <2>2. ASSUME NEW i \in DOMAIN r, NEW j \in DOMAIN r, i < j
        PROVE  r[i].end <= r[j].start
    <3>1. CASE j \in 1..Len(l)
      <4>1. i \in 1..Len(l)
        BY <1>1, <2>2, <3>1
      <4> QED
        BY <1>1, <1>2, <2>2, <3>1, <4>1, Zenon DEF Sorted
    <3>2. CASE i \in 1..Len(l) /\ j - Len(l) \in 1..Len(m) /\ r[j] = m[j - Len(l)]
      BY <1>1, <1>2, <3>2, Zenon
    <3>3. CASE /\ i - Len(l) \in 1..Len(m) /\ r[i] = m[i - Len(l)]
               /\ j - Len(l) \in 1..Len(m) /\ r[j] = m[j - Len(l)]
      <4>1. i - Len(l) < j - Len(l)
        BY <1>1, <2>2
      <4> QED
        BY <1>1, <3>3, <4>1, Zenon DEF Sorted
    <3> QED
      BY <1>1, <1>4, <2>2, <3>1, <3>2, <3>3, Zenon
  <2> QED
    BY <2>1, <2>2, Zenon DEF Sorted
<1>6. \A i \in DOMAIN r : (\E j \in DOMAIN l : r[i] = l[j]) \/ (\E j \in DOMAIN m : r[i] = m[j])
  BY <1>1, <1>2, <1>4, Zenon
<1>7. /\ \A j \in DOMAIN l : \E i \in DOMAIN r : r[i] = l[j]
      /\ \A j \in DOMAIN m : \E i \in DOMAIN r : r[i] = m[j]
  BY <1>1, <1>2, <1>3, Zenon
<1> QED
  BY <1>1, <1>5, <1>6, <1>7, Zenon DEF r

Loop(done, list, lo, n) ==
  /\ vmmap_remove(list, lo, n) = done[Len(list)] /\ done[0] = <<>>
  /\ \A i \in 1..Len(list) : done[i] = done[i - 1] \o Rest(list[i], lo, lo + n)

\* The loop of vmmap_remove is what its equation says.
LEMMA RemoveLoop ==
  ASSUME NEW list \in Seq(Areas), NEW lo, NEW n
  PROVE  \E done : Loop(done, list, lo, n)
<1> DEFINE N == Len(list)
           Is(f, m) == f = [i \in 0..m |-> IF i = 0 THEN <<>>
                                           ELSE f[i - 1] \o Rest(list[i], lo, lo + n)]
           done == CHOOSE f : Is(f, N)
           S == {m \in 0..N : \E f : Is(f, m)}
<1>1. \E f : Is(f, 0)
  <2> DEFINE f == [i \in 0..0 |-> <<>>]
  <2>1. Is(f, 0)
    OBVIOUS
  <2> QED
    BY <2>1, Zenon
<1>2. ASSUME NEW m \in 0..(N - 1), NEW f, Is(f, m)
      PROVE  \E g : Is(g, m + 1)
  <2> DEFINE x == f[m] \o Rest(list[m + 1], lo, lo + n)
             g == [i \in 0..(m + 1) |-> IF i <= m THEN f[i] ELSE x]
  <2>1. ASSUME NEW i \in 0..(m + 1)
        PROVE  g[i] = IF i = 0 THEN <<>> ELSE g[i - 1] \o Rest(list[i], lo, lo + n)
    <3>1. CASE i <= m
      <4>1. i \in 0..m
        BY <3>1
      <4>2. f[i] = IF i = 0 THEN <<>> ELSE f[i - 1] \o Rest(list[i], lo, lo + n)
        BY <1>2, <4>1, Zenon
      <4> QED
        BY <4>1, <4>2
    <3>2. CASE i = m + 1
      BY <3>2
    <3> QED
      BY <3>1, <3>2
  <2>2. Is(g, m + 1)
    BY <2>1, Zenon
  <2> HIDE DEF Is
  <2> QED
    BY <2>2, Zenon
<1> HIDE DEF Is
<1>3. N \in S
  <2>1. 0 \in S
    BY <1>1
  <2>2. \A m \in 0..(N - 1) : m \in S => m + 1 \in S
    BY <1>2
  <2>3. N \in Nat
    OBVIOUS
  <2> HIDE DEF S, N
  <2>4. 0..N \subseteq S
    BY <2>1, <2>2, <2>3, Induction, Zenon
  <2> QED
    BY <2>3, <2>4
<1>4. Is(done, N)
  <2>1. \E f : Is(f, N)
    BY <1>3, Zenon
  <2> QED
    BY <2>1, Zenon
<1>5. vmmap_remove(list, lo, n) = done[N]
  BY Zenon DEF vmmap_remove, Is
<1> HIDE DEF done
<1>6. \A i \in 0..N : done[i] = IF i = 0 THEN <<>> ELSE done[i - 1] \o Rest(list[i], lo, lo + n)
  BY <1>4, Zenon DEF Is
<1>7. done[0] = <<>>
  <2>1. 0 \in 0..N
    OBVIOUS
  <2> QED
    BY <1>6, <2>1, Zenon
<1>8. \A i \in 1..N : done[i] = done[i - 1] \o Rest(list[i], lo, lo + n)
  <2>1. \A i \in 1..N : i \in 0..N /\ i # 0
    OBVIOUS
  <2> QED
    BY <1>6, <2>1, Zenon
<1> QED
  BY <1>5, <1>7, <1>8, Zenon DEF Loop

\* vmmap_remove keeps the list sorted and leaves of the areas what is outside the
\* range.
LEMMA RemoveList ==
  ASSUME NEW list \in Seq(Areas), Sorted(list), NEW lo \in Nat, NEW n \in Nat
  PROVE  /\ vmmap_remove(list, lo, n) \in Seq(Areas) /\ Sorted(vmmap_remove(list, lo, n))
         /\ \A j \in DOMAIN vmmap_remove(list, lo, n) : \E i \in DOMAIN list :
              PartOf(vmmap_remove(list, lo, n)[j], list[i], lo, lo + n)
         /\ \A i \in DOMAIN list, p \in Int :
              Covers(list[i], p) /\ (p < lo \/ lo + n <= p) =>
                \E j \in DOMAIN vmmap_remove(list, lo, n) :
                  Covers(vmmap_remove(list, lo, n)[j], p)
<1> DEFINE hi == lo + n
           N == Len(list)
<1>0. PICK done : Loop(done, list, lo, n)
  BY RemoveLoop, Zenon
<1>1. /\ vmmap_remove(list, lo, n) = done[N] /\ done[0] = <<>>
      /\ \A i \in 1..N : done[i] = done[i - 1] \o Rest(list[i], lo, hi)
  BY <1>0, Zenon DEF Loop
<1> DEFINE
           OK(k) ==
             /\ done[k] \in Seq(Areas) /\ Sorted(done[k])
             /\ \A j \in DOMAIN done[k] : \E i \in 1..k : PartOf(done[k][j], list[i], lo, hi)
             /\ \A i \in 1..k, p \in Int : Covers(list[i], p) /\ (p < lo \/ hi <= p) =>
                  \E j \in DOMAIN done[k] : Covers(done[k][j], p)
           S == {k \in 0..N : OK(k)}
<1>2. N \in Nat /\ DOMAIN list = 1..N /\ hi \in Nat /\ lo <= hi
  OBVIOUS
<1>3. OK(0)
  BY <1>1 DEF Sorted
<1>4. ASSUME NEW k \in 0..(N - 1), OK(k)
      PROVE  OK(k + 1)
  <2> DEFINE a == list[k + 1]
             b == Rest(a, lo, hi)
             d == done[k]
             e == d \o b
  <2>1. a \in Areas /\ a.start < a.end /\ k + 1 \in 1..N
    BY <1>2 DEF Sorted
  <2>2. /\ b \in Seq(Areas) /\ Sorted(b) /\ \A j \in DOMAIN b : PartOf(b[j], a, lo, hi)
        /\ \A p \in Int : Covers(a, p) /\ (p < lo \/ hi <= p) => \E j \in DOMAIN b : Covers(b[j], p)
    <3> HIDE DEF a
    <3> QED
      BY <1>2, <2>1, RestParts, Zenon
  <2>3. done[k + 1] = e
    <3>1. (k + 1) - 1 = k
      BY <1>2
    <3>2. done[k + 1] = done[(k + 1) - 1] \o Rest(list[k + 1], lo, hi)
      BY <1>1, <2>1, Zenon
    <3> QED
      BY <3>1, <3>2, Zenon
  <2>4. /\ d \in Seq(Areas) /\ Sorted(d)
        /\ \A j \in DOMAIN d : \E i \in 1..k : PartOf(d[j], list[i], lo, hi)
        /\ \A i \in 1..k, p \in Int : Covers(list[i], p) /\ (p < lo \/ hi <= p) =>
             \E j \in DOMAIN d : Covers(d[j], p)
    BY <1>4, Zenon
  <2>5. \A i \in DOMAIN d, j \in DOMAIN b : d[i].end <= b[j].start
    <3> SUFFICES ASSUME NEW i \in DOMAIN d, NEW j \in DOMAIN b
                 PROVE  d[i].end <= b[j].start
      OBVIOUS
    <3>1. PICK m \in 1..k : PartOf(d[i], list[m], lo, hi)
      BY <2>4, Zenon
    <3>2. list[m].end <= a.start /\ list[m] \in Areas
      BY <1>2, <2>1 DEF Sorted
    <3>3. d[i].end <= list[m].end /\ a.start <= b[j].start /\ d[i] \in Areas /\ b[j] \in Areas
      BY <2>2, <3>1, Zenon DEF PartOf
    <3> HIDE DEF a, b, d
    <3> QED
      BY <2>1, <3>2, <3>3, AreaType
  <2> HIDE DEF b, d
  <2>6. /\ e \in Seq(Areas) /\ Sorted(e)
        /\ \A i \in DOMAIN e : (\E j \in DOMAIN d : e[i] = d[j]) \/ (\E j \in DOMAIN b : e[i] = b[j])
        /\ \A j \in DOMAIN d : \E i \in DOMAIN e : e[i] = d[j]
        /\ \A j \in DOMAIN b : \E i \in DOMAIN e : e[i] = b[j]
    BY <2>2, <2>4, <2>5, Concat, Zenon
  <2> HIDE DEF e, hi, N
  <2>7. \A j \in DOMAIN e : \E i \in 1..(k + 1) : PartOf(e[j], list[i], lo, hi)
    <3> SUFFICES ASSUME NEW j \in DOMAIN e
                 PROVE  \E i \in 1..(k + 1) : PartOf(e[j], list[i], lo, hi)
      OBVIOUS
    <3>1. CASE \E m \in DOMAIN d : e[j] = d[m]
      <4>1. PICK i \in 1..k : PartOf(e[j], list[i], lo, hi)
        BY <2>4, <3>1, Zenon
      <4>2. i \in 1..(k + 1)
        BY <1>2
      <4> QED
        BY <4>1, <4>2, Zenon
    <3>2. CASE \E m \in DOMAIN b : e[j] = b[m]
      <4>1. PartOf(e[j], list[k + 1], lo, hi)
        BY <2>2, <3>2, Zenon
      <4>2. k + 1 \in 1..(k + 1)
        BY <1>2
      <4> QED
        BY <4>1, <4>2, Zenon
    <3> QED
      BY <2>6, <3>1, <3>2, Zenon
  <2>8. ASSUME NEW i \in 1..(k + 1), NEW p \in Int, Covers(list[i], p), p < lo \/ hi <= p
        PROVE  \E j \in DOMAIN e : Covers(e[j], p)
    <3>1. CASE i \in 1..k
      <4>1. \E j \in DOMAIN d : Covers(d[j], p)
        BY <2>4, <2>8, <3>1, Zenon
      <4> QED
        BY <2>6, <4>1, Zenon
    <3>2. CASE i = k + 1
      <4>1. \E j \in DOMAIN b : Covers(b[j], p)
        BY <2>2, <2>8, <3>2, Zenon
      <4> QED
        BY <2>6, <4>1, Zenon
    <3> QED
      BY <1>2, <3>1, <3>2
  <2> QED
    BY <2>3, <2>6, <2>7, <2>8, Zenon
<1> HIDE DEF OK, hi
<1>5. N \in S
  <2>1. 0 \in S
    BY <1>2, <1>3
  <2>2. \A k \in 0..(N - 1) : k \in S => k + 1 \in S
    BY <1>2, <1>4
  <2> HIDE DEF S, N
  <2> QED
    BY <1>2, <2>1, <2>2, Induction
<1>6. OK(N)
  BY <1>5, Zenon
<1> QED
  BY <1>1, <1>2, <1>6, Zenon DEF OK, hi

(***************************************************************************)
(* Inserting                                                               *)
(***************************************************************************)

\* r is list with a put in at position k.
Inserted(r, list, a, k) ==
  /\ k \in 1..(Len(list) + 1)
  /\ r = [i \in 1..(Len(list) + 1) |-> IF i < k THEN list[i] ELSE IF i = k THEN a ELSE list[i - 1]]

\* vmmap_insert keeps the list sorted when the new area's range is free.
LEMMA InsertList ==
  ASSUME NEW list \in Seq(Areas), Sorted(list), NEW a \in Areas, a.start < a.end,
         vmmap_is_range_empty(list, a.start, a.end - a.start)
  PROVE  \E k : /\ Inserted(vmmap_insert(list, a), list, a, k)
                /\ vmmap_insert(list, a) \in Seq(Areas) /\ Sorted(vmmap_insert(list, a))
<1> DEFINE N == Len(list)
           behind == {i \in DOMAIN list : list[i].start >= a.end}
           k == IF behind = {} THEN N + 1 ELSE Min(behind)
           r == [i \in 1..(N + 1) |-> IF i < k THEN list[i] ELSE IF i = k THEN a ELSE list[i - 1]]
<1>1. N \in Nat /\ DOMAIN list = 1..N /\ behind \subseteq Nat
  OBVIOUS
<1>2. behind # {} => Min(behind) \in behind /\ \A i \in behind : Min(behind) <= i
  <2> HIDE DEF behind
  <2> QED
    BY <1>1, MinNat, Zenon
<1>3. /\ k \in 1..(N + 1)
      /\ \A i \in 1..N : i < k => list[i].start < a.end
      /\ k # N + 1 => k \in 1..N /\ list[k].start >= a.end
  <2>1. CASE behind = {}
    <3>1. k = N + 1
      BY <2>1, Zenon
    <3>2. \A i \in 1..N : ~(list[i].start >= a.end)
      BY <1>1, <2>1, Zenon
    <3> HIDE DEF k, behind, N
    <3> QED
      BY <1>1, <3>1, <3>2, AreaType
  <2>2. CASE behind # {}
    <3>1. k = Min(behind)
      BY <2>2, Zenon
    <3>2. k \in 1..N /\ list[k].start >= a.end /\ \A i \in behind : k <= i
      BY <1>1, <1>2, <2>2, <3>1, Zenon
    <3>3. a.end \in Nat /\ \A i \in 1..N : list[i] \in Areas /\ list[i].start \in Nat
      BY <1>1, AreaType
    <3> HIDE DEF k, N
    <3>4. ASSUME NEW i \in 1..N, i < k
          PROVE  list[i].start < a.end
      <4>1. i \notin behind
        BY <1>1, <3>2, <3>4
      <4> QED
        BY <1>1, <3>3, <4>1
    <3> QED
      BY <1>1, <3>2, <3>4
  <2> QED
    BY <2>1, <2>2, Zenon
<1>4. vmmap_insert(list, a) = r
  BY Zenon DEF vmmap_insert
<1> HIDE DEF k, behind
<1>5. \A i \in 1..N : list[i].start \in Nat /\ list[i].end \in Nat /\ list[i].start < list[i].end
  BY <1>1, AreaType DEF Sorted
<1>6. a.start \in Nat /\ a.end \in Nat
  BY AreaType, Zenon
<1>7. \A i \in 1..N : i < k => list[i].end <= a.start
  BY <1>1, <1>3, <1>5, <1>6 DEF vmmap_is_range_empty
<1>8. \A i \in 1..N : k <= i => list[i].start >= a.end
  <2> SUFFICES ASSUME NEW i \in 1..N, k <= i
               PROVE  list[i].start >= a.end
    OBVIOUS
  <2>1. k \in 1..N /\ list[k].start >= a.end
    BY <1>1, <1>3
  <2>2. k = i \/ list[k].end <= list[i].start
    BY <1>1, <2>1 DEF Sorted
  <2> QED
    BY <1>5, <1>6, <2>1, <2>2
<1>9. r \in Seq(Areas)
  <2>1. \A i \in 1..(N + 1) : r[i] \in Areas
    BY <1>1, <1>3
  <2> QED
    BY <1>1, <2>1
<1>10. /\ DOMAIN r = 1..(N + 1)
       /\ r[k] = a
       /\ \A i \in 1..(N + 1) : i < k => i \in 1..N /\ r[i] = list[i]
       /\ \A i \in 1..(N + 1) : i > k => i - 1 \in 1..N /\ k <= i - 1 /\ r[i] = list[i - 1]
  BY <1>1, <1>3
<1> HIDE DEF r, N
<1>11. Sorted(r)
  <2>1. ASSUME NEW i \in 1..(N + 1)
        PROVE  r[i].start < r[i].end
    <3>1. CASE i < k
      BY <1>5, <1>10, <3>1, Zenon
    <3>2. CASE i = k
      BY <1>10, <3>2, Zenon
    <3>3. CASE i > k
      BY <1>5, <1>10, <3>3, Zenon
    <3> QED
      BY <1>1, <1>3, <3>1, <3>2, <3>3
  <2>2. ASSUME NEW i \in 1..(N + 1), NEW j \in 1..(N + 1), i < j
        PROVE  r[i].end <= r[j].start
    <3>1. CASE j < k
      <4>1. i \in 1..N /\ j \in 1..N /\ r[i] = list[i] /\ r[j] = list[j]
        <5>1. i < k
          BY <1>1, <1>3, <2>2, <3>1
        <5> QED
          BY <1>10, <3>1, <5>1, Zenon
      <4> QED
        BY <1>1, <2>2, <4>1, Zenon DEF Sorted
    <3>2. CASE j = k
      <4>1. i < k
        BY <2>2, <3>2, Zenon
      <4>2. i \in 1..N /\ r[i] = list[i] /\ r[j] = a
        BY <1>10, <3>2, <4>1, Zenon
      <4> QED
        BY <1>7, <4>1, <4>2, Zenon
    <3>3. CASE i < k /\ j > k
      <4>1. i \in 1..N /\ r[i] = list[i]
        BY <1>10, <3>3, Zenon
      <4>2. j - 1 \in 1..N /\ r[j] = list[j - 1] /\ k <= j - 1
        BY <1>10, <3>3, Zenon
      <4>3. i < j - 1
        BY <1>3, <3>3, <4>2
      <4> QED
        BY <1>1, <4>1, <4>2, <4>3, Zenon DEF Sorted
    <3>4. CASE i = k
      <4>1. j - 1 \in 1..N /\ k <= j - 1 /\ r[j] = list[j - 1] /\ r[i] = a
        BY <1>10, <2>2, <3>4, Zenon
      <4> QED
        BY <1>5, <1>6, <1>8, <4>1, Zenon
    <3>5. CASE i > k
      <4>1. i - 1 \in 1..N /\ r[i] = list[i - 1]
        BY <1>10, <3>5, Zenon
      <4>2. j > k /\ i - 1 < j - 1
        BY <1>3, <2>2, <3>5
      <4>3. j - 1 \in 1..N /\ r[j] = list[j - 1]
        BY <1>10, <4>2, Zenon
      <4> QED
        BY <1>1, <4>1, <4>2, <4>3, Zenon DEF Sorted
    <3> QED
      BY <1>1, <1>3, <2>2, <3>1, <3>2, <3>3, <3>4, <3>5
  <2> QED
    BY <1>10, <2>1, <2>2, Zenon DEF Sorted
<1>12. Inserted(r, list, a, k)
  BY <1>3, Zenon DEF Inserted, r, N
<1> QED
  BY <1>4, <1>9, <1>11, <1>12, Zenon

\* What is on a list after an insertion.
LEMMA InsertedAreas ==
  ASSUME NEW list \in Seq(Areas), NEW a, NEW k, NEW r, Inserted(r, list, a, k)
  PROVE  /\ \E j \in DOMAIN r : r[j] = a
         /\ \A j \in DOMAIN r : r[j] = a \/ \E i \in DOMAIN list : r[j] = list[i]
         /\ \A i \in DOMAIN list : \E j \in DOMAIN r : r[j] = list[i]
<1>1. Len(list) \in Nat /\ DOMAIN list = 1..Len(list) /\ k \in 1..(Len(list) + 1)
  BY DEF Inserted
<1>2. DOMAIN r = 1..(Len(list) + 1) /\ r[k] = a
  BY <1>1 DEF Inserted
<1>3. ASSUME NEW j \in DOMAIN r
      PROVE  r[j] = a \/ \E i \in DOMAIN list : r[j] = list[i]
  <2>1. CASE j < k
    BY <1>1, <1>2, <2>1 DEF Inserted
  <2>2. CASE j > k
    <3>1. j - 1 \in DOMAIN list /\ r[j] = list[j - 1]
      BY <1>1, <1>2, <2>2 DEF Inserted
    <3> QED
      BY <3>1, Zenon
  <2> QED
    BY <1>1, <1>2, <2>1, <2>2
<1>4. ASSUME NEW i \in DOMAIN list
      PROVE  \E j \in DOMAIN r : r[j] = list[i]
  <2>1. CASE i < k
    BY <1>1, <1>2, <2>1 DEF Inserted
  <2>2. CASE i >= k
    <3>1. i + 1 \in DOMAIN r /\ r[i + 1] = list[(i + 1) - 1]
      BY <1>1, <1>2, <2>2 DEF Inserted
    <3>2. (i + 1) - 1 = i
      BY <1>1
    <3> QED
      BY <3>1, <3>2, Zenon
  <2> QED
    BY <1>1, <2>1, <2>2
<1> QED
  BY <1>1, <1>2, <1>3, <1>4, Zenon

(***************************************************************************)
(* Free ranges                                                             *)
(***************************************************************************)

\* vmmap_is_range_empty: no area has a page of the range.
LEMMA RangeEmpty ==
  ASSUME NEW list \in Seq(Areas), Sorted(list), NEW lo \in Nat, NEW n \in Nat \ {0}
  PROVE  vmmap_is_range_empty(list, lo, n) <=>
           \A i \in DOMAIN list, p \in lo..(lo + n - 1) : ~Covers(list[i], p)
<1>1. \A i \in DOMAIN list : /\ list[i].start \in Nat /\ list[i].end \in Nat
                             /\ list[i].start < list[i].end
  BY AreaType DEF Sorted
<1>2. ASSUME vmmap_is_range_empty(list, lo, n), NEW i \in DOMAIN list, NEW p \in lo..(lo + n - 1)
      PROVE  ~Covers(list[i], p)
  BY <1>1, <1>2 DEF vmmap_is_range_empty, Covers
<1>3. ASSUME \A i \in DOMAIN list, p \in lo..(lo + n - 1) : ~Covers(list[i], p),
             NEW i \in DOMAIN list, list[i].start < lo + n, list[i].end > lo
      PROVE  FALSE
  <2>1. CASE list[i].start <= lo
    <3>1. lo \in lo..(lo + n - 1) /\ Covers(list[i], lo)
      BY <1>1, <1>3, <2>1 DEF Covers
    <3> QED
      BY <1>3, <3>1, Zenon
  <2>2. CASE lo < list[i].start
    <3>1. list[i].start \in lo..(lo + n - 1) /\ Covers(list[i], list[i].start)
      BY <1>1, <1>3, <2>2 DEF Covers
    <3> QED
      BY <1>3, <3>1, Zenon
  <2> QED
    BY <1>1, <2>1, <2>2
<1> QED
  BY <1>2, <1>3, Zenon DEF vmmap_is_range_empty

\* vmmap_find_range finds the highest free range, and finds one if there is one.
LEMMA FindRange ==
  ASSUME NEW list \in Seq(Areas), Sorted(list), NEW n \in 1..(USER_HIGH - USER_LOW)
  PROVE  /\ vmmap_find_range(list, n) # -1 =>
              /\ vmmap_find_range(list, n) \in USER_LOW..(USER_HIGH - n)
              /\ vmmap_is_range_empty(list, vmmap_find_range(list, n), n)
         /\ \A lo \in USER_LOW..(USER_HIGH - n) : vmmap_is_range_empty(list, lo, n) =>
              vmmap_find_range(list, n) # -1 /\ lo <= vmmap_find_range(list, n)
<1> DEFINE N == Len(list)
           top(i) == IF i = N THEN USER_HIGH ELSE list[i + 1].start
           bottom(i) == IF i = 0 THEN USER_LOW ELSE list[i].end
           gaps == {i \in 0..N : Fits(list, i, n)}
           g == Max(gaps)
           r == vmmap_find_range(list, n)
<1>1. /\ N \in Nat /\ DOMAIN list = 1..N /\ gaps \subseteq 0..N
      /\ USER_LOW \in Nat /\ USER_HIGH \in Nat /\ USER_LOW < USER_HIGH
  BY VmmapConstants
<1>2. \A i \in 1..N : /\ list[i].start \in Nat /\ list[i].end \in Nat
                      /\ list[i].start < list[i].end
                      /\ USER_LOW <= list[i].start /\ list[i].end <= USER_HIGH
  BY <1>1, AreaType DEF Sorted
<1>3. r = IF gaps = {} THEN -1 ELSE top(g) - n
  BY Zenon DEF vmmap_find_range
<1>4. \A i \in 0..N : i \in gaps <=> top(i) - bottom(i) >= n
  BY Zenon DEF Fits
<1>5. gaps # {} => g \in gaps /\ \A i \in gaps : i <= g
  <2> HIDE DEF gaps, N
  <2> QED
    BY <1>1, GreatestNat, Zenon
<1> HIDE DEF gaps, g, r, N
<1>6. \A i \in 0..N : /\ top(i) \in Nat /\ bottom(i) \in Nat
                      /\ USER_LOW <= bottom(i) /\ top(i) <= USER_HIGH
  <2> SUFFICES ASSUME NEW i \in 0..N
               PROVE  /\ top(i) \in Nat /\ bottom(i) \in Nat
                      /\ USER_LOW <= bottom(i) /\ top(i) <= USER_HIGH
    OBVIOUS
  <2>1. i # N => i + 1 \in 1..N
    BY <1>1
  <2>2. i # 0 => i \in 1..N
    BY <1>1
  <2> QED
    BY <1>1, <1>2, <2>1, <2>2
<1>7. ASSUME NEW i \in 0..N, NEW m \in 1..N
      PROVE  /\ m <= i => list[m].end <= bottom(i)
             /\ m > i => top(i) <= list[m].start
  <2>1. ASSUME m <= i
        PROVE  list[m].end <= bottom(i)
    <3>1. i \in 1..N /\ bottom(i) = list[i].end
      BY <1>1, <2>1
    <3>2. m = i \/ list[m].end <= list[i].start
      BY <1>1, <2>1, <3>1 DEF Sorted
    <3> QED
      BY <1>2, <3>1, <3>2
  <2>2. ASSUME m > i
        PROVE  top(i) <= list[m].start
    <3>1. i + 1 \in 1..N /\ top(i) = list[i + 1].start
      BY <1>1, <2>2
    <3>2. m = i + 1 \/ list[i + 1].end <= list[m].start
      BY <1>1, <2>2, <3>1 DEF Sorted
    <3> QED
      BY <1>2, <3>1, <3>2
  <2> QED
    BY <2>1, <2>2, Zenon
<1>8. ASSUME NEW i \in 0..N, NEW j \in 0..N, i <= j
      PROVE  top(i) <= top(j)
  <2>1. CASE j = N
    BY <1>1, <1>6, <2>1, Zenon
  <2>2. CASE j # N
    <3>1. j + 1 \in 1..N /\ j + 1 > i /\ top(j) = list[j + 1].start
      BY <1>1, <1>8, <2>2
    <3> HIDE DEF top
    <3> QED
      BY <1>7, <3>1, Zenon
  <2> QED
    BY <2>1, <2>2, Zenon
<1> HIDE DEF top, bottom
<1>9. ASSUME r # -1
      PROVE  r \in USER_LOW..(USER_HIGH - n) /\ vmmap_is_range_empty(list, r, n)
  <2>1. gaps # {} /\ g \in gaps /\ g \in 0..N /\ r = top(g) - n
    BY <1>1, <1>3, <1>5, <1>9, Zenon
  <2>2. top(g) - bottom(g) >= n
    BY <1>4, <2>1, Zenon
  <2>a. top(g) \in Nat /\ bottom(g) \in Nat /\ USER_LOW <= bottom(g) /\ top(g) <= USER_HIGH
    BY <1>6, <2>1, Zenon
  <2>3. r \in USER_LOW..(USER_HIGH - n) /\ bottom(g) <= r /\ r + n = top(g)
    BY <1>1, <2>a, <2>1, <2>2
  <2>4. ASSUME NEW m \in 1..N, list[m].start < r + n, list[m].end > r
        PROVE  FALSE
    <3>1. m <= g \/ m > g
      BY <2>1
    <3>2. (m <= g => list[m].end <= bottom(g)) /\ (m > g => top(g) <= list[m].start)
      BY <1>7, <2>1, Zenon
    <3>3. list[m].start \in Nat /\ list[m].end \in Nat
      BY <1>2, Zenon
    <3> QED
      BY <2>a, <2>3, <2>4, <3>1, <3>2, <3>3
  <2> QED
    BY <1>1, <2>3, <2>4, Zenon DEF vmmap_is_range_empty
<1>10. ASSUME NEW lo \in USER_LOW..(USER_HIGH - n), vmmap_is_range_empty(list, lo, n)
       PROVE  r # -1 /\ lo <= r
  <2> DEFINE below == {i \in 0..N : i = 0 \/ list[i].end <= lo}
             j == Max(below)
  <2>1. below \subseteq 0..N /\ 0 \in below
    BY <1>1
  <2>2. j \in below /\ \A i \in below : i <= j
    <3> HIDE DEF below
    <3> QED
      BY <1>1, <2>1, GreatestNat, Zenon
  <2>3. j \in 0..N /\ (j = 0 \/ list[j].end <= lo)
    BY <2>2, Zenon
  <2>4. j # N => j + 1 \in 1..N /\ ~(list[j + 1].end <= lo)
    <3> SUFFICES ASSUME j # N
                 PROVE  j + 1 \in 1..N /\ ~(list[j + 1].end <= lo)
      OBVIOUS
    <3>1. j + 1 \in 1..N /\ ~(j + 1 <= j)
      BY <1>1, <2>3
    <3>2. j + 1 \notin below
      BY <2>2, <3>1, Zenon
    <3> QED
      BY <3>1, <3>2
  <2> HIDE DEF j, below
  <2>5. bottom(j) <= lo
    BY <1>1, <2>3 DEF bottom
  <2>6. lo + n <= top(j)
    <3>1. CASE j = N
      BY <1>1, <3>1 DEF top
    <3>2. CASE j # N
      <4>1. top(j) = list[j + 1].start
        BY <3>2, Zenon DEF top
      <4>2. ~(list[j + 1].start < lo + n)
        BY <1>1, <1>2, <2>4, <3>2, <1>10 DEF vmmap_is_range_empty
      <4> QED
        BY <1>1, <1>2, <2>4, <3>2, <4>1, <4>2
    <3> QED
      BY <3>1, <3>2, Zenon
  <2>a. top(j) \in Nat /\ bottom(j) \in Nat
    BY <1>6, <2>3, Zenon
  <2>b. top(j) - bottom(j) >= n
    BY <1>1, <2>5, <2>6, <2>a
  <2>7. j \in gaps
    BY <1>4, <2>3, <2>b, Zenon
  <2>8. g \in 0..N /\ j <= g /\ r = top(g) - n
    BY <1>1, <1>3, <1>5, <2>7, Zenon
  <2>9. top(j) <= top(g) /\ top(g) \in Nat
    BY <1>6, <1>8, <2>3, <2>8, Zenon
  <2>10. lo <= top(g) - n /\ top(g) - n >= 0
    BY <1>1, <2>6, <2>9, <2>a
  <2> QED
    BY <2>8, <2>10
<1> QED
  BY <1>9, <1>10, Zenon DEF r

(***************************************************************************)
(* Copying to and from the user                                            *)
(***************************************************************************)

\* The byte b of a buffer, and the byte of the page that it is.
Byte(vaddr, b) == <<b, ADDR_TO_PN(vaddr + b), (vaddr + b) % PAGE_SIZE>>
Bytes(vaddr, d, count) == {Byte(vaddr, b) : b \in d..(count - 1)}
Piece(vaddr, count, d) == Min({count - d, PAGE_SIZE - ((vaddr + d) % PAGE_SIZE)})
OnePage(vaddr, count, d) ==
  {<<d + b, ADDR_TO_PN(vaddr + d), ((vaddr + d) % PAGE_SIZE) + b>> :
     b \in 0..(Piece(vaddr, count, d) - 1)}

\* A piece is within a page.
LEMMA PieceSize ==
  ASSUME NEW vaddr \in Nat, NEW count \in Nat, NEW d \in 0..(count - 1)
  PROVE  /\ Piece(vaddr, count, d) \in 1..(count - d)
         /\ ((vaddr + d) % PAGE_SIZE) + Piece(vaddr, count, d) <= PAGE_SIZE
<1> DEFINE x == count - d
           o == (vaddr + d) % PAGE_SIZE
           y == PAGE_SIZE - o
           m == Min({x, y})
<1>1. PAGE_SIZE \in Nat \ {0} /\ o \in Nat /\ o < PAGE_SIZE
  BY VmmapConstants
<1> HIDE DEF o
<1>2. x \in Nat \ {0} /\ y \in Nat \ {0} /\ o + y = PAGE_SIZE
  BY <1>1
<1> HIDE DEF x, y
<1>3. m \in {x, y} /\ m <= x /\ m <= y
  BY <1>2, MinNat, Zenon
<1> HIDE DEF m
<1>4. m \in 1..x /\ o + m <= PAGE_SIZE
  BY <1>1, <1>2, <1>3
<1> QED
  BY <1>4, Zenon DEF Piece, m, x, y, o

\* A piece and the bytes behind it are the bytes from its beginning.
LEMMA PieceThenRest ==
  ASSUME NEW vaddr \in Nat, NEW count \in Nat, NEW d \in 0..(count - 1)
  PROVE  OnePage(vaddr, count, d) \cup Bytes(vaddr, d + Piece(vaddr, count, d), count)
           = Bytes(vaddr, d, count)
<1> DEFINE c == vaddr + d
           m == Piece(vaddr, count, d)
<1>1. m \in 1..(count - d) /\ (c % PAGE_SIZE) + m <= PAGE_SIZE
  BY PieceSize, Zenon
<1>2. c \in Nat /\ PAGE_SIZE \in Nat \ {0} /\ d \in Nat
  BY VmmapConstants
<1> HIDE DEF m
<1>3. ASSUME NEW b \in 0..(m - 1)
      PROVE  <<d + b, ADDR_TO_PN(c), (c % PAGE_SIZE) + b>> = Byte(vaddr, d + b)
  <2>1. b \in Nat /\ (c % PAGE_SIZE) + b < PAGE_SIZE
    BY <1>1, <1>2
  <2> HIDE DEF c
  <2>2. (c + b) \div PAGE_SIZE = c \div PAGE_SIZE /\ (c + b) % PAGE_SIZE = (c % PAGE_SIZE) + b
    BY <1>2, <2>1
  <2>3. vaddr + (d + b) = c + b
    BY <1>2, <2>1 DEF c
  <2> QED
    BY <2>2, <2>3, Zenon DEF Byte, ADDR_TO_PN
<1>4. OnePage(vaddr, count, d) = {Byte(vaddr, d + b) : b \in 0..(m - 1)}
  BY <1>3, Zenon DEF OnePage, m
<1>5. {Byte(vaddr, d + b) : b \in 0..(m - 1)} = {Byte(vaddr, b) : b \in d..(d + m - 1)}
  <2>1. \A b \in 0..(m - 1) : d + b \in d..(d + m - 1)
    BY <1>1, <1>2
  <2>2. \A b \in d..(d + m - 1) : b - d \in 0..(m - 1) /\ d + (b - d) = b
    BY <1>1, <1>2
  <2> QED
    BY <2>1, <2>2, Zenon
<1>6. d..(count - 1) = (d..(d + m - 1)) \cup ((d + m)..(count - 1))
  BY <1>1, <1>2
<1> QED
  BY <1>4, <1>5, <1>6, Zenon DEF Bytes, m

\* The loop of vmmap_read and vmmap_write copies every byte of the buffer once, to
\* or from the byte of user memory that it stands for.
LEMMA CopyIs ==
  ASSUME NEW vaddr \in Nat, NEW count \in Nat
  PROVE  vmmap_copy(vaddr, count) = Bytes(vaddr, 0, count)
<1> DEFINE Is(f) == f = [d \in 0..count |->
                           IF d = count THEN {}
                           ELSE OnePage(vaddr, count, d) \cup f[d + Piece(vaddr, count, d)]]
           G == [d \in 0..count |-> Bytes(vaddr, d, count)]
           copied == CHOOSE f : Is(f)
<1>1. vmmap_copy(vaddr, count) = copied[0]
  BY Zenon DEF vmmap_copy, OnePage, Piece
<1>2. \A d \in 0..(count - 1) : d + Piece(vaddr, count, d) \in (d + 1)..count
  <2> SUFFICES ASSUME NEW d \in 0..(count - 1)
               PROVE  d + Piece(vaddr, count, d) \in (d + 1)..count
    OBVIOUS
  <2>1. Piece(vaddr, count, d) \in 1..(count - d)
    BY PieceSize, Zenon
  <2> QED
    BY <2>1
<1>3. Bytes(vaddr, count, count) = {}
  BY DEF Bytes
<1>4. Is(G)
  <2>1. ASSUME NEW d \in 0..count
        PROVE  G[d] = IF d = count THEN {}
                      ELSE OnePage(vaddr, count, d) \cup G[d + Piece(vaddr, count, d)]
    <3>1. CASE d = count
      BY <1>3, <3>1, Zenon
    <3>2. CASE d # count
      <4>1. d \in 0..(count - 1)
        BY <3>2
      <4>2. d + Piece(vaddr, count, d) \in 0..count
        BY <1>2, <4>1
      <4>3. G[d + Piece(vaddr, count, d)] = Bytes(vaddr, d + Piece(vaddr, count, d), count)
        BY <4>2, Zenon
      <4> QED
        BY <3>2, <4>1, <4>3, PieceThenRest
    <3> QED
      BY <3>1, <3>2, Zenon
  <2> QED
    BY <2>1, Zenon
<1>5. Is(copied)
  <2> HIDE DEF Is
  <2> QED
    BY <1>4, Zenon
<1> HIDE DEF copied
<1>6. \A d \in 0..count : copied[d] = IF d = count THEN {}
        ELSE OnePage(vaddr, count, d) \cup copied[d + Piece(vaddr, count, d)]
  BY <1>5, Zenon
<1> DEFINE T == {m \in 0..count : copied[count - m] # Bytes(vaddr, count - m, count)}
<1>7. T = {}
  <2> SUFFICES ASSUME T # {}
               PROVE  FALSE
    OBVIOUS
  <2>1. PICK m \in T : \A k \in T : m <= k
    <3>1. T \subseteq Nat
      OBVIOUS
    <3> HIDE DEF T
    <3> QED
      BY <3>1, LeastNat, Zenon
  <2> DEFINE d == count - m
             e == d + Piece(vaddr, count, d)
  <2>2. m \in 0..count /\ d \in 0..count /\ copied[d] # Bytes(vaddr, d, count)
    BY <2>1
  <2>3. CASE d = count
    BY <1>3, <1>6, <2>2, <2>3, Zenon
  <2>4. CASE d # count
    <3>1. d \in 0..(count - 1)
      BY <2>2, <2>4
    <3>2. e \in (d + 1)..count
      BY <1>2, <3>1, Zenon
    <3>3. copied[d] = OnePage(vaddr, count, d) \cup copied[e]
      BY <1>6, <2>2, <2>4, Zenon
    <3>4. OnePage(vaddr, count, d) \cup Bytes(vaddr, e, count) = Bytes(vaddr, d, count)
      BY <3>1, PieceThenRest, Zenon
    <3>5. copied[e] = Bytes(vaddr, e, count)
      <4> HIDE DEF e
      <4>1. count - e \in 0..count /\ ~(m <= count - e) /\ count - (count - e) = e
        BY <2>2, <3>2
      <4>2. count - e \notin T
        BY <2>1, <4>1, Zenon
      <4> QED
        BY <4>1, <4>2, Zenon
    <3> QED
      BY <2>2, <3>3, <3>4, <3>5, Zenon
  <2> QED
    BY <2>3, <2>4, Zenon
<1>8. copied[0] = Bytes(vaddr, 0, count)
  <2>1. count \notin T /\ count \in 0..count /\ count - count = 0
    BY <1>7
  <2> QED
    BY <2>1, Zenon
<1> QED
  BY <1>1, <1>8, Zenon

\* The pages of a range that passes range_perm all have the permission, whatever
\* the length of the range.
LEMMA CopyAllowed ==
  ASSUME NEW vaddr \in Nat, NEW len \in Nat, NEW perm, range_perm(vaddr, len, perm),
         NEW c \in Bytes(vaddr, 0, len)
  PROVE  addr_perm(c[2] * PAGE_SIZE, perm)
<1>1. PICK b \in 0..(len - 1) : c = Byte(vaddr, b)
  BY Zenon DEF Bytes
<1>2. c[2] = ADDR_TO_PN(vaddr + b)
  BY <1>1, Zenon DEF Byte
<1>3. ADDR_TO_PN(vaddr + b) \in ADDR_TO_PN(vaddr)..ADDR_TO_PN(vaddr + len)
  <2>1. \A x, y \in Nat : x <= y => x \div PAGE_SIZE <= y \div PAGE_SIZE
    BY VmmapConstants
  <2>2. \A x \in Nat : x \div PAGE_SIZE \in Nat
    BY VmmapConstants
  <2>3. vaddr + b \in Nat /\ vaddr + len \in Nat /\ vaddr <= vaddr + b /\ vaddr + b <= vaddr + len
    OBVIOUS
  <2> QED
    BY <2>1, <2>2, <2>3 DEF ADDR_TO_PN
<1> QED
  BY <1>2, <1>3, Zenon DEF range_perm

\* copy_from_user and copy_to_user copy a range that passes range_perm byte for
\* byte, from or to pages that are all mapped with the permission.
THEOREM CopiesSafely == Spec => []CopySafe
<1>1. CopySafe
  <2> SUFFICES ASSUME NEW vaddr \in 0..(USER_HIGH * PAGE_SIZE), NEW len \in 1..(2 * PAGE_SIZE),
                      NEW perm \in {"r", "w"}, range_perm(vaddr, len, perm)
               PROVE  /\ \A c \in vmmap_copy(vaddr, len) : addr_perm(c[2] * PAGE_SIZE, perm)
                      /\ vmmap_copy(vaddr, len) =
                           {<<b, ADDR_TO_PN(vaddr + b), (vaddr + b) % PAGE_SIZE>> : b \in 0..(len - 1)}
    BY Zenon DEF CopySafe
  <2>1. vaddr \in Nat /\ len \in Nat
    BY VmmapConstants
  <2>2. vmmap_copy(vaddr, len) = Bytes(vaddr, 0, len)
    BY <2>1, CopyIs, Zenon
  <2>3. \A c \in Bytes(vaddr, 0, len) : addr_perm(c[2] * PAGE_SIZE, perm)
    BY <2>1, CopyAllowed, Zenon
  <2> QED
    BY <2>2, <2>3, Zenon DEF Bytes, Byte
<1> QED
  BY <1>1, PTL
=============================================================================
