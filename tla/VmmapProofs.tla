---------------------------- MODULE VmmapProofs ----------------------------
(***************************************************************************)
(* The inductive invariant of Vmmap, for address spaces of any size and    *)
(* any number of areas and objects, what it implies, and that Vmmap        *)
(* implements AddrSpace.                                                   *)
(***************************************************************************)
EXTENDS VmmapListProofs, FiniteSetTheorems

(***************************************************************************)
(* Counting the areas of an object                                         *)
(***************************************************************************)

Of(list, o) == {i \in DOMAIN list : list[i].obj = o}
Count(list, o) == Cardinality(Of(list, o))

\* One more number.
LEMMA CountUpTo ==
  ASSUME NEW T, NEW n \in Nat
  PROVE  /\ IsFiniteSet(T \cap 1..n) /\ Cardinality(T \cap 1..n) \in Nat
         /\ Cardinality(T \cap 1..(n + 1)) =
              Cardinality(T \cap 1..n) + (IF n + 1 \in T THEN 1 ELSE 0)
<1> DEFINE A == T \cap 1..n
           B == T \cap 1..(n + 1)
<1>1. IsFiniteSet(1..n) /\ A \in SUBSET (1..n)
  BY FS_Interval
<1>2. IsFiniteSet(A)
  <2> HIDE DEF A
  <2> QED
    BY <1>1, FS_Subset, Zenon
<1>3. Cardinality(A) \in Nat
  BY <1>2, FS_CardinalityType, Zenon
<1>4. CASE n + 1 \in T
  <2>1. B = A \cup {n + 1} /\ n + 1 \notin A
    BY <1>4
  <2> HIDE DEF A, B
  <2>2. Cardinality(A \cup {n + 1}) = Cardinality(A) + 1
    BY <1>2, <2>1, FS_AddElement, Zenon
  <2> QED
    BY <1>2, <1>3, <1>4, <2>1, <2>2, Zenon DEF A, B
<1>5. CASE n + 1 \notin T
  <2>1. B = A
    BY <1>5
  <2> QED
    BY <1>2, <1>3, <1>5, <2>1
<1> QED
  BY <1>4, <1>5, Zenon

\* A list's count is a number, and 0 when the object is on no area.
LEMMA CountType ==
  ASSUME NEW list \in Seq(Areas), NEW o
  PROVE  /\ IsFiniteSet(Of(list, o)) /\ Count(list, o) \in Nat
         /\ Count(list, o) = 0 <=> \A i \in DOMAIN list : list[i].obj # o
<1>1. Of(list, o) = Of(list, o) \cap 1..Len(list) /\ Len(list) \in Nat
  BY DEF Of
<1>2. IsFiniteSet(Of(list, o)) /\ Count(list, o) \in Nat
  BY <1>1, CountUpTo, Zenon DEF Count
<1>3. Count(list, o) = 0 <=> Of(list, o) = {}
  BY <1>2, FS_EmptySet, Zenon DEF Count
<1> QED
  BY <1>2, <1>3, Zenon DEF Of

\* One more area.
LEMMA CountAppend ==
  ASSUME NEW list \in Seq(Areas), NEW a \in Areas, NEW o
  PROVE  Count(Append(list, a), o) = Count(list, o) + (IF a.obj = o THEN 1 ELSE 0)
<1> DEFINE N == Len(list)
           r == Append(list, a)
           T == Of(r, o)
<1>1. /\ N \in Nat /\ DOMAIN list = 1..N /\ DOMAIN r = 1..(N + 1)
      /\ r[N + 1] = a /\ \A i \in 1..N : r[i] = list[i]
  OBVIOUS
<1> HIDE DEF r, N
<1>2. T = T \cap 1..(N + 1) /\ Of(list, o) = T \cap 1..N /\ (N + 1 \in T <=> a.obj = o)
  BY <1>1 DEF Of
<1> HIDE DEF T
<1>3. Cardinality(T \cap 1..(N + 1)) = Cardinality(T \cap 1..N) + (IF N + 1 \in T THEN 1 ELSE 0)
  BY <1>1, CountUpTo, Zenon
<1>4. Cardinality(T) = Cardinality(Of(list, o)) + (IF a.obj = o THEN 1 ELSE 0)
  BY <1>2, <1>3, Zenon
<1> QED
  BY <1>4, Zenon DEF Count, T, r

\* Lists with the same areas are the same.
LEMMA SameList ==
  ASSUME NEW l \in Seq(Areas), NEW m \in Seq(Areas), Len(l) = Len(m),
         \A i \in 1..Len(l) : l[i] = m[i]
  PROVE  l = m
OBVIOUS

\* The parts of an area behind a list.
LEMMA CountParts ==
  ASSUME NEW d \in Seq(Areas), NEW b \in Seq(Areas), Len(b) \in 0..2, NEW a,
         \A j \in DOMAIN b : b[j].obj = a.obj, NEW o
  PROVE  Count(d \o b, o) = Count(d, o) + (IF a.obj = o THEN Len(b) ELSE 0)
<1>0. Count(d, o) \in Nat
  BY CountType, Zenon
<1>a. d \o b \in Seq(Areas) /\ Len(d \o b) = Len(d) + Len(b) /\ Len(d) \in Nat
  OBVIOUS
<1>1. CASE Len(b) = 0
  <2>1. d \o b = d
    BY <1>1
  <2> QED
    BY <1>0, <1>1, <2>1
<1>2. CASE Len(b) = 1
  <2>a. 1 \in DOMAIN b
    BY <1>2
  <2>1. b[1] \in Areas /\ b[1].obj = a.obj
    BY <2>a
  <2>2. d \o b = Append(d, b[1])
    <3>1. d \o b \in Seq(Areas) /\ Len(d \o b) = Len(d) + 1 /\ Len(d) \in Nat
      BY <1>a, <1>2, Zenon
    <3>2. Append(d, b[1]) \in Seq(Areas) /\ Len(Append(d, b[1])) = Len(d) + 1
      BY <2>1
    <3>3. \A i \in 1..(Len(d) + 1) : (d \o b)[i] = Append(d, b[1])[i]
      BY <1>2, <2>1, <3>1
    <3> QED
      BY <3>1, <3>2, <3>3, SameList, Zenon
  <2> QED
    BY <1>0, <1>2, <2>1, <2>2, CountAppend
<1>3. CASE Len(b) = 2
  <2> DEFINE e == Append(d, b[1])
  <2>a. 1 \in DOMAIN b /\ 2 \in DOMAIN b
    BY <1>3
  <2>b. b[1] \in Areas /\ b[2] \in Areas /\ b[1].obj = a.obj /\ b[2].obj = a.obj
    BY <2>a
  <2>c. d \o b = Append(e, b[2])
    <3>1. d \o b \in Seq(Areas) /\ Len(d \o b) = Len(d) + 2 /\ Len(d) \in Nat
      BY <1>a, <1>3, Zenon
    <3>2. /\ e \in Seq(Areas) /\ Len(e) = Len(d) + 1 /\ e[Len(d) + 1] = b[1]
          /\ \A i \in 1..Len(d) : e[i] = d[i]
      BY <2>b
    <3> HIDE DEF e
    <3>3. Append(e, b[2]) \in Seq(Areas) /\ Len(Append(e, b[2])) = Len(d) + 2
      BY <2>b, <3>1, <3>2
    <3>4. /\ (d \o b)[Len(d) + 1] = b[1] /\ (d \o b)[Len(d) + 2] = b[2]
          /\ \A i \in 1..Len(d) : (d \o b)[i] = d[i]
      BY <1>3, <3>1
    <3>5. /\ Append(e, b[2])[Len(d) + 2] = b[2]
          /\ \A i \in 1..(Len(d) + 1) : Append(e, b[2])[i] = e[i]
      BY <2>b, <3>1, <3>2
    <3>6. \A i \in 1..(Len(d) + 2) : (d \o b)[i] = Append(e, b[2])[i]
      BY <3>1, <3>2, <3>4, <3>5
    <3> QED
      BY <3>1, <3>3, <3>6, SameList, Zenon
  <2>1. /\ d \o b = Append(e, b[2]) /\ b[1] \in Areas /\ b[2] \in Areas /\ e \in Seq(Areas)
        /\ b[1].obj = a.obj /\ b[2].obj = a.obj
    BY <2>b, <2>c
  <2>2. Count(e, o) = Count(d, o) + (IF a.obj = o THEN 1 ELSE 0)
    BY <2>1, CountAppend
  <2> HIDE DEF e
  <2>3. Count(Append(e, b[2]), o) = Count(e, o) + (IF a.obj = o THEN 1 ELSE 0)
    BY <2>1, CountAppend
  <2> QED
    BY <1>0, <1>3, <2>1, <2>2, <2>3
<1> QED
  BY <1>1, <1>2, <1>3

\* vmmap_remove: each split adds an area, each area that goes is one less.
LEMMA CountRemoved ==
  ASSUME NEW list \in Seq(Areas), Sorted(list), NEW lo \in Nat, NEW n \in Nat, NEW o
  PROVE  Count(vmmap_remove(list, lo, n), o) =
           Count(list, o)
           + Cardinality({i \in DOMAIN list : list[i].obj = o /\ Len(Rest(list[i], lo, lo + n)) = 2})
           - Cardinality({i \in DOMAIN list : list[i].obj = o /\ Len(Rest(list[i], lo, lo + n)) = 0})
<1> DEFINE N == Len(list)
           hi == lo + n
           B(c) == {i \in DOMAIN list : list[i].obj = o /\ Len(Rest(list[i], lo, hi)) = c}
           C == Of(list, o)
           To(T, k) == Cardinality(T \cap 1..k)
<1>0. PICK done : Loop(done, list, lo, n)
  BY RemoveLoop, Zenon
<1> DEFINE OK(k) == /\ done[k] \in Seq(Areas)
                    /\ Count(done[k], o) = To(C, k) + To(B(2), k) - To(B(0), k)
           S == {k \in 0..N : OK(k)}
<1>1. N \in Nat /\ DOMAIN list = 1..N /\ hi \in Nat /\ lo <= hi
  OBVIOUS
<1>2. /\ vmmap_remove(list, lo, n) = done[N] /\ done[0] = <<>>
      /\ \A i \in 1..N : done[i] = done[i - 1] \o Rest(list[i], lo, hi)
  BY <1>0, Zenon DEF Loop
<1>3. OK(0)
  <2>1. done[0] \in Seq(Areas) /\ Count(done[0], o) = 0
    <3>1. done[0] \in Seq(Areas) /\ DOMAIN done[0] = {}
      BY <1>2
    <3> QED
      BY <3>1, CountType, Zenon
  <2>2. \A T : To(T, 0) = 0
    BY FS_EmptySet
  <2> HIDE DEF To
  <2> QED
    BY <2>1, <2>2
<1>4. ASSUME NEW k \in 0..(N - 1), OK(k)
      PROVE  OK(k + 1)
  <2> DEFINE a == list[k + 1]
             b == Rest(a, lo, hi)
             d == done[k]
  <2>1. a \in Areas /\ a.start < a.end /\ k + 1 \in 1..N /\ k \in Nat
    BY <1>1 DEF Sorted
  <2>2. b \in Seq(Areas) /\ Len(b) \in 0..2 /\ \A j \in DOMAIN b : b[j].obj = a.obj
    <3> HIDE DEF a
    <3>1. /\ b \in Seq(Areas) /\ Len(b) \in 0..2 /\ \A j \in DOMAIN b : PartOf(b[j], a, lo, hi)
      BY <1>1, <2>1, RestParts, Zenon
    <3> QED
      BY <3>1, Zenon DEF PartOf
  <2>3. done[k + 1] = d \o b
    <3>1. (k + 1) - 1 = k
      BY <2>1
    <3>2. done[k + 1] = done[(k + 1) - 1] \o Rest(list[k + 1], lo, hi)
      BY <1>2, <2>1, Zenon
    <3> QED
      BY <3>1, <3>2, Zenon
  <2>4. /\ k + 1 \in C <=> a.obj = o
        /\ k + 1 \in B(2) <=> a.obj = o /\ Len(b) = 2
        /\ k + 1 \in B(0) <=> a.obj = o /\ Len(b) = 0
    BY <1>1, <2>1, Zenon DEF Of
  <2>5. d \in Seq(Areas) /\ Count(d, o) = To(C, k) + To(B(2), k) - To(B(0), k)
    BY <1>4, Zenon
  <2> HIDE DEF a, b, d
  <2>6. Count(d \o b, o) = Count(d, o) + (IF a.obj = o THEN Len(b) ELSE 0)
    BY <2>2, <2>5, CountParts
  <2>7. \A T : /\ To(T, k) \in Nat
               /\ To(T, k + 1) = To(T, k) + (IF k + 1 \in T THEN 1 ELSE 0)
    BY <2>1, CountUpTo, Zenon
  <2>8. d \o b \in Seq(Areas)
    BY <2>2, <2>5
  <2> HIDE DEF To, B, C
  <2>9. To(C, k) \in Nat /\ To(B(2), k) \in Nat /\ To(B(0), k) \in Nat
    BY <2>7, Zenon
  <2>10. /\ To(C, k + 1) = To(C, k) + (IF a.obj = o THEN 1 ELSE 0)
         /\ To(B(2), k + 1) = To(B(2), k) + (IF a.obj = o /\ Len(b) = 2 THEN 1 ELSE 0)
         /\ To(B(0), k + 1) = To(B(0), k) + (IF a.obj = o /\ Len(b) = 0 THEN 1 ELSE 0)
    BY <2>4, <2>7, Zenon
  <2>11. Count(d \o b, o) = To(C, k + 1) + To(B(2), k + 1) - To(B(0), k + 1)
    <3>1. CASE a.obj = o
      <4>1. CASE Len(b) = 0
        BY <2>5, <2>6, <2>9, <2>10, <3>1, <4>1
      <4>2. CASE Len(b) = 1
        BY <2>5, <2>6, <2>9, <2>10, <3>1, <4>2
      <4>3. CASE Len(b) = 2
        BY <2>5, <2>6, <2>9, <2>10, <3>1, <4>3
      <4> QED
        BY <2>2, <4>1, <4>2, <4>3
    <3>2. CASE a.obj # o
      BY <2>5, <2>6, <2>9, <2>10, <3>2
    <3> QED
      BY <3>1, <3>2, Zenon
  <2> QED
    BY <2>3, <2>8, <2>11, Zenon
<1>5. N \in S
  <2>1. 0 \in S
    BY <1>1, <1>3
  <2> HIDE DEF OK
  <2>2. \A k \in 0..(N - 1) : k \in S => k + 1 \in S
    BY <1>1, <1>4
  <2> HIDE DEF S, N
  <2> QED
    BY <1>1, <2>1, <2>2, Induction
<1>6. OK(N)
  BY <1>5, Zenon
<1>7. C \cap 1..N = C /\ B(2) \cap 1..N = B(2) /\ B(0) \cap 1..N = B(0)
  BY <1>1, Zenon DEF Of
<1> QED
  BY <1>2, <1>6, <1>7, Zenon DEF Count

\* vmmap_insert: one more.
LEMMA CountInserted ==
  ASSUME NEW list \in Seq(Areas), NEW a \in Areas, NEW r, NEW k, NEW o, Inserted(r, list, a, k)
  PROVE  Count(r, o) = Count(list, o) + (IF a.obj = o THEN 1 ELSE 0)
<1> DEFINE N == Len(list)
           A == Of(list, o)
           f == [i \in A |-> IF i < k THEN i ELSE i + 1]
           B == {f[i] : i \in A}
<1>1. N \in Nat /\ DOMAIN list = 1..N /\ k \in 1..(N + 1) /\ A \subseteq 1..N
  BY DEF Inserted, Of
<1>2. DOMAIN r = 1..(N + 1)
  BY Zenon DEF Inserted
<1>3. \A i \in 1..(N + 1) : r[i] = IF i < k THEN list[i] ELSE IF i = k THEN a ELSE list[i - 1]
  BY Zenon DEF Inserted
<1>4. f \in Bijection(A, B)
  <2>1. f \in [A -> B]
    OBVIOUS
  <2>2. \A i, j \in A : f[i] = f[j] => i = j
    <3> HIDE DEF N, A
    <3> QED
      BY <1>1
  <2>3. \A b \in B : \E i \in A : f[i] = b
    OBVIOUS
  <2> HIDE DEF f, A, B
  <2> QED
    BY <2>1, <2>2, <2>3, Zenon DEF Bijection, Injection, Surjection, IsInjective
<1>5. IsFiniteSet(A) /\ Cardinality(A) = Count(list, o) /\ Count(list, o) \in Nat
  BY CountType, Zenon DEF Count
<1>6. IsFiniteSet(B) /\ Cardinality(B) = Cardinality(A)
  <2>1. ExistsBijection(A, B)
    BY <1>4, Zenon DEF ExistsBijection
  <2> HIDE DEF A, B
  <2> QED
    BY <1>5, <2>1, FS_Bijection, Zenon
<1>7. k \notin B
  BY <1>1
<1>8. \A i \in B : i \in 1..(N + 1) /\ r[i].obj = o
  <2> SUFFICES ASSUME NEW i \in A
               PROVE  f[i] \in 1..(N + 1) /\ r[f[i]].obj = o
    OBVIOUS
  <2>1. list[i].obj = o /\ i \in 1..N
    BY <1>1, Zenon DEF Of
  <2>2. CASE i < k
    <3>1. f[i] = i /\ i \in 1..(N + 1)
      BY <1>1, <2>1, <2>2
    <3>2. r[i] = list[i]
      BY <1>3, <2>2, <3>1, Zenon
    <3> QED
      BY <2>1, <3>1, <3>2, Zenon
  <2>3. CASE i >= k
    <3>1. f[i] = i + 1 /\ i + 1 \in 1..(N + 1) /\ ~(i + 1 < k) /\ i + 1 # k /\ (i + 1) - 1 = i
      BY <1>1, <2>1, <2>3
    <3>2. r[i + 1] = list[(i + 1) - 1]
      BY <1>3, <3>1, Zenon
    <3> QED
      BY <2>1, <3>1, <3>2, Zenon
  <2> QED
    BY <1>1, <2>1, <2>2, <2>3
<1>9. \A i \in 1..(N + 1) : i # k /\ r[i].obj = o => i \in B
  <2> SUFFICES ASSUME NEW i \in 1..(N + 1), i # k, r[i].obj = o
               PROVE  i \in B
    OBVIOUS
  <2>1. CASE i < k
    <3>1. i \in 1..N /\ r[i] = list[i]
      BY <1>1, <1>3, <2>1
    <3>2. i \in A /\ f[i] = i
      BY <1>1, <2>1, <3>1, Zenon DEF Of
    <3> QED
      BY <3>2, Zenon
  <2>2. CASE i > k
    <3>1. i - 1 \in 1..N /\ r[i] = list[i - 1] /\ ~(i - 1 < k) /\ (i - 1) + 1 = i
      BY <1>1, <1>3, <2>2
    <3>2. i - 1 \in A /\ f[i - 1] = i
      BY <1>1, <2>2, <3>1, Zenon DEF Of
    <3> QED
      BY <3>2, Zenon
  <2> QED
    BY <1>1, <2>1, <2>2
<1> HIDE DEF A, B, f, N
<1>10. r[k] = a /\ k \in 1..(N + 1)
  BY <1>1, <1>3
<1>11. CASE a.obj = o
  <2>1. Of(r, o) = B \cup {k}
    BY <1>2, <1>8, <1>9, <1>10, <1>11, Zenon DEF Of
  <2>2. Cardinality(B \cup {k}) = Cardinality(B) + 1
    BY <1>6, <1>7, FS_AddElement, Zenon
  <2> QED
    BY <1>5, <1>6, <1>11, <2>1, <2>2, Zenon DEF Count
<1>12. CASE a.obj # o
  <2>1. Of(r, o) = B
    BY <1>2, <1>7, <1>8, <1>9, <1>10, <1>12, Zenon DEF Of
  <2> QED
    BY <1>5, <1>6, <1>12, <2>1 DEF Count
<1> QED
  BY <1>11, <1>12, Zenon

(***************************************************************************)
(* What a page is                                                          *)
(***************************************************************************)

PageIn(a, p) == <<a.obj, p - a.start + a.off, a.prot>>
Entry(list, p) ==
  LET i == vmmap_lookup(list, p) IN IF i = 0 THEN Null ELSE PageIn(list[i], p)

\* A page is what the area that covers it says, and nothing without one.
LEMMA EntryIs ==
  ASSUME NEW list \in Seq(Areas), Sorted(list), NEW p \in Int
  PROVE  /\ \A i \in DOMAIN list : Covers(list[i], p) => Entry(list, p) = PageIn(list[i], p)
         /\ (\A i \in DOMAIN list : ~Covers(list[i], p)) => Entry(list, p) = Null
<1> DEFINE k == vmmap_lookup(list, p)
<1>1. /\ k \in 0..Len(list)
      /\ k # 0 => Covers(list[k], p)
      /\ \A i \in DOMAIN list : Covers(list[i], p) => i = k
      /\ DOMAIN list = 1..Len(list) /\ Len(list) \in Nat
  BY Lookup
<1>2. Entry(list, p) = IF k = 0 THEN Null ELSE PageIn(list[k], p)
  BY Zenon DEF Entry
<1> HIDE DEF k
<1>3. ASSUME NEW i \in DOMAIN list, Covers(list[i], p)
      PROVE  Entry(list, p) = PageIn(list[i], p)
  <2>1. i = k /\ k # 0
    BY <1>1, <1>3
  <2> QED
    BY <1>2, <2>1, Zenon
<1>4. (\A i \in DOMAIN list : ~Covers(list[i], p)) => k = 0
  BY <1>1
<1> QED
  BY <1>2, <1>3, <1>4, Zenon

\* The entry of a covered page is not Null.
LEMMA PageInType ==
  ASSUME NEW a \in Areas, NEW p \in Int, Covers(a, p)
  PROVE  /\ PageIn(a, p) \in Objects \X Nat \X SUBSET {"r", "w"} /\ PageIn(a, p) # Null
         /\ ObjPage(a, p) \in Objects \X Nat /\ ObjPage(a, p) # Null
<1>1. p - a.start + a.off \in Nat /\ a.obj \in Objects /\ a.prot \in SUBSET {"r", "w"}
  BY AreaType DEF Covers
<1>2. PageIn(a, p) \in Objects \X Nat \X SUBSET {"r", "w"} /\ ObjPage(a, p) \in Objects \X Nat
  BY <1>1, Zenon DEF PageIn, ObjPage
<1>3. Null \notin (Objects \X Nat) \cup (Objects \X Nat \X SUBSET {"r", "w"})
  BY VmmapConstants, Zenon DEF Objects
<1> QED
  BY <1>2, <1>3, Zenon

\* A page has an entry exactly when an area covers it.
LEMMA EntryNull ==
  ASSUME NEW list \in Seq(Areas), Sorted(list), NEW p \in Int
  PROVE  Entry(list, p) = Null <=> \A i \in DOMAIN list : ~Covers(list[i], p)
<1>1. ASSUME NEW i \in DOMAIN list, Covers(list[i], p)
      PROVE  Entry(list, p) # Null
  <2>1. list[i] \in Areas
    OBVIOUS
  <2> QED
    BY <1>1, <2>1, EntryIs, PageInType, ZenonT(40)
<1> QED
  BY <1>1, EntryIs, Zenon

\* munmap: the pages of the range are gone, the others are what they were.
LEMMA RemovedEntry ==
  ASSUME NEW list \in Seq(Areas), Sorted(list), NEW lo \in Nat, NEW n \in Nat, NEW p \in Int
  PROVE  Entry(vmmap_remove(list, lo, n), p) =
           IF lo <= p /\ p < lo + n THEN Null ELSE Entry(list, p)
<1> DEFINE r == vmmap_remove(list, lo, n)
<1>1. /\ r \in Seq(Areas) /\ Sorted(r)
      /\ \A j \in DOMAIN r : \E i \in DOMAIN list : PartOf(r[j], list[i], lo, lo + n)
      /\ \A i \in DOMAIN list : Covers(list[i], p) /\ (p < lo \/ lo + n <= p) =>
           \E j \in DOMAIN r : Covers(r[j], p)
  BY RemoveList, Zenon
<1> HIDE DEF r
<1>2. ASSUME NEW j \in DOMAIN r, Covers(r[j], p)
      PROVE  ~(lo <= p /\ p < lo + n) /\ Entry(list, p) = PageIn(r[j], p)
  <2>1. PICK i \in DOMAIN list : PartOf(r[j], list[i], lo, lo + n)
    BY <1>1, Zenon
  <2>2. r[j] \in Areas /\ list[i] \in Areas
    BY <1>1
  <2>a. /\ r[j].start \in Nat /\ r[j].off \in Nat /\ r[j].end \in Nat
        /\ list[i].start \in Nat /\ list[i].off \in Nat /\ list[i].end \in Nat
    BY <2>2, AreaType, Zenon
  <2>b. p - list[i].start + list[i].off = p - r[j].start + r[j].off
    <3>1. r[j].off - r[j].start = list[i].off - list[i].start
      BY <2>1, Zenon DEF PartOf
    <3> DEFINE x == r[j].off
               y == r[j].start
               u == list[i].off
               v == list[i].start
    <3>2. x \in Nat /\ y \in Nat /\ u \in Nat /\ v \in Nat /\ x - y = u - v
      BY <2>a, <3>1, Zenon
    <3> HIDE DEF x, y, u, v
    <3>3. p - v + u = p - y + x
      BY <3>2
    <3> QED
      BY <3>3, Zenon DEF x, y, u, v
  <2>c. Covers(list[i], p)
    BY <1>2, <2>1, <2>a DEF PartOf, Covers
  <2>3. Covers(list[i], p) /\ PageIn(list[i], p) = PageIn(r[j], p)
    BY <2>1, <2>b, <2>c, Zenon DEF PartOf, PageIn
  <2>4. ~(lo <= p /\ p < lo + n)
    BY <1>2, <2>1, <2>2, AreaType DEF PartOf, Covers
  <2> QED
    BY <2>3, <2>4, EntryIs, Zenon
<1>3. CASE \E j \in DOMAIN r : Covers(r[j], p)
  <2>1. PICK j \in DOMAIN r : Covers(r[j], p)
    BY <1>3, Zenon
  <2>2. Entry(r, p) = PageIn(r[j], p)
    BY <1>1, <2>1, EntryIs, Zenon
  <2> QED
    BY <1>2, <2>1, <2>2, Zenon DEF r
<1>4. CASE \A j \in DOMAIN r : ~Covers(r[j], p)
  <2>1. Entry(r, p) = Null
    BY <1>1, <1>4, EntryIs, Zenon
  <2>2. ~(lo <= p /\ p < lo + n) => Entry(list, p) = Null
    <3>1. ~(lo <= p /\ p < lo + n) => p < lo \/ lo + n <= p
      OBVIOUS
    <3> QED
      BY <1>1, <1>4, <3>1, EntryIs, Zenon
  <2> QED
    BY <2>1, <2>2, Zenon DEF r
<1> QED
  BY <1>3, <1>4, Zenon

\* mmap: the pages of the new area are its, the others are what they were.
LEMMA InsertedEntry ==
  ASSUME NEW list \in Seq(Areas), Sorted(list), NEW a \in Areas, NEW r \in Seq(Areas), Sorted(r),
         NEW k, Inserted(r, list, a, k), NEW p \in Int
  PROVE  Entry(r, p) = IF Covers(a, p) THEN PageIn(a, p) ELSE Entry(list, p)
<1>1. /\ \E j \in DOMAIN r : r[j] = a
      /\ \A j \in DOMAIN r : r[j] = a \/ \E i \in DOMAIN list : r[j] = list[i]
      /\ \A i \in DOMAIN list : \E j \in DOMAIN r : r[j] = list[i]
  BY InsertedAreas
<1>2. CASE Covers(a, p)
  BY <1>1, <1>2, EntryIs, Zenon
<1>3. CASE ~Covers(a, p)
  <2>1. CASE \E i \in DOMAIN list : Covers(list[i], p)
    <3>1. PICK i \in DOMAIN list : Covers(list[i], p)
      BY <2>1, Zenon
    <3>2. Entry(list, p) = PageIn(list[i], p) /\ Entry(r, p) = PageIn(list[i], p)
      BY <1>1, <3>1, EntryIs
    <3> QED
      BY <1>3, <3>2, Zenon
  <2>2. CASE \A i \in DOMAIN list : ~Covers(list[i], p)
    <3>1. \A j \in DOMAIN r : ~Covers(r[j], p)
      BY <1>1, <1>3, <2>2, Zenon
    <3> QED
      BY <1>3, <2>2, <3>1, EntryIs, Zenon
  <2> QED
    BY <2>1, <2>2, Zenon
<1> QED
  BY <1>2, <1>3, Zenon

\* r is list with its area i grown to e.
Grown(r, list, i, e) ==
  /\ r \in Seq(Areas) /\ Sorted(r)
  /\ \A o \in Objects : Count(r, o) = Count(list, o)
  /\ \A p \in Int : Entry(r, p) = IF list[i].end <= p /\ p < e THEN PageIn(list[i], p)
                                   ELSE Entry(list, p)

\* brk: an area grows over free pages.
LEMMA GrownList ==
  ASSUME NEW list \in Seq(Areas), Sorted(list), NEW i \in DOMAIN list,
         NEW e \in (list[i].end + 1)..USER_HIGH, NEW r, r = [list EXCEPT ![i].end = e],
         vmmap_is_range_empty(list, list[i].end, e - list[i].end)
  PROVE  Grown(r, list, i, e)
<1> DEFINE N == Len(list)
           a == list[i]
           b == [a EXCEPT !.end = e]
<1>1. N \in Nat /\ DOMAIN list = 1..N /\ a \in Areas
  OBVIOUS
<1>2. \A j \in 1..N : /\ list[j] \in Areas /\ list[j].start \in Nat /\ list[j].end \in Nat
                      /\ list[j].start < list[j].end
  BY <1>1, AreaType DEF Sorted
<1>3. e \in (USER_LOW + 1)..USER_HIGH /\ a.end < e /\ e \in Nat
  <2>1. a.start \in Nat /\ a.end \in Nat /\ USER_LOW <= a.start /\ a.start < a.end
    BY <1>1, <1>2, AreaType, Zenon
  <2>2. USER_LOW \in Nat /\ USER_HIGH \in Nat
    BY VmmapConstants, Zenon
  <2> HIDE DEF a
  <2>3. e \in (a.end + 1)..USER_HIGH
    BY Zenon DEF a
  <2> QED
    BY <2>1, <2>2, <2>3
<1>4. /\ b \in Areas /\ b.start = a.start /\ b.end = e /\ b.obj = a.obj
      /\ b.prot = a.prot /\ b.off = a.off
  BY <1>1, <1>3, Zenon DEF Areas
<1>5. r = [list EXCEPT ![i] = b]
  OBVIOUS
<1> HIDE DEF a, b
<1>6. r \in Seq(Areas) /\ DOMAIN r = 1..N /\ r[i] = b /\ \A j \in 1..N : j # i => r[j] = list[j]
  BY <1>1, <1>4, <1>5
<1> HIDE DEF N
<1>7. \A j \in 1..N : i < j => e <= list[j].start
  <2> SUFFICES ASSUME NEW j \in 1..N, i < j
               PROVE  e <= list[j].start
    OBVIOUS
  <2>1. ~(list[j].start < list[i].end + (e - list[i].end) /\ list[j].end > list[i].end)
    BY <1>1, Zenon DEF vmmap_is_range_empty
  <2>2. list[i].end <= list[j].start
    BY <1>1, Zenon DEF Sorted
  <2>3. list[i].end + (e - list[i].end) = e /\ list[j].end > list[i].end
    BY <1>1, <1>2, <1>3, <2>2
  <2> QED
    BY <1>2, <1>3, <2>1, <2>3
<1>8. Sorted(r)
  <2>1. ASSUME NEW j \in 1..N
        PROVE  r[j].start < r[j].end
    <3>1. CASE j = i
      BY <1>1, <1>2, <1>3, <1>4, <1>6, <3>1 DEF a
    <3>2. CASE j # i
      BY <1>2, <1>6, <3>2, Zenon
    <3> QED
      BY <3>1, <3>2, Zenon
  <2>2. ASSUME NEW j \in 1..N, NEW k \in 1..N, j < k
        PROVE  r[j].end <= r[k].start
    <3>0. list[j].end <= list[k].start
      BY <1>1, <2>2, Zenon DEF Sorted
    <3>1. CASE j = i
      BY <1>4, <1>6, <1>7, <2>2, <3>1
    <3>2. CASE j # i /\ k = i
      BY <1>4, <1>6, <3>0, <3>2, Zenon DEF a
    <3>3. CASE j # i /\ k # i
      BY <1>6, <3>0, <3>3, Zenon
    <3> QED
      BY <3>1, <3>2, <3>3, Zenon
  <2> QED
    BY <1>6, <2>1, <2>2 DEF Sorted
<1>9. ASSUME NEW o
      PROVE  Count(r, o) = Count(list, o)
  <2>1. \A j \in 1..N : r[j].obj = list[j].obj
    BY <1>4, <1>6, Zenon DEF a
  <2> QED
    BY <1>1, <1>6, <2>1, Zenon DEF Count, Of
<1>10. ASSUME NEW p \in Int
       PROVE  Entry(r, p) = IF list[i].end <= p /\ p < e THEN PageIn(list[i], p) ELSE Entry(list, p)
  <2>1. PageIn(b, p) = PageIn(a, p)
    BY <1>4, Zenon DEF PageIn
  <2>2. Covers(b, p) <=> Covers(a, p) \/ (a.end <= p /\ p < e)
    BY <1>1, <1>2, <1>3, <1>4 DEF Covers, a
  <2>3. CASE Covers(b, p)
    <3>1. Entry(r, p) = PageIn(a, p)
      BY <1>1, <1>6, <1>8, <2>1, <2>3, EntryIs, Zenon
    <3>2. CASE a.end <= p /\ p < e
      BY <3>1, <3>2, Zenon DEF a
    <3>3. CASE ~(a.end <= p /\ p < e)
      <4>1. Covers(a, p)
        BY <2>2, <2>3, <3>3, Zenon
      <4>2. Entry(list, p) = PageIn(a, p)
        BY <4>1, EntryIs, Zenon DEF a
      <4> QED
        BY <3>1, <3>3, <4>2, Zenon DEF a
    <3> QED
      BY <3>2, <3>3, Zenon
  <2>4. CASE ~Covers(b, p)
    <3>1. ~(a.end <= p /\ p < e) /\ ~Covers(a, p)
      BY <2>2, <2>4, Zenon
    <3>2. Entry(r, p) = Entry(list, p)
      <4>1. CASE \E j \in 1..N : Covers(list[j], p)
        <5>1. PICK j \in 1..N : Covers(list[j], p)
          BY <4>1, Zenon
        <5>2. j # i /\ r[j] = list[j]
          BY <1>6, <3>1, <5>1, Zenon DEF a
        <5>3. Entry(list, p) = PageIn(list[j], p) /\ Entry(r, p) = PageIn(list[j], p)
          BY <1>1, <1>6, <1>8, <5>1, <5>2, EntryIs, Zenon
        <5> QED
          BY <5>3, Zenon
      <4>2. CASE \A j \in 1..N : ~Covers(list[j], p)
        <5>1. \A j \in 1..N : ~Covers(r[j], p)
          BY <1>6, <2>4, <4>2, Zenon
        <5> QED
          BY <1>1, <1>6, <1>8, <4>2, <5>1, EntryIs, Zenon
      <4> QED
        BY <4>1, <4>2, Zenon
    <3> QED
      BY <3>1, <3>2, Zenon DEF a
  <2> QED
    BY <2>3, <2>4, Zenon
<1> QED
  BY <1>6, <1>8, <1>9, <1>10, Zenon DEF Grown

(***************************************************************************)
(* The invariant                                                           *)
(***************************************************************************)

\* An object's references are the areas that refer to it.
RefsOK == \A o \in Objects : refs[o] = Count(vmm_list, o)

VmmapInv == TypeOK /\ AreasSorted /\ RefsOK /\ PtFresh

\* What PtFresh says of a page table and a list.
Fresh(table, list) ==
  \A p \in Pages : table[p] # Null =>
    Entry(list, p) # Null /\ table[p] = <<Entry(list, p)[1], Entry(list, p)[2]>>

\* The page that vmmap_lookup leads to, in the two forms it is looked at.
LEMMA ObjPageOf ==
  ASSUME NEW list \in Seq(Areas), Sorted(list), NEW p \in Int, NEW i, i = vmmap_lookup(list, p)
  PROVE  /\ Entry(list, p) = Null <=> i = 0
         /\ i # 0 => /\ i \in DOMAIN list /\ Covers(list[i], p) /\ Entry(list, p) = PageIn(list[i], p)
                     /\ ObjPage(list[i], p) = <<Entry(list, p)[1], Entry(list, p)[2]>>
<1>1. /\ i \in 0..Len(list)
      /\ i # 0 => Covers(list[i], p)
      /\ DOMAIN list = 1..Len(list) /\ Len(list) \in Nat
  BY Lookup
<1>2. CASE i = 0
  BY <1>2, Zenon DEF Entry
<1>3. CASE i # 0
  <2>1. i \in DOMAIN list /\ Covers(list[i], p) /\ Entry(list, p) = PageIn(list[i], p)
    BY <1>1, <1>3 DEF Entry
  <2>2. PageIn(list[i], p) # Null
    BY <2>1, PageInType
  <2>3. /\ PageIn(list[i], p)[1] = list[i].obj
        /\ PageIn(list[i], p)[2] = p - list[i].start + list[i].off
    BY Zenon DEF PageIn
  <2>4. ObjPage(list[i], p) = <<Entry(list, p)[1], Entry(list, p)[2]>>
    <3>1. ObjPage(list[i], p) = <<list[i].obj, p - list[i].start + list[i].off>>
      BY Zenon DEF ObjPage
    <3> QED
      BY <2>1, <2>3, <3>1, Zenon
  <2> QED
    BY <1>3, <2>1, <2>2, <2>4, Zenon
<1> QED
  BY <1>2, <1>3, Zenon

\* PtFresh as a statement about the page table and the list.
LEMMA FreshNow ==
  ASSUME TypeOK, AreasSorted, PtFresh, Runs
  PROVE  Fresh(pt, vmm_list)
<1> SUFFICES ASSUME NEW p \in Pages, pt[p] # Null
             PROVE  /\ Entry(vmm_list, p) # Null
                    /\ pt[p] = <<Entry(vmm_list, p)[1], Entry(vmm_list, p)[2]>>
  BY Zenon DEF Fresh
<1> DEFINE i == vmmap_lookup(vmm_list, p)
<1>1. pt[p] = IF i = 0 THEN Null ELSE ObjPage(vmm_list[i], p)
  BY Zenon DEF PtFresh, PageOf
<1>2. vmm_list \in Seq(Areas) /\ Sorted(vmm_list) /\ p \in Int
  BY VmmapConstants DEF TypeOK, AreasSorted, Pages
<1> HIDE DEF i
<1> QED
  BY <1>1, <1>2, ObjPageOf DEF i

LEMMA FreshNext ==
  ASSUME vmm_list' \in Seq(Areas), Sorted(vmm_list'), Fresh(pt', vmm_list')
  PROVE  PtFresh'
<1> SUFFICES ASSUME NEW p \in Pages, pt'[p] # Null
             PROVE  pt'[p] = PageOf(p)'
  BY Zenon DEF PtFresh, Pages
<1> DEFINE i == vmmap_lookup(vmm_list', p)
<1>1. PageOf(p)' = IF i = 0 THEN Null ELSE ObjPage(vmm_list'[i], p)
  BY Zenon DEF PageOf, ObjPage
<1>2. p \in Int
  BY VmmapConstants DEF Pages
<1>3. /\ Entry(vmm_list', p) # Null
      /\ pt'[p] = <<Entry(vmm_list', p)[1], Entry(vmm_list', p)[2]>>
  BY Zenon DEF Fresh
<1> HIDE DEF i
<1> QED
  BY <1>1, <1>2, <1>3, ObjPageOf, Zenon DEF i

PageTables == [Pages -> (Objects \X Nat) \cup {Null}]

\* What a step has to show.
LEMMA InvNext ==
  ASSUME vmm_list' \in Seq(Areas), Sorted(vmm_list'), refs' \in [Objects -> Nat],
         \A o \in Objects : refs'[o] = Count(vmm_list', o),
         pt' \in PageTables, fault' \in {"none", "kassert", "null", "wild"},
         fault' # "none" \/ vmm_list' = <<>> \/ Fresh(pt', vmm_list')
  PROVE  VmmapInv'
<1>1. TypeOK'
  BY Zenon DEF TypeOK, PageTables, Areas, Pages, Objects
<1>2. AreasSorted'
  BY Zenon DEF AreasSorted, Sorted
<1>3. RefsOK'
  BY Zenon DEF RefsOK, Objects, Count, Of
<1>4. PtFresh'
  <2>1. CASE fault' # "none" \/ vmm_list' = <<>>
    BY <2>1, Zenon DEF PtFresh, Runs
  <2>2. CASE Fresh(pt', vmm_list')
    BY <2>2, FreshNext, Zenon
  <2> QED
    BY <2>1, <2>2, Zenon
<1> QED
  BY <1>1, <1>2, <1>3, <1>4, Zenon DEF VmmapInv

\* The parts of the invariant before a step of the running process.
LEMMA InvNow ==
  ASSUME VmmapInv, Runs
  PROVE  /\ vmm_list \in Seq(Areas) /\ Sorted(vmm_list) /\ refs \in [Objects -> Nat]
         /\ \A o \in Objects : refs[o] = Count(vmm_list, o)
         /\ pt \in PageTables /\ fault = "none" /\ Fresh(pt, vmm_list)
<1>1. Fresh(pt, vmm_list)
  BY FreshNow, Zenon DEF VmmapInv
<1> QED
  BY <1>1, Zenon DEF VmmapInv, TypeOK, AreasSorted, RefsOK, PageTables, Runs

\* vmmap_remove with the references and translations it drops.
LEMMA RemoveState ==
  ASSUME VmmapInv, Runs, NEW lo \in Nat, NEW n \in Nat
  PROVE  LET list == vmmap_remove(vmm_list, lo, n)
             left == RefsAfterRemove(vmm_list, lo, n)
             table == pt_unmap_range(lo, n)
         IN  /\ list \in Seq(Areas) /\ Sorted(list)
             /\ left \in [Objects -> Nat] /\ \A o \in Objects : left[o] = Count(list, o)
             /\ table \in PageTables /\ Fresh(table, list)
             /\ \A p \in Int : Entry(list, p) =
                  IF lo <= p /\ p < lo + n THEN Null ELSE Entry(vmm_list, p)
             /\ vmmap_is_range_empty(list, lo, n)
<1> DEFINE list == vmmap_remove(vmm_list, lo, n)
           left == RefsAfterRemove(vmm_list, lo, n)
           table == pt_unmap_range(lo, n)
<1>1. /\ vmm_list \in Seq(Areas) /\ Sorted(vmm_list) /\ refs \in [Objects -> Nat]
      /\ \A o \in Objects : refs[o] = Count(vmm_list, o)
      /\ pt \in PageTables /\ Fresh(pt, vmm_list)
  BY InvNow, Zenon
<1>2. /\ list \in Seq(Areas) /\ Sorted(list)
      /\ \A j \in DOMAIN list : \E i \in DOMAIN vmm_list : PartOf(list[j], vmm_list[i], lo, lo + n)
  BY <1>1, RemoveList, Zenon
<1>3. ASSUME NEW o \in Objects
      PROVE  left[o] = Count(list, o)
  <2> DEFINE some(k) == Cardinality({i \in DOMAIN vmm_list :
                          vmm_list[i].obj = o /\ Len(Rest(vmm_list[i], lo, lo + n)) = k})
  <2>1. Count(list, o) = Count(vmm_list, o) + some(2) - some(0)
    BY <1>1, CountRemoved
  <2>2. left[o] = refs[o] + some(2) - some(0)
    BY Zenon DEF RefsAfterRemove
  <2> HIDE DEF some, list, left
  <2> QED
    BY <1>1, <2>1, <2>2, Zenon
<1>4. left \in [Objects -> Nat]
  <2>1. \A o \in Objects : left[o] \in Nat
    BY <1>2, <1>3, CountType
  <2>2. left = [o \in Objects |-> left[o]]
    BY Zenon DEF RefsAfterRemove
  <2> HIDE DEF left
  <2> QED
    BY <2>1, <2>2, Zenon
<1>5. table \in PageTables
  BY <1>1, Zenon DEF PageTables, pt_unmap_range
<1>6. \A p \in Int : Entry(list, p) =
                      IF lo <= p /\ p < lo + n THEN Null ELSE Entry(vmm_list, p)
  BY <1>1, RemovedEntry, Zenon
<1> HIDE DEF list
<1>7. Fresh(table, list)
  <2> SUFFICES ASSUME NEW p \in Pages, table[p] # Null
               PROVE  Entry(list, p) # Null /\ table[p] = <<Entry(list, p)[1], Entry(list, p)[2]>>
    BY Zenon DEF Fresh
  <2>1. ~(lo <= p /\ p < lo + n) /\ table[p] = pt[p]
    BY Zenon DEF pt_unmap_range
  <2>2. Entry(list, p) = Entry(vmm_list, p)
    <3>1. p \in Int
      BY VmmapConstants DEF Pages
    <3> QED
      BY <1>6, <2>1, <3>1, Zenon
  <2> HIDE DEF table
  <2> QED
    BY <1>1, <2>1, <2>2, Zenon DEF Fresh
<1>8. vmmap_is_range_empty(list, lo, n)
  <2> SUFFICES ASSUME NEW j \in DOMAIN list
               PROVE  ~(list[j].start < lo + n /\ list[j].end > lo)
    BY Zenon DEF vmmap_is_range_empty
  <2>1. PICK i \in DOMAIN vmm_list : PartOf(list[j], vmm_list[i], lo, lo + n)
    BY <1>2, Zenon
  <2>2. list[j].start \in Nat /\ list[j].end \in Nat
    BY <1>2, AreaType
  <2> QED
    BY <2>1, <2>2 DEF PartOf
<1> QED
  BY <1>2, <1>3, <1>4, <1>5, <1>6, <1>7, <1>8, Zenon DEF list

\* What munmap and a shrinking brk do.
LEMMA RemoveStep ==
  ASSUME VmmapInv, Runs, NEW lo \in Nat, NEW n \in Nat,
         vmm_list' = vmmap_remove(vmm_list, lo, n),
         refs' = RefsAfterRemove(vmm_list, lo, n),
         pt' = pt_unmap_range(lo, n), UNCHANGED fault
  PROVE  /\ VmmapInv'
         /\ \A p \in Int : Entry(vmm_list', p) =
              IF lo <= p /\ p < lo + n THEN Null ELSE Entry(vmm_list, p)
<1>1. /\ vmm_list' \in Seq(Areas) /\ Sorted(vmm_list')
      /\ refs' \in [Objects -> Nat] /\ \A o \in Objects : refs'[o] = Count(vmm_list', o)
      /\ pt' \in PageTables /\ Fresh(pt', vmm_list')
      /\ \A p \in Int : Entry(vmm_list', p) =
           IF lo <= p /\ p < lo + n THEN Null ELSE Entry(vmm_list, p)
  BY RemoveState, Zenon
<1>2. fault' = "none"
  BY InvNow, Zenon
<1> QED
  BY <1>1, <1>2, InvNext, Zenon

\* What mmap does when vmmap_map succeeds.
LEMMA MapStep ==
  ASSUME VmmapInv, Runs, NEW lo \in Pages \cup {0}, NEW n \in 1..Room(lo), NEW o \in Objects,
         NEW off \in Nat, NEW prot \in SUBSET {"r", "w"},
         vmmap_map(lo, n, o, off, prot), UNCHANGED fault
  PROVE  /\ VmmapInv'
         /\ \E at \in USER_LOW..(USER_HIGH - n) : \A p \in Int : Entry(vmm_list', p) =
              IF at <= p /\ p < at + n THEN <<o, p - at + off, prot>> ELSE Entry(vmm_list, p)
<1> DEFINE at == IF lo = 0 THEN vmmap_find_range(vmm_list, n) ELSE lo
           clear == lo # 0 /\ ~vmmap_is_range_empty(vmm_list, lo, n)
           kept == IF clear THEN vmmap_remove(vmm_list, lo, n) ELSE vmm_list
           left == IF clear THEN RefsAfterRemove(vmm_list, lo, n) ELSE refs
           area == [start |-> at, end |-> at + n, off |-> off, obj |-> o,
                    prot |-> prot, linked |-> TRUE]
<1>1. /\ at # -1
      /\ vmm_list' = vmmap_insert(kept, area)
      /\ refs' = [left EXCEPT ![o] = @ + 1]
      /\ pt' = IF clear THEN pt_unmap_range(lo, n) ELSE pt
  BY Zenon DEF vmmap_map
<1>2. /\ vmm_list \in Seq(Areas) /\ Sorted(vmm_list) /\ refs \in [Objects -> Nat]
      /\ \A x \in Objects : refs[x] = Count(vmm_list, x)
      /\ pt \in PageTables /\ Fresh(pt, vmm_list) /\ fault = "none"
  BY InvNow, Zenon
<1>3. /\ USER_LOW \in Nat \ {0} /\ USER_HIGH \in Nat /\ USER_LOW < USER_HIGH
      /\ lo \in Nat /\ n \in Nat \ {0} /\ n \in 1..(USER_HIGH - USER_LOW)
      /\ lo # 0 => lo \in USER_LOW..(USER_HIGH - n)
  BY VmmapConstants DEF Pages, Room
<1>4. /\ at \in USER_LOW..(USER_HIGH - n)
      /\ kept \in Seq(Areas) /\ Sorted(kept) /\ vmmap_is_range_empty(kept, at, n)
      /\ left \in [Objects -> Nat] /\ \A x \in Objects : left[x] = Count(kept, x)
      /\ pt' \in PageTables /\ Fresh(pt', kept)
      /\ \A p \in Int : ~(at <= p /\ p < at + n) => Entry(kept, p) = Entry(vmm_list, p)
  <2>1. CASE clear
    <3>1. at = lo /\ lo # 0
      BY <2>1, Zenon
    <3>2. /\ kept = vmmap_remove(vmm_list, lo, n) /\ left = RefsAfterRemove(vmm_list, lo, n)
          /\ pt' = pt_unmap_range(lo, n)
      BY <1>1, <2>1, Zenon
    <3> HIDE DEF at, kept, left, clear
    <3> QED
      BY <1>3, <3>1, <3>2, RemoveState, ZenonT(40)
  <2>2. CASE ~clear
    <3>1. kept = vmm_list /\ left = refs /\ pt' = pt
      BY <1>1, <2>2, Zenon
    <3>2. at \in USER_LOW..(USER_HIGH - n) /\ vmmap_is_range_empty(vmm_list, at, n)
      <4>1. CASE lo = 0
        BY <1>1, <1>2, <1>3, <4>1, FindRange, Zenon
      <4>2. CASE lo # 0
        BY <1>3, <2>2, <4>2, Zenon
      <4> QED
        BY <4>1, <4>2, Zenon
    <3> HIDE DEF at, kept, left, clear
    <3> QED
      BY <1>2, <3>1, <3>2, Zenon
  <2> QED
    BY <2>1, <2>2, Zenon
<1> HIDE DEF at, kept, left, clear
<1>5. /\ area \in Areas /\ area.start = at /\ area.end = at + n /\ area.start < area.end
      /\ area.obj = o /\ area.off = off /\ area.prot = prot /\ area.end - area.start = n
  BY <1>3, <1>4 DEF Areas, Pages
<1> HIDE DEF area
<1>6. PICK k : /\ Inserted(vmm_list', kept, area, k)
               /\ vmm_list' \in Seq(Areas) /\ Sorted(vmm_list')
  BY <1>1, <1>4, <1>5, InsertList, Zenon
<1>7. \A p \in Int : Entry(vmm_list', p) = IF Covers(area, p) THEN PageIn(area, p) ELSE Entry(kept, p)
  BY <1>4, <1>5, <1>6, InsertedEntry, Zenon
<1>8. \A p \in Int : /\ Covers(area, p) <=> at <= p /\ p < at + n
                     /\ PageIn(area, p) = <<o, p - at + off, prot>>
  BY <1>5, Zenon DEF Covers, PageIn
<1>9. \A p \in Int : Entry(vmm_list', p) =
        IF at <= p /\ p < at + n THEN <<o, p - at + off, prot>> ELSE Entry(vmm_list, p)
  BY <1>4, <1>7, <1>8, Zenon
<1>10. \A x \in Objects : Count(vmm_list', x) = left[x] + (IF o = x THEN 1 ELSE 0)
  BY <1>4, <1>5, <1>6, CountInserted
<1>11. refs' \in [Objects -> Nat] /\ \A x \in Objects : refs'[x] = Count(vmm_list', x)
  BY <1>1, <1>4, <1>10
<1>12. Fresh(pt', vmm_list')
  <2> SUFFICES ASSUME NEW p \in Pages, pt'[p] # Null
               PROVE  /\ Entry(vmm_list', p) # Null
                      /\ pt'[p] = <<Entry(vmm_list', p)[1], Entry(vmm_list', p)[2]>>
    BY Zenon DEF Fresh
  <2>1. Entry(kept, p) # Null /\ pt'[p] = <<Entry(kept, p)[1], Entry(kept, p)[2]>> /\ p \in Int
    BY <1>4, VmmapConstants DEF Fresh, Pages
  <2>2. ~(at <= p /\ p < at + n)
    <3> SUFFICES ASSUME at <= p, p < at + n
                 PROVE  FALSE
      OBVIOUS
    <3>1. PICK i \in DOMAIN kept : Covers(kept[i], p)
      BY <1>4, <2>1, EntryNull, Zenon
    <3>2. p \in at..(at + n - 1) /\ at \in Nat
      BY <1>3, <1>4, <2>1
    <3> QED
      BY <1>3, <1>4, <3>1, <3>2, RangeEmpty, Zenon
  <2> QED
    BY <1>7, <1>8, <2>1, <2>2, Zenon
<1> QED
  BY <1>2, <1>4, <1>6, <1>9, <1>11, <1>12, InvNext, Zenon

\* What a growing brk does.
LEMMA GrowStep ==
  ASSUME VmmapInv, Runs, NEW i \in DOMAIN vmm_list, NEW e \in (vmm_list[i].end + 1)..USER_HIGH,
         expand_brk(i, e), UNCHANGED <<refs, pt, fault>>
  PROVE  /\ VmmapInv'
         /\ \A p \in Int : Entry(vmm_list', p) =
              IF vmm_list[i].end <= p /\ p < e THEN PageIn(vmm_list[i], p) ELSE Entry(vmm_list, p)
         /\ \A p \in Int : vmm_list[i].end <= p /\ p < e => Entry(vmm_list, p) = Null
<1> DEFINE b == vmm_list[i].end
<1>1. /\ vmm_list \in Seq(Areas) /\ Sorted(vmm_list) /\ refs \in [Objects -> Nat]
      /\ \A o \in Objects : refs[o] = Count(vmm_list, o)
      /\ pt \in PageTables /\ Fresh(pt, vmm_list) /\ fault = "none"
  BY InvNow, Zenon
<1>2. /\ vmmap_is_range_empty(vmm_list, b, e - b)
      /\ vmm_list' = [vmm_list EXCEPT ![i].end = e]
  BY Zenon DEF expand_brk
<1>3. /\ vmm_list' \in Seq(Areas) /\ Sorted(vmm_list')
      /\ \A o \in Objects : Count(vmm_list', o) = Count(vmm_list, o)
      /\ \A p \in Int : Entry(vmm_list', p) =
           IF b <= p /\ p < e THEN PageIn(vmm_list[i], p) ELSE Entry(vmm_list, p)
  <2>1. Grown(vmm_list', vmm_list, i, e)
    BY <1>1, <1>2, GrownList, Zenon
  <2> QED
    BY <2>1, Zenon DEF Grown
<1>4. b \in Nat /\ e - b \in Nat \ {0} /\ b + (e - b) = e
  <2>1. b \in Nat /\ USER_HIGH \in Nat
    BY <1>1, AreaType, VmmapConstants
  <2>2. e \in (b + 1)..USER_HIGH
    OBVIOUS
  <2> HIDE DEF b
  <2> QED
    BY <2>1, <2>2
<1> HIDE DEF b
<1>5. \A p \in Int : b <= p /\ p < e => Entry(vmm_list, p) = Null
  <2> SUFFICES ASSUME NEW p \in Int, b <= p, p < e
               PROVE  Entry(vmm_list, p) = Null
    OBVIOUS
  <2>1. p \in b..(b + (e - b) - 1)
    BY <1>4
  <2>2. \A j \in DOMAIN vmm_list : ~Covers(vmm_list[j], p)
    BY <1>1, <1>2, <1>4, <2>1, RangeEmpty, Zenon
  <2> QED
    BY <1>1, <2>2, EntryNull, Zenon
<1>6. Fresh(pt', vmm_list')
  <2> SUFFICES ASSUME NEW p \in Pages, pt[p] # Null
               PROVE  /\ Entry(vmm_list', p) # Null
                      /\ pt[p] = <<Entry(vmm_list', p)[1], Entry(vmm_list', p)[2]>>
    BY Zenon DEF Fresh
  <2>1. /\ Entry(vmm_list, p) # Null /\ p \in Int
        /\ pt[p] = <<Entry(vmm_list, p)[1], Entry(vmm_list, p)[2]>>
    BY <1>1, VmmapConstants DEF Fresh, Pages
  <2>2. Entry(vmm_list', p) = Entry(vmm_list, p)
    BY <1>3, <1>5, <2>1, Zenon
  <2> QED
    BY <2>1, <2>2, Zenon
<1>7. VmmapInv'
  BY <1>1, <1>3, <1>6, InvNext, Zenon
<1> QED
  BY <1>3, <1>5, <1>7, Zenon DEF b

\* The break is in the user pages.
LEMMA BrkPages ==
  ASSUME NEW addr \in p_start_brk..(USER_HIGH * PAGE_SIZE)
  PROVE  /\ ADDR_TO_PN(PAGE_ALIGN_UP(addr)) \in (USER_LOW + 1)..USER_HIGH
         /\ ADDR_TO_PN(p_start_brk) \in Pages
<1> DEFINE P == PAGE_SIZE
           up == (addr + P - 1) \div P
<1>1. /\ P \in Nat \ {0} /\ USER_LOW \in Nat /\ USER_HIGH \in Nat
      /\ p_start_brk \in Nat /\ USER_LOW * P < p_start_brk /\ p_start_brk < USER_HIGH * P
      /\ USER_LOW * P \in Nat /\ USER_HIGH * P \in Nat
  BY VmmapConstants
<1>2. addr \in Nat /\ p_start_brk <= addr /\ addr <= USER_HIGH * P
  BY <1>1
<1> HIDE DEF P
<1>3. /\ up \in Nat /\ up * P <= addr + P - 1 /\ addr + P - 1 < up * P + P
      /\ (up * P) \div P = up
  BY <1>1, <1>2
<1>4. ADDR_TO_PN(PAGE_ALIGN_UP(addr)) = up
  BY <1>3, Zenon DEF ADDR_TO_PN, PAGE_ALIGN_UP, P
<1> HIDE DEF up
<1>5. USER_LOW < up
  <2> SUFFICES ASSUME up <= USER_LOW
               PROVE  FALSE
    BY <1>1, <1>3
  <2>1. up * P <= USER_LOW * P
    BY <1>1, <1>3
  <2> QED
    BY <1>1, <1>2, <1>3, <2>1
<1>6. up <= USER_HIGH
  <2> SUFFICES ASSUME USER_HIGH + 1 <= up
               PROVE  FALSE
    BY <1>1, <1>3
  <2>1. USER_HIGH * P + P <= up * P
    BY <1>1, <1>3
  <2> QED
    BY <1>1, <1>2, <1>3, <2>1
<1>7. p_start_brk \div P \in USER_LOW..(USER_HIGH - 1)
  <2> DEFINE q == p_start_brk \div P
  <2>1. q \in Nat /\ q * P <= p_start_brk /\ p_start_brk < q * P + P
    BY <1>1
  <2> HIDE DEF q
  <2>2. USER_LOW <= q
    <3> SUFFICES ASSUME q + 1 <= USER_LOW
                 PROVE  FALSE
      BY <1>1, <2>1
    <3>1. q * P + P <= USER_LOW * P
      BY <1>1, <2>1
    <3> QED
      BY <1>1, <2>1, <3>1
  <2>3. q < USER_HIGH
    <3> SUFFICES ASSUME USER_HIGH <= q
                 PROVE  FALSE
      BY <1>1, <2>1
    <3>1. USER_HIGH * P <= q * P
      BY <1>1, <2>1
    <3> QED
      BY <1>1, <2>1, <3>1
  <2> QED
    BY <1>1, <2>1, <2>2, <2>3 DEF q
<1> QED
  BY <1>1, <1>3, <1>4, <1>5, <1>6, <1>7 DEF ADDR_TO_PN, Pages, P

\* brk: nothing changes but the fault, or the area of p_start_brk shrinks or grows.
LEMMA BrkStep ==
  ASSUME VmmapInv, NEW addr \in p_start_brk..(USER_HIGH * PAGE_SIZE), do_brk(addr)
  PROVE  /\ VmmapInv'
         /\ \/ UNCHANGED vmm_list
            \/ \E lo \in USER_LOW..USER_HIGH, n \in Nat \ {0} :
                 /\ lo + n <= USER_HIGH
                 /\ \A p \in Int : Entry(vmm_list', p) =
                      IF lo <= p /\ p < lo + n THEN Null ELSE Entry(vmm_list, p)
            \/ \E a \in Areas, n \in Nat \ {0} :
                 /\ a.start < a.end /\ a.end + n <= USER_HIGH
                 /\ Entry(vmm_list, a.end - 1) = PageIn(a, a.end - 1)
                 /\ \A p \in Int : a.end <= p /\ p < a.end + n => Entry(vmm_list, p) = Null
                 /\ \A p \in Int : Entry(vmm_list', p) =
                      IF a.end <= p /\ p < a.end + n THEN PageIn(a, p) ELSE Entry(vmm_list, p)
<1> DEFINE i == vmmap_lookup(vmm_list, ADDR_TO_PN(p_start_brk))
           cur_end == ADDR_TO_PN(PAGE_ALIGN_UP(addr))
           prev_end == vmm_list[i].end
<1>1. /\ Runs
      /\ \/ i = 0 /\ fault' = "null" /\ UNCHANGED <<vmm_list, refs, pt>>
         \/ /\ i # 0 /\ UNCHANGED fault
            /\ \/ prev_end < cur_end /\ expand_brk(i, cur_end) /\ UNCHANGED <<refs, pt>>
               \/ /\ prev_end > cur_end
                  /\ vmm_list' = vmmap_remove(vmm_list, cur_end, prev_end - cur_end)
                  /\ refs' = RefsAfterRemove(vmm_list, cur_end, prev_end - cur_end)
                  /\ pt' = pt_unmap_range(cur_end, prev_end - cur_end)
               \/ prev_end = cur_end /\ UNCHANGED <<vmm_list, refs, pt>>
  BY Zenon DEF do_brk
<1>2. cur_end \in (USER_LOW + 1)..USER_HIGH /\ ADDR_TO_PN(p_start_brk) \in Int
  BY BrkPages, VmmapConstants DEF Pages
<1>3. /\ vmm_list \in Seq(Areas) /\ Sorted(vmm_list) /\ refs \in [Objects -> Nat]
      /\ \A o \in Objects : refs[o] = Count(vmm_list, o)
      /\ pt \in PageTables /\ Fresh(pt, vmm_list) /\ fault = "none"
  BY <1>1, InvNow, Zenon
<1>4. i # 0 => i \in DOMAIN vmm_list
  <2>1. i \in 0..Len(vmm_list)
    BY <1>2, <1>3, Lookup, Zenon
  <2> HIDE DEF i
  <2> QED
    BY <1>3, <2>1
<1>5. USER_LOW \in Nat /\ USER_HIGH \in Nat
  BY VmmapConstants, Zenon
<1>6. ASSUME i # 0
      PROVE  /\ vmm_list[i] \in Areas /\ vmm_list[i].start < vmm_list[i].end
             /\ prev_end \in Nat /\ prev_end <= USER_HIGH
  BY <1>3, <1>4, <1>6, AreaType DEF Sorted
<1> HIDE DEF i, cur_end
<1>7. CASE UNCHANGED <<vmm_list, refs, pt>>
  <2>1. fault' \in {"none", "null"}
    BY <1>1, <1>3, Zenon
  <2> QED
    BY <1>3, <1>7, <2>1, InvNext, Zenon
<1>8. CASE /\ i # 0 /\ UNCHANGED fault /\ prev_end > cur_end
           /\ vmm_list' = vmmap_remove(vmm_list, cur_end, prev_end - cur_end)
           /\ refs' = RefsAfterRemove(vmm_list, cur_end, prev_end - cur_end)
           /\ pt' = pt_unmap_range(cur_end, prev_end - cur_end)
  <2> DEFINE n == prev_end - cur_end
  <2>1. /\ n \in Nat \ {0} /\ cur_end \in Nat /\ cur_end \in USER_LOW..USER_HIGH
        /\ cur_end + n <= USER_HIGH
    BY <1>2, <1>5, <1>6, <1>8
  <2> HIDE DEF n
  <2>2. /\ vmm_list' = vmmap_remove(vmm_list, cur_end, n)
        /\ refs' = RefsAfterRemove(vmm_list, cur_end, n)
        /\ pt' = pt_unmap_range(cur_end, n)
    BY <1>8, Zenon DEF n
  <2>3. /\ VmmapInv'
        /\ \A p \in Int : Entry(vmm_list', p) =
              IF cur_end <= p /\ p < cur_end + n THEN Null ELSE Entry(vmm_list, p)
    BY <1>1, <1>8, <2>1, <2>2, RemoveStep, Zenon
  <2> QED
    BY <2>1, <2>3, Zenon
<1>9. CASE /\ i # 0 /\ UNCHANGED fault /\ prev_end < cur_end
           /\ expand_brk(i, cur_end) /\ UNCHANGED <<refs, pt>>
  <2> DEFINE a == vmm_list[i]
             n == cur_end - a.end
  <2>1. a \in Areas /\ a.start < a.end /\ a.end \in Nat /\ a.start \in Nat
    BY <1>6, <1>9, AreaType, Zenon
  <2>2. n \in Nat \ {0} /\ a.end + n = cur_end /\ cur_end <= USER_HIGH
    BY <1>2, <1>5, <1>9, <2>1
  <2>3. cur_end \in (vmm_list[i].end + 1)..USER_HIGH
    BY <1>2, <1>5, <1>9, <2>1
  <2>4. /\ VmmapInv'
        /\ \A p \in Int : Entry(vmm_list', p) =
              IF a.end <= p /\ p < cur_end THEN PageIn(a, p) ELSE Entry(vmm_list, p)
        /\ \A p \in Int : a.end <= p /\ p < cur_end => Entry(vmm_list, p) = Null
    BY <1>1, <1>4, <1>9, <2>3, GrowStep, Zenon
  <2>5. Entry(vmm_list, a.end - 1) = PageIn(a, a.end - 1)
    <3>1. a.end - 1 \in Int /\ Covers(a, a.end - 1)
      BY <2>1 DEF Covers
    <3> QED
      BY <1>3, <1>4, <1>9, <3>1, EntryIs, Zenon
  <2> HIDE DEF a, n
  <2> QED
    BY <2>1, <2>2, <2>4, <2>5, Zenon
<1> QED
  BY <1>1, <1>7, <1>8, <1>9, Zenon

\* Exit, and a page fault that ends the process.
LEMMA DestroyStep ==
  ASSUME VmmapInv, Runs, vmmap_destroy
  PROVE  VmmapInv' /\ vmm_list' = <<>>
<1>1. /\ vmm_list \in Seq(Areas) /\ refs \in [Objects -> Nat]
      /\ \A o \in Objects : refs[o] = Count(vmm_list, o)
      /\ pt \in PageTables /\ fault = "none"
  BY InvNow, Zenon
<1>2. /\ refs' = [o \in Objects |->
                    refs[o] - Cardinality({i \in DOMAIN vmm_list : vmm_list[i].obj = o})]
      /\ vmm_list' = <<>> /\ UNCHANGED <<pt, fault>>
  BY Zenon DEF vmmap_destroy
<1>3. \A o \in Objects : Count(vmm_list, o) \in Nat
  BY <1>1, CountType, Zenon
<1>4. vmm_list' \in Seq(Areas) /\ DOMAIN vmm_list' = {} /\ Sorted(vmm_list')
  BY <1>2 DEF Sorted
<1>5. \A o \in Objects : Count(vmm_list', o) = 0
  BY <1>4, CountType, Zenon
<1>6. \A o \in Objects : refs'[o] = 0
  BY <1>1, <1>2, <1>3 DEF Count, Of
<1>7. refs' \in [Objects -> Nat]
  BY <1>2, <1>6
<1> QED
  BY <1>1, <1>2, <1>4, <1>5, <1>6, <1>7, InvNext, Zenon

\* A page fault ends the process or maps the page its area says.
LEMMA FaultStep ==
  ASSUME VmmapInv, NEW vfn \in Touched, NEW perm, handle_pagefault(vfn, perm)
  PROVE  VmmapInv' /\ (vmm_list' = <<>> \/ UNCHANGED vmm_list)
<1> DEFINE i == vmmap_lookup(vmm_list, vfn)
<1>1. /\ Runs
      /\ \/ vmmap_destroy
         \/ /\ i # 0 /\ pt' = [pt EXCEPT ![vfn] = ObjPage(vmm_list[i], vfn)]
            /\ UNCHANGED <<vmm_list, refs, fault>>
  BY Zenon DEF handle_pagefault
<1>2. CASE vmmap_destroy
  BY <1>1, <1>2, DestroyStep, Zenon
<1>3. CASE /\ i # 0 /\ pt' = [pt EXCEPT ![vfn] = ObjPage(vmm_list[i], vfn)]
           /\ UNCHANGED <<vmm_list, refs, fault>>
  <2>1. /\ vmm_list \in Seq(Areas) /\ Sorted(vmm_list) /\ refs \in [Objects -> Nat]
        /\ \A o \in Objects : refs[o] = Count(vmm_list, o)
        /\ pt \in PageTables /\ fault = "none" /\ Fresh(pt, vmm_list)
    BY <1>1, InvNow, Zenon
  <2>2. vfn \in Pages /\ vfn \in Int
    BY VmmapConstants DEF Pages
  <2>3. /\ Entry(vmm_list, vfn) # Null /\ i \in DOMAIN vmm_list /\ Covers(vmm_list[i], vfn)
        /\ ObjPage(vmm_list[i], vfn) = <<Entry(vmm_list, vfn)[1], Entry(vmm_list, vfn)[2]>>
    BY <1>3, <2>1, <2>2, ObjPageOf
  <2>4. ObjPage(vmm_list[i], vfn) \in Objects \X Nat
    BY <2>1, <2>2, <2>3, PageInType
  <2> HIDE DEF i
  <2>5. pt' \in PageTables
    BY <1>3, <2>1, <2>4, Zenon DEF PageTables
  <2>6. Fresh(pt', vmm_list)
    <3> SUFFICES ASSUME NEW p \in Pages, pt'[p] # Null
                 PROVE  /\ Entry(vmm_list, p) # Null
                        /\ pt'[p] = <<Entry(vmm_list, p)[1], Entry(vmm_list, p)[2]>>
      BY Zenon DEF Fresh
    <3>1. CASE p = vfn
      BY <1>3, <2>1, <2>3, <3>1, Zenon DEF PageTables
    <3>2. CASE p # vfn
      <4>1. pt'[p] = pt[p]
        BY <1>3, <2>1, <3>2, Zenon DEF PageTables
      <4> QED
        BY <2>1, <4>1, Zenon DEF Fresh
    <3> QED
      BY <3>1, <3>2, Zenon
  <2> QED
    BY <1>3, <2>1, <2>5, <2>6, InvNext, Zenon
<1> QED
  BY <1>1, <1>2, <1>3, Zenon

\* A page that is freed only takes translations away.
LEMMA FreeStep ==
  ASSUME VmmapInv, NEW o, NEW k, pframe_remove_from_pts(o, k)
  PROVE  VmmapInv' /\ UNCHANGED vmm_list
<1>1. /\ fault = "none" /\ UNCHANGED <<vmm_list, refs, fault>>
      /\ pt' = [p \in Pages |-> IF p \in MappedAt(o, k) THEN Null ELSE pt[p]]
  BY Zenon DEF pframe_remove_from_pts
<1>2. /\ vmm_list \in Seq(Areas) /\ Sorted(vmm_list) /\ refs \in [Objects -> Nat]
      /\ \A x \in Objects : refs[x] = Count(vmm_list, x)
      /\ pt \in PageTables
  BY Zenon DEF VmmapInv, TypeOK, AreasSorted, RefsOK, PageTables
<1>3. pt' \in PageTables
  BY <1>1, <1>2, Zenon DEF PageTables
<1>4. vmm_list' = <<>> \/ Fresh(pt', vmm_list')
  <2> SUFFICES ASSUME vmm_list # <<>>
               PROVE  Fresh(pt', vmm_list)
    BY <1>1, Zenon
  <2>1. Fresh(pt, vmm_list)
    BY <1>1, FreshNow, Zenon DEF VmmapInv, Runs
  <2>2. \A p \in Pages : pt'[p] # Null => pt'[p] = pt[p]
    BY <1>1, Zenon
  <2> QED
    BY <2>1, <2>2, Zenon DEF Fresh
<1> QED
  BY <1>1, <1>2, <1>3, <1>4, InvNext, Zenon

\* A process starts with the area of its program's data.
LEMMA InitInv ==
  ASSUME Init
  PROVE  /\ VmmapInv
         /\ \E n \in 1..(USER_HIGH - USER_LOW) : \A p \in Pages : Entry(vmm_list, p) =
              IF p < USER_LOW + n THEN <<Bss, p - USER_LOW, {"r", "w"}>> ELSE Null
<1> DEFINE e == ADDR_TO_PN(PAGE_ALIGN_UP(p_start_brk))
           a == [start |-> USER_LOW, end |-> e, off |-> 0, obj |-> Bss, prot |-> {"r", "w"},
                 linked |-> TRUE]
<1>1. /\ vmm_list = <<a>> /\ refs = [o \in Objects |-> IF o = Bss THEN 1 ELSE 0]
      /\ pt = [p \in Pages |-> Null] /\ fault = "none"
  BY Zenon DEF Init
<1>2. e \in (USER_LOW + 1)..USER_HIGH /\ USER_LOW \in Nat /\ USER_HIGH \in Nat
  <2>1. p_start_brk \in p_start_brk..(USER_HIGH * PAGE_SIZE)
    BY VmmapConstants
  <2> QED
    BY <2>1, BrkPages, VmmapConstants, Zenon
<1> HIDE DEF e
<1>3. /\ a \in Areas /\ a.start = USER_LOW /\ a.end = e /\ a.off = 0 /\ a.obj = Bss
      /\ a.prot = {"r", "w"}
  BY <1>2, VmmapConstants DEF Areas, Pages, Objects
<1> HIDE DEF a
<1>4. /\ vmm_list \in Seq(Areas) /\ DOMAIN vmm_list = {1} /\ vmm_list[1] = a
  BY <1>1, <1>3
<1>5. Sorted(vmm_list)
  BY <1>2, <1>3, <1>4 DEF Sorted
<1>6. \A o \in Objects : refs[o] = Count(vmm_list, o)
  <2> SUFFICES ASSUME NEW o \in Objects
               PROVE  refs[o] = Count(vmm_list, o)
    OBVIOUS
  <2>1. CASE o = Bss
    <3>1. Of(vmm_list, o) = {1}
      BY <1>3, <1>4, <2>1, Zenon DEF Of
    <3> QED
      BY <1>1, <2>1, <3>1, FS_Singleton, Zenon DEF Count
  <2>2. CASE o # Bss
    <3>1. Of(vmm_list, o) = {}
      BY <1>3, <1>4, <2>2, Zenon DEF Of
    <3> QED
      BY <1>1, <2>2, <3>1, FS_EmptySet, Zenon DEF Count
  <2> QED
    BY <2>1, <2>2, Zenon
<1>7. VmmapInv
  <2>1. TypeOK
    BY <1>1, <1>4, Zenon DEF TypeOK
  <2>2. PtFresh
    BY <1>1, Zenon DEF PtFresh
  <2> QED
    BY <1>5, <1>6, <2>1, <2>2, Zenon DEF VmmapInv, AreasSorted, RefsOK
<1>8. ASSUME NEW p \in Pages
      PROVE  Entry(vmm_list, p) =
               IF p < USER_LOW + (e - USER_LOW) THEN <<Bss, p - USER_LOW, {"r", "w"}>> ELSE Null
  <2>1. p \in Int /\ (Covers(a, p) <=> p < USER_LOW + (e - USER_LOW))
    BY <1>2, <1>3 DEF Covers, Pages
  <2>2. PageIn(a, p) = <<Bss, p - USER_LOW, {"r", "w"}>>
    <3>1. p - a.start + a.off = p - USER_LOW
      BY <1>2, <1>3, <2>1
    <3> QED
      BY <1>3, <3>1, Zenon DEF PageIn
  <2>3. CASE Covers(a, p)
    BY <1>4, <1>5, <2>1, <2>2, <2>3, EntryIs, Zenon
  <2>4. CASE ~Covers(a, p)
    <3>1. Entry(vmm_list, p) = Null
      BY <1>4, <1>5, <2>1, <2>4, EntryIs, Zenon
    <3> QED
      BY <2>1, <2>4, <3>1, Zenon
  <2> QED
    BY <2>3, <2>4, Zenon
<1>9. e - USER_LOW \in 1..(USER_HIGH - USER_LOW)
  BY <1>2
<1> QED
  BY <1>7, <1>8, <1>9, Zenon

\* The ways in which a step changes what the pages are.
Unmapped(lo, n) ==
  /\ lo \in USER_LOW..USER_HIGH /\ n \in Nat \ {0} /\ lo + n <= USER_HIGH
  /\ \A p \in Int : Entry(vmm_list', p) =
       IF lo <= p /\ p < lo + n THEN Null ELSE Entry(vmm_list, p)
GrownBy(a, n) ==
  /\ a \in Areas /\ n \in Nat \ {0} /\ a.start < a.end /\ a.end + n <= USER_HIGH
  /\ Entry(vmm_list, a.end - 1) = PageIn(a, a.end - 1)
  /\ \A p \in Int : a.end <= p /\ p < a.end + n => Entry(vmm_list, p) = Null
  /\ \A p \in Int : Entry(vmm_list', p) =
       IF a.end <= p /\ p < a.end + n THEN PageIn(a, p) ELSE Entry(vmm_list, p)
Mapped(at, n, o, off, prot) ==
  /\ n \in Nat \ {0} /\ at \in USER_LOW..(USER_HIGH - n)
  /\ o \in Files \/ \A p \in Int : Entry(vmm_list, p) = Null \/ Entry(vmm_list, p)[1] # o
  /\ \A p \in Int : Entry(vmm_list', p) =
       IF at <= p /\ p < at + n THEN <<o, p - at + off, prot>> ELSE Entry(vmm_list, p)
SpaceStep ==
  \/ \A p \in Int : Entry(vmm_list', p) = Entry(vmm_list, p)
  \/ vmm_list' = <<>>
  \/ \E lo, n : Unmapped(lo, n)
  \/ \E a, n : GrownBy(a, n)
  \/ \E at, n, o : \E off \in Offsets, prot \in Prots :
       o \in Objects /\ Mapped(at, n, o, off, prot)

\* An object without references is on no page.
LEMMA UnusedObject ==
  ASSUME VmmapInv, Runs, NEW o \in Objects, refs[o] = 0
  PROVE  \A p \in Int : Entry(vmm_list, p) = Null \/ Entry(vmm_list, p)[1] # o
<1>1. vmm_list \in Seq(Areas) /\ Sorted(vmm_list) /\ Count(vmm_list, o) = 0
  BY InvNow, Zenon
<1>2. \A i \in DOMAIN vmm_list : vmm_list[i].obj # o
  BY <1>1, CountType, Zenon
<1> SUFFICES ASSUME NEW p \in Int, Entry(vmm_list, p) # Null
             PROVE  Entry(vmm_list, p)[1] # o
  OBVIOUS
<1>3. PICK i \in DOMAIN vmm_list : Covers(vmm_list[i], p)
  BY <1>1, EntryNull, Zenon
<1>4. Entry(vmm_list, p) = PageIn(vmm_list[i], p)
  BY <1>1, <1>3, EntryIs, Zenon
<1>5. PageIn(vmm_list[i], p)[1] = vmm_list[i].obj
  BY Zenon DEF PageIn
<1> QED
  BY <1>2, <1>4, <1>5, Zenon

\* mmap maps pages of a file or of an unused object, or changes no area.
LEMMA MmapStep ==
  ASSUME VmmapInv, NEW lo \in Pages \cup {0}, NEW n \in 0..Room(lo), NEW what \in Requests,
         NEW off \in Offsets, NEW prot \in Prots, do_mmap(lo, n, what, off, prot)
  PROVE  VmmapInv' /\ SpaceStep
<1> DEFINE Choice == IF what \in Files THEN {what} ELSE {a \in Anons \ {Bss} : refs[a] = 0}
<1>1. /\ Runs
      /\ \/ fault' \in {"kassert", "none", "wild"} /\ UNCHANGED <<vmm_list, refs, pt>>
         \/ /\ n > 0 /\ UNCHANGED fault
            /\ \E o \in Choice : vmmap_map(lo, n, o, off, prot)
  BY Zenon DEF do_mmap
<1>2. CASE fault' \in {"kassert", "none", "wild"} /\ UNCHANGED <<vmm_list, refs, pt>>
  <2>1. VmmapInv'
    BY <1>1, <1>2, InvNow, InvNext, Zenon
  <2> QED
    BY <1>2, <2>1, Zenon DEF SpaceStep
<1>3. ASSUME n > 0, UNCHANGED fault, NEW o \in Choice, vmmap_map(lo, n, o, off, prot)
      PROVE  VmmapInv' /\ SpaceStep
  <2>1. n \in 1..Room(lo) /\ n \in Nat \ {0} /\ off \in Nat /\ prot \in SUBSET {"r", "w"}
    BY <1>3, VmmapConstants DEF Room, Pages
  <2>2. o \in Objects /\ (o \in Files \/ refs[o] = 0)
    BY Zenon DEF Objects
  <2>3. /\ VmmapInv'
        /\ \E at \in USER_LOW..(USER_HIGH - n) : \A p \in Int : Entry(vmm_list', p) =
              IF at <= p /\ p < at + n THEN <<o, p - at + off, prot>> ELSE Entry(vmm_list, p)
    BY <1>1, <1>3, <2>1, <2>2, MapStep
  <2>4. o \in Files \/ \A p \in Int : Entry(vmm_list, p) = Null \/ Entry(vmm_list, p)[1] # o
    BY <1>1, <2>2, UnusedObject, Zenon
  <2>5. \E at : Mapped(at, n, o, off, prot)
    BY <2>1, <2>3, <2>4, Zenon DEF Mapped
  <2> QED
    BY <2>2, <2>3, <2>5, Zenon DEF SpaceStep
<1> QED
  BY <1>1, <1>2, <1>3, Zenon

\* Every step keeps the invariant and changes the pages in one of those ways.
LEMMA NextStep ==
  ASSUME VmmapInv, [Next]_vars
  PROVE  VmmapInv' /\ SpaceStep
<1>1. ASSUME NEW lo \in Pages \cup {0}, NEW n \in 0..Room(lo), NEW what \in Requests,
             NEW off \in Offsets, NEW prot \in Prots, do_mmap(lo, n, what, off, prot)
      PROVE  VmmapInv' /\ SpaceStep
  BY <1>1, MmapStep, Zenon
<1>2. ASSUME NEW lo \in Pages, NEW n \in 0..Room(lo), do_munmap(lo, n)
      PROVE  VmmapInv' /\ SpaceStep
  <2>1. lo \in Nat /\ lo \in USER_LOW..USER_HIGH /\ n \in Nat /\ lo + n <= USER_HIGH
    BY VmmapConstants DEF Pages, Room
  <2>2. /\ VmmapInv'
        /\ \A p \in Int : Entry(vmm_list', p) =
             IF lo <= p /\ p < lo + n THEN Null ELSE Entry(vmm_list, p)
    BY <1>2, <2>1, RemoveStep, Zenon DEF do_munmap
  <2>3. CASE n = 0
    <3>1. \A p \in Int : Entry(vmm_list', p) = Entry(vmm_list, p)
      BY <2>1, <2>2, <2>3
    <3> QED
      BY <2>2, <3>1, Zenon DEF SpaceStep
  <2>4. CASE n # 0
    <3>1. Unmapped(lo, n)
      BY <2>1, <2>2, <2>4, Zenon DEF Unmapped
    <3> QED
      BY <2>2, <3>1, Zenon DEF SpaceStep
  <2> QED
    BY <2>3, <2>4, Zenon
<1>3. ASSUME NEW addr \in p_start_brk..(USER_HIGH * PAGE_SIZE), do_brk(addr)
      PROVE  VmmapInv' /\ SpaceStep
  <2>1. VmmapInv' /\ (UNCHANGED vmm_list \/ (\E lo, n : Unmapped(lo, n)) \/ \E a, n : GrownBy(a, n))
    BY <1>3, BrkStep, Zenon DEF Unmapped, GrownBy
  <2> QED
    BY <2>1, Zenon DEF SpaceStep
<1>4. ASSUME NEW vfn \in Touched, NEW perm \in {"r", "w"}, handle_pagefault(vfn, perm)
      PROVE  VmmapInv' /\ SpaceStep
  BY <1>4, FaultStep, Zenon DEF SpaceStep
<1>5. ASSUME NEW p \in Pages, pframe_remove_from_pts(pt[p][1], pt[p][2])
      PROVE  VmmapInv' /\ SpaceStep
  BY <1>5, FreeStep, Zenon DEF SpaceStep
<1>6. CASE do_exit
  BY <1>6, DestroyStep, Zenon DEF do_exit, SpaceStep
<1>7. CASE UNCHANGED vars
  <2>1. UNCHANGED <<vmm_list, refs, pt, fault>>
    BY <1>7, Zenon DEF vars
  <2>2. VmmapInv'
    BY <2>1, Zenon DEF VmmapInv, TypeOK, AreasSorted, Sorted, RefsOK, Count, Of, PtFresh, Runs, PageOf
  <2> QED
    BY <2>1, <2>2, Zenon DEF SpaceStep
<1> QED
  BY <1>1, <1>2, <1>3, <1>4, <1>5, <1>6, <1>7, Zenon DEF Next, Stopped

\* The invariant of the areas, the references and the page table, for any number
\* of user pages and objects and any page size.
THEOREM VmmapInvariant == Spec => []VmmapInv
<1>1. Init => VmmapInv
  BY InitInv, Zenon
<1>2. VmmapInv /\ [Next]_vars => VmmapInv'
  BY NextStep, Zenon
<1> QED
  BY <1>1, <1>2, PTL DEF Spec

\* The areas are non-empty, disjoint and in order, whatever was mapped over,
\* unmapped or grown: what vmmap_insert, vmmap_lookup and vmmap_find_range rely on.
THEOREM SortedAreas == Spec => []AreasSorted
<1>1. VmmapInv => AreasSorted
  BY Zenon DEF VmmapInv
<1> QED
  BY <1>1, VmmapInvariant, PTL

\* No translation of a running process outlives the mapping it was made from.
THEOREM FreshPageTable == Spec => []PtFresh
<1>1. VmmapInv => PtFresh
  BY Zenon DEF VmmapInv
<1> QED
  BY <1>1, VmmapInvariant, PTL

\* vmmap_find_range, which walks the gaps of the list, finds the highest free range
\* of n pages, and finds none only if there is none.
THEOREM FindsHighestRange == Spec => []FindRangeHighest
<1>1. ASSUME VmmapInv
      PROVE  FindRangeHighest
  <2> SUFFICES ASSUME Runs, NEW n \in 1..(USER_HIGH - USER_LOW)
               PROVE  vmmap_find_range(vmm_list, n) =
                        LET free == {lo \in USER_LOW..(USER_HIGH - n) :
                                       \A p \in lo..(lo + n - 1) : PageOf(p) = Null}
                        IN  IF free = {} THEN -1 ELSE Max(free)
    BY Zenon DEF FindRangeHighest
  <2> DEFINE free == {lo \in USER_LOW..(USER_HIGH - n) :
                        \A p \in lo..(lo + n - 1) : PageOf(p) = Null}
             r == vmmap_find_range(vmm_list, n)
  <2>1. vmm_list \in Seq(Areas) /\ Sorted(vmm_list)
    BY <1>1, InvNow, Zenon
  <2>2. /\ r # -1 => r \in USER_LOW..(USER_HIGH - n) /\ vmmap_is_range_empty(vmm_list, r, n)
        /\ \A lo \in USER_LOW..(USER_HIGH - n) : vmmap_is_range_empty(vmm_list, lo, n) =>
             r # -1 /\ lo <= r
    BY <2>1, FindRange, Zenon
  <2>3. USER_LOW \in Nat /\ USER_HIGH \in Nat
    BY VmmapConstants, Zenon
  <2>4. ASSUME NEW p \in Int
        PROVE  PageOf(p) = Null <=> \A i \in DOMAIN vmm_list : ~Covers(vmm_list[i], p)
    <3> DEFINE i == vmmap_lookup(vmm_list, p)
    <3>1. PageOf(p) = IF i = 0 THEN Null ELSE ObjPage(vmm_list[i], p)
      BY Zenon DEF PageOf
    <3>2. /\ Entry(vmm_list, p) = Null <=> i = 0
          /\ i # 0 => i \in DOMAIN vmm_list /\ Covers(vmm_list[i], p)
      BY <2>1, ObjPageOf, Zenon
    <3> HIDE DEF i
    <3>3. i # 0 => ObjPage(vmm_list[i], p) # Null
      BY <2>1, <3>2, PageInType
    <3>4. PageOf(p) = Null <=> Entry(vmm_list, p) = Null
      BY <3>1, <3>2, <3>3, Zenon
    <3> QED
      BY <2>1, <3>4, EntryNull, Zenon
  <2>5. \A lo \in USER_LOW..(USER_HIGH - n) : lo \in free <=> vmmap_is_range_empty(vmm_list, lo, n)
    <3> SUFFICES ASSUME NEW lo \in USER_LOW..(USER_HIGH - n)
                 PROVE  (\A p \in lo..(lo + n - 1) : PageOf(p) = Null)
                          <=> vmmap_is_range_empty(vmm_list, lo, n)
      OBVIOUS
    <3>1. lo \in Nat /\ n \in Nat \ {0} /\ \A p \in lo..(lo + n - 1) : p \in Int
      BY <2>3
    <3>2. vmmap_is_range_empty(vmm_list, lo, n) <=>
            \A i \in DOMAIN vmm_list, p \in lo..(lo + n - 1) : ~Covers(vmm_list[i], p)
      BY <2>1, <3>1, RangeEmpty, Zenon
    <3> QED
      BY <2>4, <3>1, <3>2, Zenon
  <2>6. free \subseteq USER_LOW..(USER_HIGH - n) /\ free \subseteq 0..USER_HIGH
    BY <2>3
  <2> HIDE DEF free, r
  <2>7. CASE r = -1
    <3>1. free = {}
      BY <2>2, <2>5, <2>6, <2>7, Zenon
    <3> QED
      BY <2>7, <3>1, Zenon DEF free, r
  <2>8. CASE r # -1
    <3>1. r \in free /\ r \in Nat /\ \A lo \in free : lo \in Nat /\ lo <= r
      BY <2>2, <2>3, <2>5, <2>6, <2>8
    <3>2. Max(free) \in free /\ \A lo \in free : lo <= Max(free)
      BY <2>3, <2>6, <3>1, GreatestNat, Zenon
    <3>3. r = Max(free)
      <4> DEFINE m == Max(free)
      <4>1. m \in Nat /\ m <= r /\ r <= m
        BY <3>1, <3>2, Zenon
      <4> HIDE DEF m
      <4>2. r = m
        BY <3>1, <4>1
      <4> QED
        BY <4>2, Zenon DEF m
    <3> QED
      BY <3>1, <3>3, Zenon DEF free, r
  <2> QED
    BY <2>7, <2>8, Zenon
<1> QED
  BY <1>1, VmmapInvariant, PTL

\* pframe_remove_from_pts looks for a page where every translation to it is, save
\* in an area that vmmap_remove split off.
THEOREM FreedPagesUnmapped == Spec => []FreedUnmapped
<1>1. ASSUME VmmapInv
      PROVE  FreedUnmapped
  <2> DEFINE i(p) == vmmap_lookup(vmm_list, p)
  <2> SUFFICES ASSUME Runs, NEW p \in Pages, pt[p] # Null, i(p) # 0, vmm_list[i(p)].linked
               PROVE  p \in MappedAt(pt[p][1], pt[p][2])
    BY Zenon DEF FreedUnmapped
  <2> DEFINE a == vmm_list[i(p)]
             k == p - a.start + a.off
  <2>1. vmm_list \in Seq(Areas) /\ Sorted(vmm_list) /\ p \in Int /\ Fresh(pt, vmm_list)
    BY <1>1, InvNow, VmmapConstants DEF Pages
  <2>2. /\ i(p) \in DOMAIN vmm_list /\ Covers(a, p)
        /\ ObjPage(a, p) = <<Entry(vmm_list, p)[1], Entry(vmm_list, p)[2]>>
    BY <2>1, ObjPageOf, Zenon
  <2>3. pt[p] = <<a.obj, k>>
    BY <2>1, <2>2, Zenon DEF Fresh, ObjPage
  <2>4. a \in Range(vmm_list) /\ a \in Areas /\ a.linked
    <3> HIDE DEF i
    <3> QED
      BY <2>1, <2>2 DEF Range
  <2>5. a.start \in Nat /\ a.end \in Nat /\ a.off \in Nat
    BY <2>4, AreaType, Zenon
  <2> HIDE DEF i, a
  <2>6. a.off <= k /\ k < a.off + a.end - a.start /\ p = a.start + k - a.off
    BY <2>1, <2>2, <2>5, SMTT(30) DEF Covers
  <2> HIDE DEF k
  <2>7. pt[p][1] = a.obj /\ pt[p][2] = k
    BY <2>3
  <2>8. p \in MappedAt(a.obj, k)
    BY <2>4, <2>6, Zenon DEF MappedAt
  <2> QED
    BY <2>7, <2>8, Zenon
<1> QED
  BY <1>1, VmmapInvariant, PTL

(***************************************************************************)
(* Vmmap implements AddrSpace                                              *)
(***************************************************************************)

\* PageMapping is the entries.
LEMMA MappingNow == PageMapping = [p \in Pages |-> Entry(vmm_list, p)]
<1> SUFFICES ASSUME NEW p \in Pages
             PROVE  LET i == vmmap_lookup(vmm_list, p)
                        page == ObjPage(vmm_list[i], p)
                    IN  (IF i = 0 THEN Null ELSE <<page[1], page[2], vmm_list[i].prot>>)
                          = Entry(vmm_list, p)
  BY Zenon DEF PageMapping, Pages
<1> DEFINE i == vmmap_lookup(vmm_list, p)
<1>1. /\ ObjPage(vmm_list[i], p)[1] = vmm_list[i].obj
      /\ ObjPage(vmm_list[i], p)[2] = p - vmm_list[i].start + vmm_list[i].off
  BY Zenon DEF ObjPage
<1> QED
  BY <1>1, Zenon DEF Entry, PageIn

LEMMA MappingNext == PageMapping' = [p \in Pages |-> Entry(vmm_list', p)]
<1> SUFFICES ASSUME NEW p \in Pages
             PROVE  LET i == vmmap_lookup(vmm_list', p)
                        page == ObjPage(vmm_list'[i], p)
                    IN  (IF i = 0 THEN Null ELSE <<page[1], page[2], vmm_list'[i].prot>>)
                          = Entry(vmm_list', p)
  BY Zenon DEF PageMapping, Pages, ObjPage
<1> DEFINE i == vmmap_lookup(vmm_list', p)
<1>1. /\ ObjPage(vmm_list'[i], p)[1] = vmm_list'[i].obj
      /\ ObjPage(vmm_list'[i], p)[2] = p - vmm_list'[i].start + vmm_list'[i].off
  BY Zenon DEF ObjPage
<1> QED
  BY <1>1, Zenon DEF Entry, PageIn

\* A step of the areas is a step of the pages, or changes none.
LEMMA PageStep ==
  ASSUME VmmapInv, VmmapInv', SpaceStep, NEW old, NEW new,
         old = [p \in Pages |-> Entry(vmm_list, p)],
         new = [p \in Pages |-> Entry(vmm_list', p)]
  PROVE  old = new \/ Abstract!Step(old, new)
<1>0. /\ USER_LOW \in Nat \ {0} /\ USER_HIGH \in Nat /\ Abstract!Pages = Pages
      /\ \A p \in Pages : p \in Int /\ old[p] = Entry(vmm_list, p) /\ new[p] = Entry(vmm_list', p)
      /\ \A lo, n : Abstract!Range(lo, n) = lo..(lo + n - 1)
  BY VmmapConstants DEF Pages, Abstract!Pages, Abstract!Range
<1>1. CASE \A p \in Int : Entry(vmm_list', p) = Entry(vmm_list, p)
  BY <1>0, <1>1, Zenon
<1>2. CASE vmm_list' = <<>>
  <2>1. vmm_list' \in Seq(Areas) /\ Sorted(vmm_list') /\ DOMAIN vmm_list' = {}
    BY <1>2 DEF Sorted
  <2>2. \A p \in Pages : Entry(vmm_list', p) = Null
    BY <1>0, <2>1, EntryNull, Zenon
  <2>3. Abstract!Exit(old, new)
    BY <1>0, <2>2, Zenon DEF Abstract!Exit
  <2> QED
    BY <2>3, Zenon DEF Abstract!Step
<1>3. ASSUME NEW lo, NEW n, Unmapped(lo, n)
      PROVE  Abstract!Step(old, new)
  <2>1. /\ lo \in Nat /\ lo \in Pages /\ n \in Nat \ {0} /\ n \in 1..(USER_HIGH - lo)
        /\ \A p \in Int : Entry(vmm_list', p) =
             IF lo <= p /\ p < lo + n THEN Null ELSE Entry(vmm_list, p)
    BY <1>0, <1>3 DEF Unmapped, Pages
  <2>2. \A p \in Pages : p \in lo..(lo + n - 1) <=> lo <= p /\ p < lo + n
    BY <1>0, <2>1
  <2>3. Abstract!Unmap(old, new, lo, n)
    BY <1>0, <2>1, <2>2, Zenon DEF Abstract!Unmap
  <2>4. {p \in Pages : old[p] # new[p]} \subseteq lo..(lo + n - 1)
    BY <1>0, <2>1, <2>2, Zenon
  <2> QED
    BY <1>0, <2>1, <2>3, <2>4, Zenon DEF Abstract!Step
<1>4. ASSUME NEW a, NEW n, GrownBy(a, n)
      PROVE  Abstract!Step(old, new)
  <2> DEFINE lo == a.end
             w == old[lo - 1]
  <2>1. /\ a \in Areas /\ n \in Nat \ {0} /\ a.start < lo /\ lo + n <= USER_HIGH
        /\ Entry(vmm_list, lo - 1) = PageIn(a, lo - 1)
        /\ \A p \in Int : lo <= p /\ p < lo + n => Entry(vmm_list, p) = Null
        /\ \A p \in Int : Entry(vmm_list', p) =
             IF lo <= p /\ p < lo + n THEN PageIn(a, p) ELSE Entry(vmm_list, p)
    BY <1>4, Zenon DEF GrownBy
  <2>2. a.start \in Nat /\ lo \in Nat /\ a.off \in Nat /\ USER_LOW <= a.start
    BY <2>1, AreaType, Zenon
  <2> HIDE DEF lo
  <2>3. lo \in Pages /\ lo - 1 \in Pages /\ n \in 1..(USER_HIGH - lo)
    BY <1>0, <2>1, <2>2 DEF Pages
  <2>4. /\ w = <<a.obj, (lo - 1) - a.start + a.off, a.prot>>
        /\ w[1] = a.obj /\ w[2] = (lo - 1) - a.start + a.off /\ w[3] = a.prot
    BY <1>0, <2>1, <2>3 DEF PageIn
  <2>5. w # Null
    <3>1. Covers(a, lo - 1) /\ lo - 1 \in Int
      BY <2>1, <2>2 DEF Covers, lo
    <3>2. PageIn(a, lo - 1) # Null
      BY <2>1, <3>1, PageInType, Zenon
    <3> QED
      BY <1>0, <2>1, <2>3, <3>2, Zenon
  <2>6. \A p \in Pages : p \in lo..(lo + n - 1) <=> lo <= p /\ p < lo + n
    BY <1>0, <2>1, <2>2
  <2>7. lo..(lo + n - 1) \subseteq Pages
    BY <1>0, <2>1, <2>3 DEF Pages
  <2>8. Abstract!Free(old, lo, n)
    BY <1>0, <2>1, <2>6, <2>7, Zenon DEF Abstract!Free
  <2>9. \A p \in Pages : PageIn(a, p) = <<w[1], (w[2] + 1) + p - lo, w[3]>>
    <3> SUFFICES ASSUME NEW p \in Pages
                 PROVE  PageIn(a, p) = <<w[1], (w[2] + 1) + p - lo, w[3]>>
      OBVIOUS
    <3> DEFINE s == a.start
               f == a.off
               x == w[2]
    <3>1. s \in Nat /\ f \in Nat /\ x = (lo - 1) - s + f /\ p \in Int
      BY <1>0, <2>2, <2>4, Zenon
    <3> HIDE DEF s, f, x
    <3>2. p - s + f = (x + 1) + p - lo
      BY <2>2, <3>1
    <3> QED
      BY <2>4, <3>2, Zenon DEF PageIn, s, f, x
  <2> HIDE DEF w
  <2>10. new = Abstract!With(old, lo, n, w[1], w[2] + 1, w[3])
    BY <1>0, <2>1, <2>6, <2>9, Zenon DEF Abstract!With
  <2>11. Abstract!Grow(old, new, lo, n)
    BY <1>0, <2>3, <2>5, <2>8, <2>10, Zenon DEF Abstract!Grow, w
  <2>12. {p \in Pages : old[p] # new[p]} \subseteq lo..(lo + n - 1)
    BY <1>0, <2>1, <2>6, Zenon
  <2> QED
    BY <1>0, <2>3, <2>11, <2>12, Zenon DEF Abstract!Step
<1>5. ASSUME NEW lo, NEW n, NEW o \in Objects, NEW off \in Offsets, NEW prot \in Prots,
             Mapped(lo, n, o, off, prot)
      PROVE  Abstract!Step(old, new)
  <2>1. /\ n \in Nat \ {0} /\ lo \in USER_LOW..(USER_HIGH - n)
        /\ o \in Files \/ \A p \in Int : Entry(vmm_list, p) = Null \/ Entry(vmm_list, p)[1] # o
        /\ \A p \in Int : Entry(vmm_list', p) =
             IF lo <= p /\ p < lo + n THEN <<o, p - lo + off, prot>> ELSE Entry(vmm_list, p)
    BY <1>5, Zenon DEF Mapped
  <2>2. lo \in Nat /\ lo \in Pages /\ n \in 1..(USER_HIGH - lo) /\ off \in Nat
    BY <1>0, <2>1, VmmapConstants DEF Pages
  <2>3. \A p \in Pages : p \in lo..(lo + n - 1) <=> lo <= p /\ p < lo + n
    BY <1>0, <2>1, <2>2
  <2>4. \A p \in Pages : p - lo + off = off + p - lo
    BY <1>0, <2>2
  <2>5. Abstract!Mappable(old, o)
    BY <1>0, <2>1, Zenon DEF Abstract!Mappable
  <2>6. new = Abstract!With(old, lo, n, o, off, prot)
    BY <1>0, <2>1, <2>3, <2>4, Zenon DEF Abstract!With
  <2>7. Abstract!Map(old, new, lo, n, o, off, prot)
    BY <2>5, <2>6, Zenon DEF Abstract!Map
  <2>8. {p \in Pages : old[p] # new[p]} \subseteq lo..(lo + n - 1)
    BY <1>0, <2>1, <2>3, Zenon
  <2> QED
    BY <1>0, <2>2, <2>7, <2>8, Zenon DEF Abstract!Step, Objects
<1> QED
  BY <1>1, <1>2, <1>3, <1>4, <1>5, Zenon DEF SpaceStep

\* The areas implement the address space they describe: mmap, munmap, brk and exit
\* do to each page what AddrSpace says and to no other, and page faults and the
\* freeing of pages change none.
THEOREM AreasImplementPages == Spec => ImplementsAddrSpace
<1>1. Init => Abstract!Init
  <2> SUFFICES ASSUME Init
               PROVE  Abstract!Init
    OBVIOUS
  <2>1. PICK n \in 1..(USER_HIGH - USER_LOW) : \A p \in Pages : Entry(vmm_list, p) =
              IF p < USER_LOW + n THEN <<Bss, p - USER_LOW, {"r", "w"}>> ELSE Null
    BY InitInv, Zenon
  <2>2. PageMapping = [p \in Pages |->
              IF p < USER_LOW + n THEN <<Bss, p - USER_LOW, {"r", "w"}>> ELSE Null]
    BY <2>1, MappingNow, Zenon
  <2>3. Bss \in Anons
    BY VmmapConstants, Zenon
  <2> QED
    BY <2>2, <2>3, Zenon DEF Abstract!Init, Abstract!Pages, Pages
<1>2. VmmapInv /\ [Next]_vars => [Abstract!Next]_PageMapping
  <2> SUFFICES ASSUME VmmapInv, [Next]_vars
               PROVE  [Abstract!Next]_PageMapping
    OBVIOUS
  <2>1. VmmapInv' /\ SpaceStep
    BY NextStep, Zenon
  <2>2. PageMapping = PageMapping' \/ Abstract!Step(PageMapping, PageMapping')
    BY <2>1, PageStep, MappingNow, MappingNext, Zenon
  <2> QED
    BY <2>2, Zenon DEF Abstract!Next
<1> QED
  BY <1>1, <1>2, VmmapInvariant, PTL DEF Spec, ImplementsAddrSpace, Abstract!Spec
=============================================================================
