-------------------------- MODULE FileRefsProofs --------------------------
(***************************************************************************)
(* How fref, fput and the loops of fork and exit over the descriptors move *)
(* references, for any number of processes, descriptors and files.         *)
(***************************************************************************)
EXTENDS Files, FiniteSetTheorems, WellFoundedInduction, TLAPS

(***************************************************************************)
(* Induction.  A set of numbers stands for the formula that is proved.     *)
(***************************************************************************)

\* A set of natural numbers has a least element.
LEMMA LeastNat ==
  ASSUME NEW T, T \subseteq Nat, T # {}
  PROVE  \E m \in T : \A n \in T : m <= n
<1> DEFINE R == OpToRel(<, Nat)
<1>1. \E x \in T : \A y \in T : ~(<<y, x>> \in R)
  <2>1. IsWellFoundedOn(R, Nat)
    BY NatLessThanWellFounded, Zenon
  <2> HIDE DEF R
  <2> QED
    BY <2>1, WFMin, Zenon
<1>2. \A x, y \in Nat : <<y, x>> \in R <=> y < x
  BY Zenon DEF OpToRel
<1> HIDE DEF R
<1>3. PICK x \in T : \A y \in T : ~(<<y, x>> \in R)
  BY <1>1, Zenon
<1>4. ASSUME NEW y \in T
      PROVE  x <= y
  <2>1. ~(<<y, x>> \in R) /\ x \in Nat /\ y \in Nat
    BY <1>3, Zenon
  <2>2. ~(y < x)
    BY <2>1, <1>2, Zenon
  <2> QED
    BY <2>1, <2>2
<1> QED
  BY <1>4, Zenon

\* Up from 0 to m.
LEMMA Induction ==
  ASSUME NEW S, NEW m \in Nat, 0 \in S, \A n \in 0..(m - 1) : n \in S => n + 1 \in S
  PROVE  0..m \subseteq S
<1> DEFINE T == (0..m) \ S
<1>1. SUFFICES ASSUME T # {} PROVE FALSE
  OBVIOUS
<1>2. T \subseteq Nat
  OBVIOUS
<1>3. \E k \in T : \A j \in T : k <= j
  <2> HIDE DEF T
  <2> QED
    BY <1>1, <1>2, LeastNat, Zenon
<1>4. PICK k \in T : \A j \in T : k <= j
  BY <1>3, Zenon
<1>5. k - 1 \in 0..(m - 1) /\ k - 1 \in S
  BY <1>4
<1> QED
  BY <1>4, <1>5

(***************************************************************************)
(* Who uses a file                                                         *)
(***************************************************************************)

\* The descriptors and the calls that use file f, and how many per file.
Uses(pf, f) == {x \in Procs \X Fds : pf[x[1]][x[2]] = f}
Calling(c, f) == {p \in Procs : c[p] # Null /\ c[p].file = f}
Usage(pf, c) == [f \in Slots |-> Cardinality(Uses(pf, f)) + Cardinality(Calling(c, f))]

Tables == [Procs -> [Fds -> Slots \cup {Null}]]
Sleeping == [Procs -> Calls \cup {Null}]

\* The counts are numbers, and not 0 where there is a user.
LEMMA UsageType ==
  ASSUME NEW pf \in Tables, NEW c \in Sleeping
  PROVE  /\ Usage(pf, c) \in [Slots -> Nat]
         /\ \A f \in Slots : IsFiniteSet(Uses(pf, f)) /\ IsFiniteSet(Calling(c, f))
         /\ \A f \in Slots, p \in Procs, fd \in Fds : pf[p][fd] = f =>
              /\ Usage(pf, c)[f] > 0
              /\ c[p] # Null /\ c[p].file = f => Usage(pf, c)[f] > 1
         /\ \A f \in Slots, p \in Procs : c[p] # Null /\ c[p].file = f => Usage(pf, c)[f] > 0
<1>1. IsFiniteSet(Procs \X Fds) /\ IsFiniteSet(Procs)
  <2>1. IsFiniteSet(Fds)
    BY FS_Interval, FilesConstants DEF Fds
  <2> QED
    BY <2>1, FS_Product, FilesConstants, Zenon
<1>2. ASSUME NEW f \in Slots
      PROVE  IsFiniteSet(Uses(pf, f)) /\ IsFiniteSet(Calling(c, f))
  <2>1. Uses(pf, f) \subseteq Procs \X Fds /\ Calling(c, f) \subseteq Procs
    BY Zenon DEF Uses, Calling
  <2> QED
    BY <1>1, <2>1, FS_Subset, Zenon
<1>3. \A f \in Slots : Cardinality(Uses(pf, f)) \in Nat /\ Cardinality(Calling(c, f)) \in Nat
  BY <1>2, FS_CardinalityType, Zenon
<1>4. ASSUME NEW f \in Slots, NEW p \in Procs, NEW fd \in Fds, pf[p][fd] = f
      PROVE  Cardinality(Uses(pf, f)) > 0
  <2>1. <<p, fd>> \in Uses(pf, f)
    BY <1>4, Zenon DEF Uses
  <2>2. Cardinality(Uses(pf, f)) # 0
    BY <1>2, <2>1, FS_EmptySet, Zenon
  <2> QED
    BY <1>3, <2>2
<1>5. ASSUME NEW f \in Slots, NEW p \in Procs, c[p] # Null, c[p].file = f
      PROVE  Cardinality(Calling(c, f)) > 0
  <2>1. p \in Calling(c, f)
    BY <1>5, Zenon DEF Calling
  <2>2. Cardinality(Calling(c, f)) # 0
    BY <1>2, <2>1, FS_EmptySet, Zenon
  <2> QED
    BY <1>3, <2>2
<1> QED
  BY <1>2, <1>3, <1>4, <1>5 DEF Usage

\* A descriptor is set; the count of a file changes by k.
With(pf, p, fd, g) == [pf EXCEPT ![p][fd] = g]
Plus(u, f, k) == [u EXCEPT ![f] = @ + k]

\* What Plus does to a count.
LEMMA PlusIs ==
  ASSUME NEW u \in [Slots -> Nat], NEW f \in Slots, NEW k \in Int, u[f] + k >= 0
  PROVE  /\ Plus(u, f, k) \in [Slots -> Nat]
         /\ \A g \in Slots : Plus(u, f, k)[g] = IF g = f THEN u[f] + k ELSE u[g]
BY DEF Plus

\* One user comes and goes.
LEMMA PlusBack ==
  ASSUME NEW u \in [Slots -> Nat], NEW f \in Slots
  PROVE  Plus(u, f, 1)[f] > 0 /\ Plus(Plus(u, f, 1), f, -1) = u
<1> DEFINE w == Plus(u, f, 1)
<1>1. w \in [Slots -> Nat] /\ \A g \in Slots : w[g] = IF g = f THEN u[f] + 1 ELSE u[g]
  BY PlusIs
<1> HIDE DEF w
<1>2. /\ w[f] + -1 >= 0 /\ -1 \in Int /\ w[f] > 0
  BY <1>1
<1>3. /\ Plus(w, f, -1) \in [Slots -> Nat]
      /\ \A g \in Slots : Plus(w, f, -1)[g] = IF g = f THEN w[f] + -1 ELSE w[g]
  BY <1>1, <1>2, PlusIs, Zenon
<1>4. \A g \in Slots : Plus(w, f, -1)[g] = u[g]
  BY <1>1, <1>3
<1>5. Plus(w, f, -1) = u
  BY <1>3, <1>4
<1> QED
  BY <1>2, <1>5, Zenon DEF w

\* One user goes and comes.
LEMMA PlusForth ==
  ASSUME NEW u \in [Slots -> Nat], NEW f \in Slots, u[f] > 1
  PROVE  Plus(u, f, -1)[f] > 0 /\ Plus(Plus(u, f, -1), f, 1) = u
<1> DEFINE w == Plus(u, f, -1)
<1>1. w \in [Slots -> Nat] /\ \A g \in Slots : w[g] = IF g = f THEN u[f] + -1 ELSE u[g]
  BY PlusIs
<1> HIDE DEF w
<1>2. /\ Plus(w, f, 1) \in [Slots -> Nat]
      /\ \A g \in Slots : Plus(w, f, 1)[g] = IF g = f THEN w[f] + 1 ELSE w[g]
  BY <1>1, PlusIs
<1>3. \A g \in Slots : Plus(w, f, 1)[g] = u[g]
  BY <1>1, <1>2
<1>4. Plus(w, f, 1) = u
  BY <1>2, <1>3
<1>5. w[f] > 0
  BY <1>1
<1> QED
  BY <1>4, <1>5, Zenon DEF w

\* What With does to a table.
LEMMA WithIs ==
  ASSUME NEW pf \in Tables, NEW p \in Procs, NEW fd \in Fds, NEW g \in Slots \cup {Null}
  PROVE  /\ With(pf, p, fd, g) \in Tables
         /\ \A q \in Procs, d \in Fds :
              With(pf, p, fd, g)[q][d] = IF q = p /\ d = fd THEN g ELSE pf[q][d]
         /\ With(With(pf, p, fd, g), p, fd, pf[p][fd]) = pf
BY Zenon DEF With, Tables

\* A free descriptor is set to a file.
LEMMA UsageSet ==
  ASSUME NEW pf \in Tables, NEW c \in Sleeping, NEW p \in Procs, NEW fd \in Fds,
         pf[p][fd] = Null, NEW g \in Slots
  PROVE  Usage(With(pf, p, fd, g), c) = Plus(Usage(pf, c), g, 1)
<1> DEFINE pf2 == With(pf, p, fd, g)
<1>1. \A q \in Procs, d \in Fds : pf2[q][d] = IF q = p /\ d = fd THEN g ELSE pf[q][d]
  BY WithIs
<1> HIDE DEF pf2
<1>2. ASSUME NEW f \in Slots
      PROVE  Uses(pf2, f) = IF f = g THEN Uses(pf, f) \cup {<<p, fd>>} ELSE Uses(pf, f)
  BY <1>1, FilesConstants DEF Uses
<1>3. <<p, fd>> \notin Uses(pf, g)
  BY FilesConstants, Zenon DEF Uses
<1>4. Cardinality(Uses(pf2, g)) = Cardinality(Uses(pf, g)) + 1
  <2>1. IsFiniteSet(Uses(pf, g))
    BY UsageType, Zenon
  <2>2. Cardinality(Uses(pf, g) \cup {<<p, fd>>}) = Cardinality(Uses(pf, g)) + 1
    BY <1>3, <2>1, FS_AddElement, Zenon
  <2> QED
    BY <1>2, <2>2, Zenon
<1>5. /\ Cardinality(Uses(pf, g)) \in Nat /\ Cardinality(Calling(c, g)) \in Nat
  BY UsageType, FS_CardinalityType, Zenon
<1>6. ASSUME NEW f \in Slots
      PROVE  Usage(pf2, c)[f] = IF f = g THEN Usage(pf, c)[f] + 1 ELSE Usage(pf, c)[f]
  BY <1>2, <1>4, <1>5 DEF Usage
<1>7. Usage(pf2, c) = Plus(Usage(pf, c), g, 1)
  BY <1>6, Zenon DEF Usage, Plus
<1> QED
  BY <1>7, Zenon DEF pf2

\* A descriptor is cleared.
LEMMA UsageClear ==
  ASSUME NEW pf \in Tables, NEW c \in Sleeping, NEW p \in Procs, NEW fd \in Fds,
         NEW g \in Slots, pf[p][fd] = g
  PROVE  /\ Usage(pf, c)[g] > 0
         /\ Usage(With(pf, p, fd, Null), c) = Plus(Usage(pf, c), g, -1)
<1> DEFINE pf2 == With(pf, p, fd, Null)
           u == Usage(pf, c)
           w == Usage(pf2, c)
<1>1. pf2 \in Tables /\ pf2[p][fd] = Null /\ With(pf2, p, fd, g) = pf
  BY WithIs
<1> HIDE DEF pf2
<1>2. u[g] > 0 /\ u \in [Slots -> Nat] /\ w \in [Slots -> Nat]
  BY <1>1, UsageType, Zenon
<1>3. u = Plus(w, g, 1)
  <2>1. Usage(With(pf2, p, fd, g), c) = Plus(Usage(pf2, c), g, 1)
    BY <1>1, UsageSet, Zenon
  <2> QED
    BY <1>1, <2>1, Zenon
<1> HIDE DEF u, w
<1>4. w = Plus(u, g, -1)
  <2>1. \A f \in Slots : u[f] = IF f = g THEN w[g] + 1 ELSE w[f]
    BY <1>2, <1>3, Zenon DEF Plus
  <2>2. \A f \in Slots : Plus(u, g, -1)[f] = IF f = g THEN u[g] - 1 ELSE u[f]
    BY <1>2, Zenon DEF Plus
  <2>3. Plus(u, g, -1) \in [Slots -> Nat]
    BY <1>2, PlusIs
  <2>4. \A f \in Slots : Plus(u, g, -1)[f] = w[f]
    BY <1>2, <2>1, <2>2
  <2> QED
    BY <1>2, <2>3, <2>4
<1> QED
  BY <1>2, <1>4, Zenon DEF pf2, u, w

\* A process sleeps in a call.
LEMMA UsageCall ==
  ASSUME NEW pf \in Tables, NEW c \in Sleeping, NEW p \in Procs, c[p] = Null, NEW r \in Calls
  PROVE  /\ [c EXCEPT ![p] = r] \in Sleeping
         /\ Usage(pf, [c EXCEPT ![p] = r]) = Plus(Usage(pf, c), r.file, 1)
<1> DEFINE c2 == [c EXCEPT ![p] = r]
           g == r.file
<1>1. c2 \in Sleeping /\ g \in Slots /\ r # Null
  BY FilesConstants, Zenon DEF Sleeping, Calls
<1>2. \A q \in Procs : c2[q] = IF q = p THEN r ELSE c[q]
  BY Zenon DEF Sleeping
<1> HIDE DEF c2
<1>3. ASSUME NEW f \in Slots
      PROVE  Calling(c2, f) = IF f = g THEN Calling(c, f) \cup {p} ELSE Calling(c, f)
  BY <1>1, <1>2, Zenon DEF Calling
<1>4. p \notin Calling(c, g)
  BY Zenon DEF Calling
<1>5. Cardinality(Calling(c2, g)) = Cardinality(Calling(c, g)) + 1
  <2>1. IsFiniteSet(Calling(c, g))
    BY <1>1, UsageType, Zenon
  <2>2. Cardinality(Calling(c, g) \cup {p}) = Cardinality(Calling(c, g)) + 1
    BY <1>4, <2>1, FS_AddElement, Zenon
  <2> QED
    BY <1>1, <1>3, <2>2, Zenon
<1>6. /\ Cardinality(Uses(pf, g)) \in Nat /\ Cardinality(Calling(c, g)) \in Nat
  BY <1>1, UsageType, FS_CardinalityType, Zenon
<1> HIDE DEF g
<1>7. ASSUME NEW f \in Slots
      PROVE  Usage(pf, c2)[f] = IF f = g THEN Usage(pf, c)[f] + 1 ELSE Usage(pf, c)[f]
  BY <1>3, <1>5, <1>6 DEF Usage
<1>8. Usage(pf, c2) = Plus(Usage(pf, c), g, 1)
  BY <1>1, <1>7, Zenon DEF Usage, Plus
<1> QED
  BY <1>1, <1>8, Zenon DEF c2, g

\* A process returns from a call.
LEMMA UsageReturn ==
  ASSUME NEW pf \in Tables, NEW c \in Sleeping, NEW p \in Procs, c[p] # Null
  PROVE  /\ c[p] \in Calls /\ c[p].file \in Slots /\ Usage(pf, c)[c[p].file] > 0
         /\ [c EXCEPT ![p] = Null] \in Sleeping
         /\ Usage(pf, [c EXCEPT ![p] = Null]) = Plus(Usage(pf, c), c[p].file, -1)
<1> DEFINE c2 == [c EXCEPT ![p] = Null]
           g == c[p].file
           u == Usage(pf, c)
           w == Usage(pf, c2)
<1>1. c2 \in Sleeping /\ c[p] \in Calls /\ g \in Slots /\ c2[p] = Null
  BY Zenon DEF Sleeping, Calls
<1>2. c = [c2 EXCEPT ![p] = c[p]]
  BY Zenon DEF Sleeping
<1> HIDE DEF c2
<1>3. u[g] > 0 /\ u \in [Slots -> Nat] /\ w \in [Slots -> Nat]
  BY <1>1, UsageType, Zenon
<1>4. u = Plus(w, g, 1)
  <2>1. Usage(pf, [c2 EXCEPT ![p] = c[p]]) = Plus(Usage(pf, c2), c[p].file, 1)
    BY <1>1, UsageCall, Zenon
  <2> QED
    BY <1>2, <2>1, Zenon
<1> HIDE DEF u, w, g
<1>5. w = Plus(u, g, -1)
  <2>1. \A f \in Slots : u[f] = IF f = g THEN w[g] + 1 ELSE w[f]
    BY <1>1, <1>3, <1>4, Zenon DEF Plus
  <2>2. \A f \in Slots : Plus(u, g, -1)[f] = IF f = g THEN u[g] - 1 ELSE u[f]
    BY <1>3, Zenon DEF Plus
  <2>3. Plus(u, g, -1) \in [Slots -> Nat]
    BY <1>1, <1>3, PlusIs
  <2>4. \A f \in Slots : Plus(u, g, -1)[f] = w[f]
    BY <1>1, <1>3, <2>1, <2>2
  <2> QED
    BY <1>3, <2>3, <2>4
<1> QED
  BY <1>1, <1>3, <1>5, Zenon DEF c2, u, w, g

\* A call that is made again uses the same file.
LEMMA UsageAgain ==
  ASSUME NEW pf \in Tables, NEW c \in Sleeping, NEW p \in Procs, c[p] # Null,
         NEW r \in Calls, r.file = c[p].file
  PROVE  /\ [c EXCEPT ![p] = r] \in Sleeping
         /\ Usage(pf, [c EXCEPT ![p] = r]) = Usage(pf, c)
<1> DEFINE c2 == [c EXCEPT ![p] = r]
<1>1. c2 \in Sleeping /\ r # Null
  BY FilesConstants, Zenon DEF Sleeping
<1>2. \A q \in Procs : c2[q] = IF q = p THEN r ELSE c[q]
  BY Zenon DEF Sleeping
<1> HIDE DEF c2
<1>3. \A f \in Slots : Calling(c2, f) = Calling(c, f)
  BY <1>1, <1>2, Zenon DEF Calling
<1>4. Usage(pf, c2) = Usage(pf, c)
  BY <1>3, Zenon DEF Usage
<1> QED
  BY <1>1, <1>4, Zenon DEF c2

(***************************************************************************)
(* References                                                              *)
(***************************************************************************)

\* The files that are open on vnode v.
On(fl, v) == {f \in Slots : fl[f] # Null /\ fl[f].vnode = v}

\* A file has a reference for each of its users, whose numbers are u, and a vnode
\* has one for each file that is open on it.
Held(st, u) ==
  /\ st \in [file : [Slots -> OpenFiles \cup {Null}], refs : [Vnodes -> Nat]]
  /\ u \in [Slots -> Nat]
  /\ \A f \in Slots : IF st.file[f] = Null THEN u[f] = 0 ELSE st.file[f].refs >= u[f]
  /\ \A v \in Vnodes : st.refs[v] = Cardinality(On(st.file, v))

\* The references to f that nobody has.
Lost(st, u, f) == IF st.file[f] = Null THEN 0 ELSE st.file[f].refs - u[f]

\* st2 and u2 come from st and u with no reference lost.
Moved(st, u, st2, u2) ==
  /\ Held(st2, u2)
  /\ \A f \in Slots : Lost(st2, u2, f) = Lost(st, u, f)

\* The fields of an open file.
LEMMA FileType ==
  ASSUME NEW st, NEW u, Held(st, u), NEW f \in Slots, st.file[f] # Null
  PROVE  /\ st.file[f] \in OpenFiles
         /\ st.file[f].refs \in Nat /\ st.file[f].refs > 0 /\ st.file[f].refs >= u[f]
         /\ st.file[f].vnode \in Vnodes /\ st.file[f].vnode # Null /\ st.file[f].pos \in Nat
BY FilesConstants DEF Held, OpenFiles

\* A file that is used is open.
LEMMA UsedIsOpen ==
  ASSUME NEW st, NEW u, Held(st, u), NEW f \in Slots, u[f] > 0
  PROVE  st.file[f] # Null
BY DEF Held

\* A file that stays open on its vnode, with as many more references as users.
LEMMA FileChanges ==
  ASSUME NEW st, NEW u, Held(st, u), NEW f \in Slots, st.file[f] # Null,
         NEW r \in OpenFiles, r.vnode = st.file[f].vnode,
         NEW k \in Int, u[f] + k >= 0, r.refs = st.file[f].refs + k
  PROVE  Moved(st, u, [file |-> [st.file EXCEPT ![f] = r], refs |-> st.refs], Plus(u, f, k))
<1> DEFINE st2 == [file |-> [st.file EXCEPT ![f] = r], refs |-> st.refs]
           u2 == Plus(u, f, k)
<1>1. /\ st2 \in [file : [Slots -> OpenFiles \cup {Null}], refs : [Vnodes -> Nat]]
      /\ st2.refs = st.refs
      /\ \A g \in Slots : st2.file[g] = IF g = f THEN r ELSE st.file[g]
  BY Zenon DEF Held
<1>2. u2 \in [Slots -> Nat] /\ \A g \in Slots : u2[g] = IF g = f THEN u[f] + k ELSE u[g]
  BY PlusIs, ZenonT(40) DEF Held
<1>3. r # Null /\ st.file[f].refs \in Nat /\ st.file[f].refs >= u[f] /\ u[f] \in Nat
  BY FilesConstants, FileType, Zenon DEF Held
<1> HIDE DEF st2, u2
<1>4. \A v \in Vnodes : On(st2.file, v) = On(st.file, v)
  BY <1>1, <1>3, Zenon DEF On
<1>5. ASSUME NEW g \in Slots
      PROVE  /\ IF st2.file[g] = Null THEN u2[g] = 0 ELSE st2.file[g].refs >= u2[g]
             /\ Lost(st2, u2, g) = Lost(st, u, g)
  <2>1. CASE g = f
    BY <1>1, <1>2, <1>3, <2>1 DEF Lost
  <2>2. CASE g # f
    BY <1>1, <1>2, <2>2, Zenon DEF Lost, Held
  <2> QED
    BY <2>1, <2>2, Zenon
<1>6. Held(st2, u2)
  BY <1>1, <1>2, <1>4, <1>5, Zenon DEF Held
<1> QED
  BY <1>5, <1>6, Zenon DEF Moved, st2, u2

\* A file of which the last user goes.
LEMMA FileCloses ==
  ASSUME NEW st, NEW u, Held(st, u), NEW f \in Slots, st.file[f] # Null,
         st.file[f].refs = 1, u[f] = 1, NEW v \in Vnodes, v = st.file[f].vnode
  PROVE  Moved(st, u, [file |-> [st.file EXCEPT ![f] = Null],
                       refs |-> [st.refs EXCEPT ![v] = @ - 1]], Plus(u, f, -1))
<1> DEFINE st2 == [file |-> [st.file EXCEPT ![f] = Null], refs |-> [st.refs EXCEPT ![v] = @ - 1]]
           u2 == Plus(u, f, -1)
<1>1. u2 \in [Slots -> Nat] /\ \A g \in Slots : u2[g] = IF g = f THEN 0 ELSE u[g]
  <2>1. u \in [Slots -> Nat] /\ -1 \in Int /\ u[f] + -1 >= 0 /\ u[f] + -1 = 0
    BY DEF Held
  <2> QED
    BY <2>1, PlusIs
<1>2. \A g \in Slots : st2.file[g] = IF g = f THEN Null ELSE st.file[g]
  BY Zenon DEF Held
<1>3. \A w \in Vnodes : st2.refs[w] = IF w = v THEN st.refs[v] - 1 ELSE st.refs[w]
  BY Zenon DEF Held
<1>4. st.refs[v] \in Nat /\ st.refs \in [Vnodes -> Nat] /\ st.file \in [Slots -> OpenFiles \cup {Null}]
  BY Zenon DEF Held
<1>5. st2 = [file |-> st2.file, refs |-> st2.refs]
      /\ st2.file \in [Slots -> OpenFiles \cup {Null}]
      /\ st2.refs \in [Vnodes -> Int]
  BY <1>4
<1> HIDE DEF st2, u2
<1>6. ASSUME NEW w \in Vnodes
      PROVE  On(st2.file, w) = IF w = v THEN On(st.file, w) \ {f} ELSE On(st.file, w)
  BY <1>2, Zenon DEF On
<1>7. f \in On(st.file, v) /\ IsFiniteSet(On(st.file, v))
  <2>1. On(st.file, v) \subseteq Slots
    BY Zenon DEF On
  <2> QED
    BY <2>1, FS_Subset, FilesConstants, Zenon DEF On
<1>8. Cardinality(On(st.file, v) \ {f}) = Cardinality(On(st.file, v)) - 1
  BY <1>7, FS_RemoveElement, Zenon
<1>9. ASSUME NEW w \in Vnodes
      PROVE  st2.refs[w] = Cardinality(On(st2.file, w)) /\ st2.refs[w] \in Nat
  <2>1. st.refs[w] = Cardinality(On(st.file, w)) /\ st.refs[w] \in Nat
    BY <1>4, Zenon DEF Held
  <2>2. CASE w = v
    <3>1. Cardinality(On(st.file, v) \ {f}) \in Nat
      BY <1>7, FS_RemoveElement, FS_CardinalityType, Zenon
    <3> QED
      BY <1>3, <1>6, <1>8, <2>1, <2>2, <3>1, Zenon
  <2>3. CASE w # v
    BY <1>3, <1>6, <2>1, <2>3, Zenon
  <2> QED
    BY <2>2, <2>3, Zenon
<1>10. st2 \in [file : [Slots -> OpenFiles \cup {Null}], refs : [Vnodes -> Nat]]
  <2>1. st2.refs \in [Vnodes -> Nat]
    BY <1>5, <1>9, Zenon
  <2> QED
    BY <1>5, <2>1, Zenon
<1>11. ASSUME NEW g \in Slots
       PROVE  /\ IF st2.file[g] = Null THEN u2[g] = 0 ELSE st2.file[g].refs >= u2[g]
              /\ Lost(st2, u2, g) = Lost(st, u, g)
  BY <1>1, <1>2 DEF Lost, Held
<1>12. Held(st2, u2)
  BY <1>1, <1>9, <1>10, <1>11, Zenon DEF Held
<1> QED
  BY <1>11, <1>12, Zenon DEF Moved, st2, u2

\* A file is opened on v, which is held for it.
LEMMA FileOpens ==
  ASSUME NEW st, NEW u, Held(st, u), NEW f \in Slots, st.file[f] = Null,
         NEW v \in Vnodes, NEW r \in OpenFiles, r.refs = 1, r.vnode = v
  PROVE  Moved(st, u, [file |-> [st.file EXCEPT ![f] = r],
                       refs |-> [st.refs EXCEPT ![v] = @ + 1]], Plus(u, f, 1))
<1> DEFINE st2 == [file |-> [st.file EXCEPT ![f] = r], refs |-> [st.refs EXCEPT ![v] = @ + 1]]
           u2 == Plus(u, f, 1)
<1>1. u[f] = 0 /\ r # Null
  BY FilesConstants, Zenon DEF Held
<1>2. u2 \in [Slots -> Nat] /\ \A g \in Slots : u2[g] = IF g = f THEN 1 ELSE u[g]
  BY <1>1, PlusIs DEF Held
<1>3. \A g \in Slots : st2.file[g] = IF g = f THEN r ELSE st.file[g]
  BY Zenon DEF Held
<1>4. \A w \in Vnodes : st2.refs[w] = IF w = v THEN st.refs[v] + 1 ELSE st.refs[w]
  BY Zenon DEF Held
<1>5. st2 \in [file : [Slots -> OpenFiles \cup {Null}], refs : [Vnodes -> Nat]]
  BY DEF Held
<1> HIDE DEF st2, u2
<1>6. ASSUME NEW w \in Vnodes
      PROVE  On(st2.file, w) = IF w = v THEN On(st.file, w) \cup {f} ELSE On(st.file, w)
  BY <1>1, <1>3, Zenon DEF On
<1>7. f \notin On(st.file, v) /\ IsFiniteSet(On(st.file, v))
  <2>1. On(st.file, v) \subseteq Slots
    BY Zenon DEF On
  <2> QED
    BY <2>1, FS_Subset, FilesConstants, Zenon DEF On
<1>8. Cardinality(On(st.file, v) \cup {f}) = Cardinality(On(st.file, v)) + 1
  BY <1>7, FS_AddElement, Zenon
<1>9. \A w \in Vnodes : st2.refs[w] = Cardinality(On(st2.file, w))
  BY <1>4, <1>6, <1>8, Zenon DEF Held
<1>10. ASSUME NEW g \in Slots
       PROVE  /\ IF st2.file[g] = Null THEN u2[g] = 0 ELSE st2.file[g].refs >= u2[g]
              /\ Lost(st2, u2, g) = Lost(st, u, g)
  BY <1>1, <1>2, <1>3 DEF Lost, Held
<1>11. Held(st2, u2)
  BY <1>2, <1>5, <1>9, <1>10, Zenon DEF Held
<1> QED
  BY <1>10, <1>11, Zenon DEF Moved, st2, u2

\* One step after another.
LEMMA MovedTwice ==
  ASSUME NEW st, NEW u, NEW st1, NEW u1, NEW st2, NEW u2,
         Moved(st, u, st1, u1), Moved(st1, u1, st2, u2)
  PROVE  Moved(st, u, st2, u2)
BY Zenon DEF Moved

\* No step.
LEMMA MovedNot ==
  ASSUME NEW st, NEW u, Held(st, u)
  PROVE  Moved(st, u, st, u)
BY Zenon DEF Moved

\* fref takes a reference for a new user.
LEMMA RefTaken ==
  ASSUME NEW st, NEW u, Held(st, u), NEW f \in Slots, st.file[f] # Null
  PROVE  /\ Moved(st, u, fref(st, f), Plus(u, f, 1))
         /\ fref(st, f) = [file |-> [st.file EXCEPT ![f] = [st.file[f] EXCEPT !.refs = @ + 1]],
                           refs |-> st.refs]
<1> DEFINE r == [st.file[f] EXCEPT !.refs = @ + 1]
<1>1. st.file[f] \in OpenFiles /\ u[f] \in Nat
  BY FileType, Zenon DEF Held
<1>2. r \in OpenFiles /\ r.vnode = st.file[f].vnode /\ r.refs = st.file[f].refs + 1
  BY <1>1 DEF OpenFiles
<1>3. fref(st, f) = [file |-> [st.file EXCEPT ![f] = r], refs |-> st.refs]
  BY DEF fref, Held
<1> HIDE DEF r
<1>4. Moved(st, u, [file |-> [st.file EXCEPT ![f] = r], refs |-> st.refs], Plus(u, f, 1))
  BY <1>1, <1>2, FileChanges
<1> QED
  BY <1>3, <1>4, Zenon DEF r

\* fput gives the reference of a user back, and closes the file with the last one.
LEMMA RefPut ==
  ASSUME NEW st, NEW u, Held(st, u), NEW f \in Slots, u[f] > 0
  PROVE  /\ Moved(st, u, fput(st, f), Plus(u, f, -1))
         /\ u[f] > 1 => fput(st, f) =
              [file |-> [st.file EXCEPT ![f] = [st.file[f] EXCEPT !.refs = @ - 1]],
               refs |-> st.refs]
<1> DEFINE v == st.file[f].vnode
           n == st.file[f].refs
<1>1. st.file[f] # Null /\ u[f] \in Nat
  BY DEF Held
<1>2. st.file[f] \in OpenFiles /\ n \in Nat /\ n >= u[f] /\ v \in Vnodes /\ v # Null
  BY <1>1, FileType, Zenon
<1>3. CASE n > 1
  <2> DEFINE r == [st.file[f] EXCEPT !.refs = @ - 1]
  <2>1. r \in OpenFiles /\ r.vnode = v /\ r.refs = n + (-1)
    BY <1>2, <1>3 DEF OpenFiles
  <2>2. fput(st, f) = [file |-> [st.file EXCEPT ![f] = r], refs |-> st.refs]
    BY <1>3, Zenon DEF fput, Held
  <2> HIDE DEF r
  <2>3. u[f] + (-1) >= 0 /\ -1 \in Int
    BY <1>1
  <2>4. Moved(st, u, [file |-> [st.file EXCEPT ![f] = r], refs |-> st.refs], Plus(u, f, -1))
    BY <1>1, <2>1, <2>3, FileChanges, Zenon
  <2> QED
    BY <2>2, <2>4, Zenon DEF r
<1>4. CASE ~(n > 1)
  <2>1. n = 1 /\ u[f] = 1
    BY <1>1, <1>2, <1>4
  <2>2. fput(st, f) = [file |-> [st.file EXCEPT ![f] = Null],
                       refs |-> [st.refs EXCEPT ![v] = @ - 1]]
    BY <1>2, <1>4, Zenon DEF fput, vput, Held
  <2> HIDE DEF v
  <2>3. Moved(st, u, [file |-> [st.file EXCEPT ![f] = Null],
                      refs |-> [st.refs EXCEPT ![v] = @ - 1]], Plus(u, f, -1))
    BY <1>1, <1>2, <2>1, FileCloses, Zenon DEF v
  <2> QED
    BY <2>1, <2>2, <2>3
<1> QED
  BY <1>3, <1>4, Zenon

\* The position of a file moves.
LEMMA PosMoves ==
  ASSUME NEW st, NEW u, Held(st, u), NEW f \in Slots, st.file[f] # Null, NEW x \in Nat
  PROVE  /\ Moved(st, u, [st EXCEPT !.file[f].pos = x], u)
         /\ [st EXCEPT !.file[f].pos = x] =
              [file |-> [st.file EXCEPT ![f] = [st.file[f] EXCEPT !.pos = x]], refs |-> st.refs]
<1> DEFINE r == [st.file[f] EXCEPT !.pos = x]
<1>1. st.file[f] \in OpenFiles /\ u \in [Slots -> Nat]
  BY FileType, Zenon DEF Held
<1>2. r \in OpenFiles /\ r.vnode = st.file[f].vnode /\ r.refs = st.file[f].refs + 0
  BY <1>1 DEF OpenFiles
<1>3. [st EXCEPT !.file[f].pos = x] = [file |-> [st.file EXCEPT ![f] = r], refs |-> st.refs]
  BY DEF Held
<1> HIDE DEF r
<1>4. u[f] + 0 >= 0 /\ 0 \in Int
  BY <1>1
<1>5. Moved(st, u, [file |-> [st.file EXCEPT ![f] = r], refs |-> st.refs], Plus(u, f, 0))
  BY <1>2, <1>4, FileChanges, Zenon
<1>6. Plus(u, f, 0) = u
  BY <1>1 DEF Plus
<1> QED
  BY <1>3, <1>5, <1>6, Zenon DEF r

(***************************************************************************)
(* The loops over the descriptors of a process                             *)
(***************************************************************************)

\* at is the loop of CloseAll: at[n] is the state with the first n descriptors closed.
Closing(at, st, p) ==
  /\ at[0] = st /\ CloseAll(st, p) = at[NFILES]
  /\ \A n \in 1..NFILES :
       at[n] = IF p_files[p][n - 1] = Null THEN at[n - 1] ELSE fput(at[n - 1], p_files[p][n - 1])

\* The loop of CloseAll is there.
LEMMA CloseLoop ==
  ASSUME NEW st, NEW p
  PROVE  \E at : Closing(at, st, p)
<1> DEFINE Is(g, m) == g = [n \in 0..m |-> IF n = 0 THEN st
                                          ELSE IF p_files[p][n - 1] = Null THEN g[n - 1]
                                          ELSE fput(g[n - 1], p_files[p][n - 1])]
           at == CHOOSE g : Is(g, NFILES)
           S == {m \in 0..NFILES : \E g : Is(g, m)}
<1>1. \E g : Is(g, 0)
  <2> DEFINE g == [n \in 0..0 |-> st]
  <2>1. Is(g, 0)
    OBVIOUS
  <2> QED
    BY <2>1, Zenon
<1>2. ASSUME NEW m \in 0..(NFILES - 1), NEW g, Is(g, m)
      PROVE  \E h : Is(h, m + 1)
  <2> DEFINE x == IF p_files[p][m] = Null THEN g[m] ELSE fput(g[m], p_files[p][m])
             h == [n \in 0..(m + 1) |-> IF n <= m THEN g[n] ELSE x]
  <2>1. ASSUME NEW n \in 0..(m + 1)
        PROVE  h[n] = IF n = 0 THEN st
                      ELSE IF p_files[p][n - 1] = Null THEN h[n - 1]
                      ELSE fput(h[n - 1], p_files[p][n - 1])
    <3>1. CASE n <= m
      <4>1. n \in 0..m
        BY <3>1
      <4>2. g[n] = IF n = 0 THEN st
                   ELSE IF p_files[p][n - 1] = Null THEN g[n - 1]
                   ELSE fput(g[n - 1], p_files[p][n - 1])
        BY <1>2, <4>1, Zenon
      <4> QED
        BY <4>1, <4>2
    <3>2. CASE n = m + 1
      BY <3>2
    <3> QED
      BY <3>1, <3>2
  <2>2. Is(h, m + 1)
    BY <2>1, Zenon
  <2> HIDE DEF Is
  <2> QED
    BY <2>2, Zenon
<1> HIDE DEF Is
<1>3. NFILES \in S
  <2>1. 0 \in S
    BY <1>1, FilesConstants
  <2>2. \A m \in 0..(NFILES - 1) : m \in S => m + 1 \in S
    BY <1>2, FilesConstants
  <2> HIDE DEF S
  <2>3. 0..NFILES \subseteq S
    BY <2>1, <2>2, Induction, FilesConstants, Zenon
  <2> QED
    BY <2>3, FilesConstants
<1>4. Is(at, NFILES)
  <2>1. \E g : Is(g, NFILES)
    BY <1>3, Zenon
  <2> QED
    BY <2>1, Zenon
<1>5. CloseAll(st, p) = at[NFILES]
  BY Zenon DEF CloseAll, Is
<1> HIDE DEF at
<1>6. \A n \in 0..NFILES : at[n] = IF n = 0 THEN st
                                  ELSE IF p_files[p][n - 1] = Null THEN at[n - 1]
                                  ELSE fput(at[n - 1], p_files[p][n - 1])
  BY <1>4, Zenon DEF Is
<1>7. at[0] = st
  <2>1. 0 \in 0..NFILES
    BY FilesConstants
  <2> QED
    BY <1>6, <2>1, Zenon
<1>8. \A n \in 1..NFILES :
        at[n] = IF p_files[p][n - 1] = Null THEN at[n - 1] ELSE fput(at[n - 1], p_files[p][n - 1])
  <2>1. \A n \in 1..NFILES : n \in 0..NFILES /\ n # 0
    BY FilesConstants
  <2> QED
    BY <1>6, <2>1, Zenon
<1> QED
  BY <1>5, <1>7, <1>8, Zenon DEF Closing

\* The same for copy_parent_files.
Copying(at, p) ==
  /\ at[0] = State /\ copy_parent_files(p) = at[NFILES]
  /\ \A n \in 1..NFILES :
       at[n] = IF p_files[p][n - 1] = Null THEN at[n - 1] ELSE fref(at[n - 1], p_files[p][n - 1])

\* The loop of copy_parent_files is there.
LEMMA CopyLoop ==
  ASSUME NEW p
  PROVE  \E at : Copying(at, p)
<1> DEFINE Is(g, m) == g = [n \in 0..m |-> IF n = 0 THEN State
                                          ELSE IF p_files[p][n - 1] = Null THEN g[n - 1]
                                          ELSE fref(g[n - 1], p_files[p][n - 1])]
           at == CHOOSE g : Is(g, NFILES)
           S == {m \in 0..NFILES : \E g : Is(g, m)}
<1>1. \E g : Is(g, 0)
  <2> DEFINE g == [n \in 0..0 |-> State]
  <2>1. Is(g, 0)
    OBVIOUS
  <2> QED
    BY <2>1, Zenon
<1>2. ASSUME NEW m \in 0..(NFILES - 1), NEW g, Is(g, m)
      PROVE  \E h : Is(h, m + 1)
  <2> DEFINE x == IF p_files[p][m] = Null THEN g[m] ELSE fref(g[m], p_files[p][m])
             h == [n \in 0..(m + 1) |-> IF n <= m THEN g[n] ELSE x]
  <2>1. ASSUME NEW n \in 0..(m + 1)
        PROVE  h[n] = IF n = 0 THEN State
                      ELSE IF p_files[p][n - 1] = Null THEN h[n - 1]
                      ELSE fref(h[n - 1], p_files[p][n - 1])
    <3>1. CASE n <= m
      <4>1. n \in 0..m
        BY <3>1
      <4>2. g[n] = IF n = 0 THEN State
                   ELSE IF p_files[p][n - 1] = Null THEN g[n - 1]
                   ELSE fref(g[n - 1], p_files[p][n - 1])
        BY <1>2, <4>1, Zenon
      <4> QED
        BY <4>1, <4>2
    <3>2. CASE n = m + 1
      BY <3>2
    <3> QED
      BY <3>1, <3>2
  <2>2. Is(h, m + 1)
    BY <2>1, Zenon
  <2> HIDE DEF Is
  <2> QED
    BY <2>2, Zenon
<1> HIDE DEF Is
<1>3. NFILES \in S
  <2>1. 0 \in S
    BY <1>1, FilesConstants
  <2>2. \A m \in 0..(NFILES - 1) : m \in S => m + 1 \in S
    BY <1>2, FilesConstants
  <2> HIDE DEF S
  <2>3. 0..NFILES \subseteq S
    BY <2>1, <2>2, Induction, FilesConstants, Zenon
  <2> QED
    BY <2>3, FilesConstants
<1>4. Is(at, NFILES)
  <2>1. \E g : Is(g, NFILES)
    BY <1>3, Zenon
  <2> QED
    BY <2>1, Zenon
<1>5. copy_parent_files(p) = at[NFILES]
  BY Zenon DEF copy_parent_files, Is
<1> HIDE DEF at
<1>6. \A n \in 0..NFILES : at[n] = IF n = 0 THEN State
                                  ELSE IF p_files[p][n - 1] = Null THEN at[n - 1]
                                  ELSE fref(at[n - 1], p_files[p][n - 1])
  BY <1>4, Zenon DEF Is
<1>7. at[0] = State
  <2>1. 0 \in 0..NFILES
    BY FilesConstants
  <2> QED
    BY <1>6, <2>1, Zenon
<1>8. \A n \in 1..NFILES :
        at[n] = IF p_files[p][n - 1] = Null THEN at[n - 1] ELSE fref(at[n - 1], p_files[p][n - 1])
  <2>1. \A n \in 1..NFILES : n \in 0..NFILES /\ n # 0
    BY FilesConstants
  <2> QED
    BY <1>6, <2>1, Zenon
<1> QED
  BY <1>5, <1>7, <1>8, Zenon DEF Copying

\* Tables that agree everywhere are equal.
LEMMA SameTable ==
  ASSUME NEW a \in Tables, NEW b \in Tables,
         \A q \in Procs, fd \in Fds : a[q][fd] = b[q][fd]
  PROVE  a = b
<1>1. \A q \in Procs : a[q] \in [Fds -> Slots \cup {Null}] /\ b[q] \in [Fds -> Slots \cup {Null}]
  BY Zenon DEF Tables
<1>2. \A q \in Procs : a[q] = b[q]
  BY <1>1
<1> QED
  BY <1>2 DEF Tables

\* With every descriptor of p closed, its references are given back.
LEMMA ClosesAll ==
  ASSUME p_files \in Tables, NEW c \in Sleeping, NEW p \in Procs,
         NEW st, Held(st, Usage(p_files, c))
  PROVE  /\ [p_files EXCEPT ![p] = NoFiles] \in Tables
         /\ Moved(st, Usage(p_files, c),
                  CloseAll(st, p), Usage([p_files EXCEPT ![p] = NoFiles], c))
<1> DEFINE Left(n) == [p_files EXCEPT ![p] = [fd \in Fds |-> IF fd < n THEN Null
                                                             ELSE p_files[p][fd]]]
           u == Usage(p_files, c)
<1>1. PICK at : Closing(at, st, p)
  BY CloseLoop, Zenon
<1>2. Left(0) = p_files /\ Left(NFILES) = [p_files EXCEPT ![p] = NoFiles]
  <2>1. \A fd \in Fds : ~(fd < 0) /\ fd < NFILES
    BY FilesConstants DEF Fds
  <2> QED
    BY <2>1, Zenon DEF Tables, NoFiles
<1>3. \A n \in 0..NFILES : Left(n) \in Tables
  BY Zenon DEF Tables
<1>4. ASSUME NEW n \in 0..(NFILES - 1)
      PROVE  /\ n \in Fds /\ n + 1 \in 1..NFILES /\ n \in 0..NFILES
             /\ Left(n)[p][n] = p_files[p][n] /\ p_files[p][n] \in Slots \cup {Null}
             /\ p_files[p][n] = Null => Left(n + 1) = Left(n)
             /\ p_files[p][n] # Null => Left(n + 1) = With(Left(n), p, n, Null)
  <2>1. n \in Fds /\ n + 1 \in 1..NFILES /\ n \in 0..NFILES
    BY FilesConstants DEF Fds
  <2>2. \A fd \in Fds : fd < n + 1 <=> fd < n \/ fd = n
    BY DEF Fds
  <2>3. /\ Left(n) \in Tables /\ Left(n + 1) \in Tables
        /\ p_files[p][n] \in Slots \cup {Null}
    BY <2>1, Zenon DEF Tables
  <2>4. \A q \in Procs, fd \in Fds :
          /\ Left(n)[q][fd] = IF q = p THEN IF fd < n THEN Null ELSE p_files[p][fd] ELSE p_files[q][fd]
          /\ Left(n + 1)[q][fd] =
               IF q = p THEN IF fd < n + 1 THEN Null ELSE p_files[p][fd] ELSE p_files[q][fd]
    BY Zenon DEF Tables
  <2> HIDE DEF Left
  <2>5. p_files[p][n] = Null => Left(n + 1) = Left(n)
    BY <2>1, <2>2, <2>3, <2>4, SameTable
  <2>6. p_files[p][n] # Null => Left(n + 1) = With(Left(n), p, n, Null)
    <3> DEFINE w == With(Left(n), p, n, Null)
    <3>1. /\ w \in Tables
          /\ \A q \in Procs, fd \in Fds :
               w[q][fd] = IF q = p /\ fd = n THEN Null ELSE Left(n)[q][fd]
      BY <2>1, <2>3, WithIs
    <3> HIDE DEF w
    <3>2. w = Left(n + 1)
      BY <2>1, <2>2, <2>3, <2>4, <3>1, SameTable
    <3> QED
      BY <3>2, Zenon DEF w
  <2> QED
    BY <2>1, <2>3, <2>4, <2>5, <2>6
<1> DEFINE S == {n \in 0..NFILES : Moved(st, u, at[n], Usage(Left(n), c))}
<1> HIDE DEF Left
<1>5. 0 \in S
  <2>1. at[0] = st
    BY <1>1, Zenon DEF Closing
  <2> QED
    BY <1>2, <2>1, MovedNot, FilesConstants
<1>6. ASSUME NEW n \in 0..(NFILES - 1), n \in S
      PROVE  n + 1 \in S
  <2> DEFINE f == p_files[p][n]
             w == Usage(Left(n), c)
  <2>1. at[n + 1] = IF f = Null THEN at[n] ELSE fput(at[n], f)
    BY <1>1, <1>4 DEF Closing
  <2>2. Moved(st, u, at[n], w)
    BY <1>6, Zenon
  <2>3. CASE f = Null
    BY <1>4, <2>1, <2>2, <2>3
  <2>4. CASE f # Null
    <3>1. w[f] > 0 /\ Usage(Left(n + 1), c) = Plus(w, f, -1) /\ f \in Slots
      BY <1>3, <1>4, <2>4, UsageClear
    <3>2. Held(at[n], w)
      BY <2>2, Zenon DEF Moved
    <3> HIDE DEF f, w
    <3>3. Moved(at[n], w, fput(at[n], f), Plus(w, f, -1))
      BY <3>1, <3>2, RefPut, Zenon
    <3>4. Moved(st, u, fput(at[n], f), Plus(w, f, -1))
      BY <2>2, <3>3, MovedTwice
    <3> QED
      BY <1>4, <2>1, <2>4, <3>1, <3>4
  <2> QED
    BY <2>3, <2>4, Zenon
<1>7. NFILES \in S
  <2> HIDE DEF S
  <2>1. 0..NFILES \subseteq S
    BY <1>5, <1>6, Induction, FilesConstants, Zenon
  <2> QED
    BY <2>1, FilesConstants
<1>8. CloseAll(st, p) = at[NFILES]
  BY <1>1, Zenon DEF Closing
<1>9. NFILES \in 0..NFILES
  BY FilesConstants
<1> QED
  BY <1>2, <1>3, <1>7, <1>8, <1>9, Zenon

\* The child has a reference for each descriptor that it inherits.
LEMMA CopiesAll ==
  ASSUME p_files \in Tables, NEW c \in Sleeping, NEW p \in Procs, NEW child \in Procs,
         child # p, p_files[child] = NoFiles, Held(State, Usage(p_files, c))
  PROVE  /\ [p_files EXCEPT ![child] = p_files[p]] \in Tables
         /\ Moved(State, Usage(p_files, c), copy_parent_files(p),
                  Usage([p_files EXCEPT ![child] = p_files[p]], c))
<1> DEFINE Made(n) == [p_files EXCEPT ![child] = [fd \in Fds |-> IF fd < n THEN p_files[p][fd]
                                                                 ELSE Null]]
           u == Usage(p_files, c)
<1>1. PICK at : Copying(at, p)
  BY CopyLoop, Zenon
<1>2. Made(0) = p_files /\ Made(NFILES) = [p_files EXCEPT ![child] = p_files[p]]
  <2>1. \A fd \in Fds : ~(fd < 0) /\ fd < NFILES
    BY FilesConstants DEF Fds
  <2> QED
    BY <2>1, Zenon DEF Tables, NoFiles
<1>3. \A n \in 0..NFILES : Made(n) \in Tables
  BY Zenon DEF Tables
<1>4. ASSUME NEW n \in 0..(NFILES - 1)
      PROVE  /\ n \in Fds /\ n + 1 \in 1..NFILES /\ n \in 0..NFILES
             /\ Made(n)[child][n] = Null /\ Made(n)[p][n] = p_files[p][n]
             /\ p_files[p][n] \in Slots \cup {Null}
             /\ p_files[p][n] = Null => Made(n + 1) = Made(n)
             /\ p_files[p][n] # Null => Made(n + 1) = With(Made(n), child, n, p_files[p][n])
  <2>1. n \in Fds /\ n + 1 \in 1..NFILES /\ n \in 0..NFILES
    BY FilesConstants DEF Fds
  <2>2. \A fd \in Fds : fd < n + 1 <=> fd < n \/ fd = n
    BY DEF Fds
  <2>3. /\ Made(n) \in Tables /\ Made(n + 1) \in Tables
        /\ p_files[p][n] \in Slots \cup {Null}
    BY <2>1, Zenon DEF Tables
  <2>4. \A q \in Procs, fd \in Fds :
          /\ Made(n)[q][fd] = IF q = child THEN IF fd < n THEN p_files[p][fd] ELSE Null ELSE p_files[q][fd]
          /\ Made(n + 1)[q][fd] =
               IF q = child THEN IF fd < n + 1 THEN p_files[p][fd] ELSE Null ELSE p_files[q][fd]
    BY Zenon DEF Tables
  <2> HIDE DEF Made
  <2>5. p_files[p][n] = Null => Made(n + 1) = Made(n)
    BY <2>1, <2>2, <2>3, <2>4, SameTable
  <2>6. p_files[p][n] # Null => Made(n + 1) = With(Made(n), child, n, p_files[p][n])
    <3> DEFINE w == With(Made(n), child, n, p_files[p][n])
    <3>1. /\ w \in Tables
          /\ \A q \in Procs, fd \in Fds :
               w[q][fd] = IF q = child /\ fd = n THEN p_files[p][n] ELSE Made(n)[q][fd]
      BY <2>1, <2>3, WithIs
    <3> HIDE DEF w
    <3>2. w = Made(n + 1)
      BY <2>1, <2>2, <2>3, <2>4, <3>1, SameTable
    <3> QED
      BY <3>2, Zenon DEF w
  <2> QED
    BY <2>1, <2>3, <2>4, <2>5, <2>6
<1> DEFINE S == {n \in 0..NFILES : Moved(State, u, at[n], Usage(Made(n), c))}
<1> HIDE DEF Made
<1>5. 0 \in S
  <2>1. at[0] = State
    BY <1>1, Zenon DEF Copying
  <2> QED
    BY <1>2, <2>1, MovedNot, FilesConstants
<1>6. ASSUME NEW n \in 0..(NFILES - 1), n \in S
      PROVE  n + 1 \in S
  <2> DEFINE f == p_files[p][n]
             w == Usage(Made(n), c)
  <2>1. at[n + 1] = IF f = Null THEN at[n] ELSE fref(at[n], f)
    BY <1>1, <1>4 DEF Copying
  <2>2. Moved(State, u, at[n], w)
    BY <1>6, Zenon
  <2>3. CASE f = Null
    BY <1>4, <2>1, <2>2, <2>3
  <2>4. CASE f # Null
    <3>1. f \in Slots /\ Usage(Made(n + 1), c) = Plus(w, f, 1)
      <4>1. f \in Slots /\ Made(n) \in Tables /\ n \in Fds /\ Made(n)[child][n] = Null
        BY <1>3, <1>4, <2>4, Zenon
      <4>2. Made(n + 1) = With(Made(n), child, n, f)
        BY <1>4, <2>4, Zenon
      <4> QED
        BY <4>1, <4>2, UsageSet
    <3>2. w[f] > 0
      BY <1>3, <1>4, <3>1, UsageType, Zenon
    <3>3. Held(at[n], w)
      BY <2>2, Zenon DEF Moved
    <3> HIDE DEF f, w
    <3>4. at[n].file[f] # Null
      BY <3>1, <3>2, <3>3 DEF Held
    <3>5. Moved(at[n], w, fref(at[n], f), Plus(w, f, 1))
      BY <3>1, <3>3, <3>4, RefTaken, Zenon
    <3>6. Moved(State, u, fref(at[n], f), Plus(w, f, 1))
      BY <2>2, <3>5, MovedTwice
    <3> QED
      BY <1>4, <2>1, <2>4, <3>1, <3>6
  <2> QED
    BY <2>3, <2>4, Zenon
<1>7. NFILES \in S
  <2> HIDE DEF S
  <2>1. 0..NFILES \subseteq S
    BY <1>5, <1>6, Induction, FilesConstants, Zenon
  <2> QED
    BY <2>1, FilesConstants
<1>8. copy_parent_files(p) = at[NFILES]
  BY <1>1, Zenon DEF Copying
<1>9. NFILES \in 0..NFILES
  BY FilesConstants
<1> QED
  BY <1>2, <1>3, <1>7, <1>8, <1>9, Zenon
=============================================================================
