------------------------------- MODULE CowMem -------------------------------
(***************************************************************************)
(* What processes are promised about the memory they map, with no objects, *)
(* page tables or reference counts in it.  A mapped page is the process's  *)
(* own, is shared with whoever maps the same thing, or shows a file until  *)
(* the process writes to it.  Module Shadow implements this.               *)
(***************************************************************************)
EXTENDS Integers

CONSTANTS Procs, Pages, Zero,
          Stored,          \* the values that are written
          Things,          \* what can be mapped by several processes
          File, Content,   \* the one of them that is a file, and what it holds
          Null

VARIABLES mem,             \* per process and page: Null, <<"own", value>>,
                           \* <<"shared", thing>> or <<"file">>
          contents         \* per thing and page, its value

vars == <<mem, contents>>

Zeroes == [p \in Pages |-> Zero]
Unmapped == [p \in Pages |-> Null]

Init ==
  /\ mem = [q \in Procs |-> Unmapped]
  /\ contents = [t \in Things |-> [p \in Pages |-> IF t = File THEN Content ELSE Zero]]

(***************************************************************************)
(* The operations, as relations between memories.                          *)
(***************************************************************************)

With(m, q, lo, hi, what) ==
  [m EXCEPT ![q] = [p \in Pages |-> IF p \in lo..hi THEN what ELSE @[p]]]

Sharers(m, t) == {x \in Procs \X Pages : m[x[1]][x[2]] = <<"shared", t>>}

\* What is shared keeps its contents while it is mapped, and a file always.
SharedKept(old, new, c, d, fresh) ==
  \A t \in Things :
    d[t] = IF t = File \/ (t \notin fresh /\ Sharers(old, t) \cap Sharers(new, t) # {})
           THEN c[t] ELSE Zeroes

\* The pages lo..hi of q are unmapped, or become zeroes of its own or a view of
\* the file.
Map(old, new, c, d, q, lo, hi) ==
  \E what \in {Null, <<"own", Zero>>, <<"file">>, <<"shared", File>>} :
    new = With(old, q, lo, hi, what) /\ SharedKept(old, new, c, d, {})

\* They become something to be shared from now on, which begins with zeroes
\* and which nothing else maps.
MapShared(old, new, c, d, q, lo, hi, t) ==
  /\ Sharers(old, t) \subseteq {q} \X (lo..hi)
  /\ new = With(old, q, lo, hi, <<"shared", t>>)
  /\ SharedKept(old, new, c, d, {t})

\* The child sees what the parent saw.
Fork(old, new, q, child) ==
  old[child] = Unmapped /\ new = [old EXCEPT ![child] = old[q]]

\* A page that is not shared has a new value, or a view of the file becomes a
\* page of the process's own.
WriteOwn(old, new, c, q, p) ==
  /\ old[q][p] # Null /\ old[q][p][1] # "shared"
  /\ \E v \in IF old[q][p][1] = "file" THEN Stored \cup {c[File][p]} ELSE Stored :
       new = [old EXCEPT ![q][p] = <<"own", v>>]

Exit(old, new, q) == new = [old EXCEPT ![q] = Unmapped]

Change(old, new, c) ==
  \E q \in Procs :
    \/ \E child \in Procs : Fork(old, new, q, child)
    \/ \E p \in Pages : WriteOwn(old, new, c, q, p)
    \/ Exit(old, new, q)

Remap(old, new, c, d) ==
  \E q \in {r \in Procs : \A o \in Procs \ {r} : new[o] = old[o]}, lo, hi \in Pages :
    \/ Map(old, new, c, d, q, lo, hi)
    \/ \E t \in Things \ {File} : MapShared(old, new, c, d, q, lo, hi, t)

\* A write to what is shared changes no mapping.
WriteShared(m, c, d) ==
  \E q \in Procs, p \in Pages, v \in Stored :
    /\ m[q][p] # Null /\ m[q][p][1] = "shared"
    /\ d = [c EXCEPT ![m[q][p][2]][p] = v]

Step(old, new, c, d) ==
  /\ <<new, d>> # <<old, c>>
  /\ \/ new = old /\ WriteShared(old, c, d)
     \/ Change(old, new, c) /\ SharedKept(old, new, c, d, {})
     \/ Remap(old, new, c, d)

Next ==
  \E old \in {mem}, new \in {mem'}, c \in {contents}, d \in {contents'} :
    Step(old, new, c, d)

Spec == Init /\ [][Next]_vars
=============================================================================
