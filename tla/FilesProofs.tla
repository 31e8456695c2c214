---------------------------- MODULE FilesProofs ----------------------------
(***************************************************************************)
(* Files and vnodes are held by whoever uses them, for any number of       *)
(* processes, descriptors and files: the invariant of Files under the      *)
(* system calls of Syscall.                                                *)
(***************************************************************************)
EXTENDS Syscall, FileRefsProofs

(***************************************************************************)
(* The invariant                                                           *)
(***************************************************************************)

\* A process that sleeps in a call has the file open, and a write fits.
CallsOpen ==
  \A p \in Procs : io[p] # Null =>
    /\ p \in alive
    /\ \E fd \in Fds : p_files[p][fd] = io[p].file
    /\ io[p].call = "write" => io[p].pos + io[p].n <= MaxLen

\* A process that has exited has nothing open.
ExitedClosed == \A p \in Procs : p \notin alive => p_files[p] = NoFiles

FilesInv == FilesTypeOK /\ Held(State, Usage(p_files, io)) /\ CallsOpen /\ ExitedClosed

\* A reference to f is lost by dup2.
LostByDup2(f) ==
  /\ Leaked(f)' = Leaked(f) + 1
  /\ \E p \in Procs, ofd, nfd \in Fds :
       /\ Dup2Loses(p, ofd, nfd) /\ p_files[p][nfd] = f
       /\ p_files'[p] = [p_files[p] EXCEPT ![nfd] = p_files[p][ofd]]
       /\ io[p] = Null

\* A write is asleep, and its file has moved or was past the end.
WritePastEnd ==
  \E p \in Procs :
    /\ io[p] # Null /\ io[p].call = "write"
    /\ LET r == file[io[p].file]
       IN  r.pos # io[p].pos \/ r.pos > vn_len[r.vnode]

\* What a step does that is right.
StepOK ==
  /\ FilesInv'
  /\ \A f \in Slots : Leaked(f)' # Leaked(f) => LostByDup2(f)
  /\ fault = "none" /\ fault' = "kassert" => WritePastEnd

\* What the invariant says of the state.
LEMMA InvNow ==
  ASSUME FilesInv
  PROVE  /\ p_files \in Tables /\ io \in Sleeping /\ alive \subseteq Procs
         /\ Held(State, Usage(p_files, io)) /\ State.file = file /\ State.refs = vn_refs
         /\ vn_len \in [Regs -> 0..MaxLen] /\ fault \in {"none", "index", "kassert"}
         /\ \A f \in Slots : Lost(State, Usage(p_files, io), f) = Leaked(f)
         /\ \A p \in Procs, fd \in Fds : p_files[p][fd] # Null =>
              p_files[p][fd] \in Slots /\ file[p_files[p][fd]] # Null
<1>1. /\ p_files \in Tables /\ io \in Sleeping /\ alive \subseteq Procs
      /\ Held(State, Usage(p_files, io)) /\ State.file = file /\ State.refs = vn_refs
      /\ vn_len \in [Regs -> 0..MaxLen] /\ fault \in {"none", "index", "kassert"}
  BY Zenon DEF FilesInv, FilesTypeOK, Tables, Sleeping, State
<1>2. \A f \in Slots : Lost(State, Usage(p_files, io), f) = Leaked(f)
  BY Zenon DEF Lost, Leaked, Usage, Users, Uses, Calling, State
<1>3. ASSUME NEW p \in Procs, NEW fd \in Fds, p_files[p][fd] # Null
      PROVE  p_files[p][fd] \in Slots /\ file[p_files[p][fd]] # Null
  <2>1. p_files[p][fd] \in Slots
    BY <1>1, <1>3, Zenon DEF Tables
  <2>2. Usage(p_files, io)[p_files[p][fd]] > 0
    BY <1>1, <2>1, UsageType, Zenon
  <2> QED
    BY <1>1, <2>1, <2>2 DEF Held
<1> QED
  BY <1>1, <1>2, <1>3, Zenon

\* What it says of a file that is open.
LEMMA OpenNow ==
  ASSUME FilesInv, NEW f \in Slots, file[f] # Null
  PROVE  file[f] \in OpenFiles /\ file[f].vnode \in Vnodes /\ file[f].pos \in Nat
BY Zenon DEF FilesInv, FilesTypeOK, OpenFiles

\* The invariant after a step of p.
LEMMA InvNext ==
  ASSUME FilesInv, NEW p \in Procs,
         Held(State', Usage(p_files', io')), p_files' \in Tables, io' \in Sleeping,
         alive' \subseteq Procs, vn_len' \in [Regs -> 0..MaxLen],
         fault' \in {"none", "index", "kassert"},
         \A q \in Procs : q # p =>
           p_files'[q] = p_files[q] /\ io'[q] = io[q] /\ (q \in alive' <=> q \in alive),
         p \notin alive' => p_files'[p] = NoFiles,
         io'[p] # Null =>
           /\ p \in alive'
           /\ \E fd \in Fds : p_files'[p][fd] = io'[p].file
           /\ io'[p].call = "write" => io'[p].pos + io'[p].n <= MaxLen
  PROVE  FilesInv'
<1>1. FilesTypeOK'
  <2>1. State' = [file |-> file', refs |-> vn_refs']
    BY Zenon DEF State
  <2>2. file' \in [Slots -> OpenFiles \cup {Null}] /\ vn_refs' \in [Vnodes -> Nat]
    BY <2>1, Zenon DEF Held
  <2> QED
    BY <2>2, Zenon DEF FilesTypeOK, Tables, Sleeping
<1>2. Held(State, Usage(p_files, io))'
  OBVIOUS
<1>3. CallsOpen'
  BY Zenon DEF CallsOpen, FilesInv
<1>4. ExitedClosed'
  BY Zenon DEF ExitedClosed, FilesInv
<1> QED
  BY <1>1, <1>2, <1>3, <1>4, Zenon DEF FilesInv

\* No reference is lost by a step that moves them.
LEMMA NothingLost ==
  ASSUME FilesInv, FilesInv',
         Moved(State, Usage(p_files, io), State', Usage(p_files', io'))
  PROVE  \A f \in Slots : Leaked(f)' = Leaked(f)
<1>1. \A f \in Slots : Lost(State, Usage(p_files, io), f) = Leaked(f)
  BY InvNow, Zenon
<1>2. \A f \in Slots : Lost(State', Usage(p_files', io'), f) = Leaked(f)'
  BY Zenon DEF Lost, Leaked, Usage, Users, Uses, Calling, State
<1> QED
  BY <1>1, <1>2, Zenon DEF Moved

\* Becomes sets file and vn_refs to the fields of a state.
LEMMA NextState ==
  ASSUME NEW st, NEW u, Held(st, u), Becomes(st)
  PROVE  State' = st
BY Zenon DEF Held, Becomes, State

\* A step that changes nothing.
LEMMA Unchanged ==
  ASSUME FilesInv, UNCHANGED vars
  PROVE  StepOK
<1>1. UNCHANGED <<alive, p_files, file, vn_refs, vn_len, io, fault>>
  BY Zenon DEF vars
<1>2. FilesInv'
  BY <1>1, Zenon DEF FilesInv, FilesTypeOK, CallsOpen, ExitedClosed, State
<1>3. \A f \in Slots : Leaked(f)' = Leaked(f)
  BY <1>1, Zenon DEF Leaked, Users
<1> QED
  BY <1>1, <1>2, <1>3, Zenon DEF StepOK

\* A call that fails, and one that indexes p_files with -1.
LEMMA RefuseStep ==
  ASSUME FilesInv, NEW res, Refuse(res) \/ Fault(res, "index")
  PROVE  StepOK
<1>1. UNCHANGED <<alive, p_files, file, vn_refs, vn_len, io>> /\ fault' \in {fault, "index"}
  BY Zenon DEF Refuse, Fault
<1>2. FilesInv'
  BY <1>1, Zenon DEF FilesInv, FilesTypeOK, CallsOpen, ExitedClosed, State
<1>3. \A f \in Slots : Leaked(f)' = Leaked(f)
  BY <1>1, Zenon DEF Leaked, Users
<1> QED
  BY <1>1, <1>2, <1>3, Zenon DEF StepOK

(***************************************************************************)
(* The calls                                                               *)
(***************************************************************************)

\* A call of p that changes one descriptor and moves the references.
LEMMA TableStep ==
  ASSUME FilesInv, NEW p \in Procs, Ready(p), NEW fd \in Fds, NEW g \in Slots \cup {Null},
         p_files' = With(p_files, p, fd, g), UNCHANGED <<alive, vn_len, io, fault>>,
         NEW st, Becomes(st), Held(st, Usage(With(p_files, p, fd, g), io))
  PROVE  /\ FilesInv'
         /\ Moved(State, Usage(p_files, io), st, Usage(With(p_files, p, fd, g), io)) => StepOK
<1>1. p_files \in Tables /\ io \in Sleeping
  BY InvNow, Zenon
<1>2. p_files' \in Tables /\ \A q \in Procs : q # p => p_files'[q] = p_files[q]
  BY <1>1, Zenon DEF With, Tables
<1>3. State' = st
  BY NextState, Zenon
<1>4. FilesInv'
  <2>1. p \in alive /\ io'[p] = Null
    BY Zenon DEF Ready, Running
  <2>2. Held(State', Usage(p_files', io'))
    BY <1>3, Zenon
  <2>3. /\ alive' \subseteq Procs /\ vn_len' \in [Regs -> 0..MaxLen] /\ io' \in Sleeping
        /\ fault' \in {"none", "index", "kassert"}
    BY InvNow, Zenon
  <2> QED
    BY <1>2, <2>1, <2>2, <2>3, InvNext, Zenon
<1>5. ASSUME Moved(State, Usage(p_files, io), st, Usage(With(p_files, p, fd, g), io))
      PROVE  StepOK
  <2>1. Moved(State, Usage(p_files, io), State', Usage(p_files', io'))
    BY <1>3, <1>5, Zenon
  <2>2. \A f \in Slots : Leaked(f)' = Leaked(f)
    BY <1>4, <2>1, NothingLost, Zenon
  <2> QED
    BY <1>4, <2>2, Zenon DEF StepOK
<1> QED
  BY <1>4, <1>5, Zenon

\* get_empty_fd finds a descriptor that is free.
LEMMA EmptyFd ==
  ASSUME NEW p \in Procs, ~(get_empty_fd(p) < 0)
  PROVE  get_empty_fd(p) \in Fds /\ p_files[p][get_empty_fd(p)] = Null
<1> DEFINE free == {fd \in Fds : p_files[p][fd] = Null}
<1>1. free # {} /\ get_empty_fd(p) = Min(free)
  BY DEF get_empty_fd
<1>2. free \subseteq Nat
  BY DEF Fds
<1> HIDE DEF free
<1>3. Min(free) \in free
  BY <1>1, <1>2, LeastNat, Zenon DEF Min
<1> QED
  BY <1>1, <1>3, Zenon DEF free

\* A slot that do_open takes is free.
LEMMA FreeSlot ==
  ASSUME FreeSlots # {}
  PROVE  (CHOOSE g \in FreeSlots : TRUE) \in Slots /\ file[CHOOSE g \in FreeSlots : TRUE] = Null
BY Zenon DEF FreeSlots

\* close.
LEMMA CloseStep ==
  ASSUME FilesInv, NEW p \in Procs, NEW fd, NEW res, do_close(p, fd, res)
  PROVE  StepOK
<1>1. CASE fd \notin Fds \/ p_files[p][fd] = Null
  BY <1>1, RefuseStep, Zenon DEF do_close
<1>2. CASE ~(fd \notin Fds \/ p_files[p][fd] = Null)
  <2> DEFINE f == p_files[p][fd]
             u == Usage(p_files, io)
  <2>1. /\ Ready(p) /\ Becomes(fput(State, f)) /\ p_files' = With(p_files, p, fd, Null)
        /\ UNCHANGED <<alive, vn_len, io, fault>>
    BY <1>2, Zenon DEF do_close, With
  <2>2. fd \in Fds /\ f \in Slots /\ p_files \in Tables /\ io \in Sleeping /\ Held(State, u)
    BY <1>2, InvNow, Zenon
  <2>3. u[f] > 0 /\ Usage(With(p_files, p, fd, Null), io) = Plus(u, f, -1)
    BY <2>2, UsageClear, Zenon
  <2> HIDE DEF f, u
  <2>4. Moved(State, u, fput(State, f), Plus(u, f, -1))
    BY <2>2, <2>3, RefPut, Zenon
  <2>5. Held(fput(State, f), Plus(u, f, -1))
    BY <2>4, Zenon DEF Moved
  <2> QED
    BY <2>1, <2>2, <2>3, <2>4, <2>5, TableStep, Zenon DEF u
<1> QED
  BY <1>1, <1>2, Zenon

\* A free descriptor of p is set to a file with a new reference.
LEMMA SetStep ==
  ASSUME FilesInv, NEW p \in Procs, Ready(p), NEW fd \in Fds, p_files[p][fd] = Null,
         NEW f \in Slots, file[f] # Null, p_files' = With(p_files, p, fd, f),
         Becomes(fref(State, f)), UNCHANGED <<alive, vn_len, io, fault>>
  PROVE  StepOK
<1> DEFINE u == Usage(p_files, io)
<1>1. p_files \in Tables /\ io \in Sleeping /\ Held(State, u) /\ State.file = file
  BY InvNow, Zenon
<1>2. Usage(With(p_files, p, fd, f), io) = Plus(u, f, 1)
  BY <1>1, UsageSet, Zenon
<1> HIDE DEF u
<1>3. Moved(State, u, fref(State, f), Plus(u, f, 1))
  BY <1>1, RefTaken, Zenon
<1>4. Held(fref(State, f), Plus(u, f, 1))
  BY <1>3, Zenon DEF Moved
<1> QED
  BY <1>2, <1>3, <1>4, TableStep, Zenon DEF u

\* dup.
LEMMA DupStep ==
  ASSUME FilesInv, NEW p \in Procs, NEW fd, NEW res, do_dup(p, fd, res)
  PROVE  StepOK
<1> DEFINE f == FileOf(p, fd)
           nfd == get_empty_fd(p)
<1>1. CASE f = Null \/ nfd < 0
  BY <1>1, RefuseStep, Zenon DEF do_dup
<1>2. CASE ~(f = Null \/ nfd < 0)
  <2>1. /\ Ready(p) /\ Becomes(fref(State, f)) /\ p_files' = With(p_files, p, nfd, f)
        /\ UNCHANGED <<alive, vn_len, io, fault>>
    BY <1>2, Zenon DEF do_dup, With
  <2>2. f \in Slots /\ file[f] # Null
    BY <1>2, InvNow, Zenon DEF FileOf
  <2>3. nfd \in Fds /\ p_files[p][nfd] = Null
    BY <1>2, EmptyFd, Zenon
  <2> HIDE DEF f, nfd
  <2> QED
    BY <2>1, <2>2, <2>3, SetStep, Zenon
<1> QED
  BY <1>1, <1>2, Zenon

\* A user of f is forgotten and its reference is lost.
LEMMA RefLost ==
  ASSUME NEW st, NEW u, Held(st, u), NEW f \in Slots, u[f] > 0
  PROVE  /\ Held(st, Plus(u, f, -1))
         /\ \A g \in Slots : Lost(st, Plus(u, f, -1), g) =
                               IF g = f THEN Lost(st, u, g) + 1 ELSE Lost(st, u, g)
<1> DEFINE w == Plus(u, f, -1)
<1>1. u \in [Slots -> Nat] /\ st.file[f] # Null
  BY DEF Held
<1>2. w \in [Slots -> Nat] /\ \A g \in Slots : w[g] = IF g = f THEN u[f] - 1 ELSE u[g]
  BY <1>1, PlusIs
<1>3. st.file[f].refs \in Nat /\ st.file[f].refs >= u[f]
  BY <1>1, FileType, Zenon
<1> HIDE DEF w
<1>4. Held(st, w)
  BY <1>1, <1>2, <1>3 DEF Held
<1>5. \A g \in Slots : Lost(st, w, g) = IF g = f THEN Lost(st, u, g) + 1 ELSE Lost(st, u, g)
  BY <1>1, <1>2, <1>3 DEF Lost
<1> QED
  BY <1>4, <1>5, Zenon DEF w

\* dup2 onto the same descriptor.
LEMMA Dup2Same ==
  ASSUME FilesInv, NEW p \in Procs, Ready(p), NEW fd \in Fds, NEW f \in Slots,
         p_files[p][fd] = f, p_files' = With(p_files, p, fd, f),
         Becomes(fput(fref(State, f), f)), UNCHANGED <<alive, vn_len, io, fault>>
  PROVE  StepOK
<1> DEFINE u == Usage(p_files, io)
           st == fref(State, f)
<1>1. /\ p_files \in Tables /\ io \in Sleeping /\ Held(State, u) /\ State.file = file
      /\ file[f] # Null /\ u \in [Slots -> Nat]
  BY InvNow, UsageType, FilesConstants, Zenon
<1>2. With(p_files, p, fd, f) = p_files
  BY <1>1, Zenon DEF With, Tables
<1> HIDE DEF u
<1>3. Moved(State, u, st, Plus(u, f, 1))
  BY <1>1, RefTaken, Zenon
<1>4. Held(st, Plus(u, f, 1)) /\ Plus(u, f, 1)[f] > 0 /\ Plus(Plus(u, f, 1), f, -1) = u
  <2>1. Plus(u, f, 1)[f] > 0 /\ Plus(Plus(u, f, 1), f, -1) = u
    BY <1>1, PlusBack, Zenon
  <2> QED
    BY <1>3, <2>1, Zenon DEF Moved
<1>5. Moved(st, Plus(u, f, 1), fput(st, f), Plus(Plus(u, f, 1), f, -1))
  <2> DEFINE w == Plus(u, f, 1)
  <2>1. Held(st, w) /\ w[f] > 0
    BY <1>4, Zenon
  <2> HIDE DEF st, w
  <2>2. Moved(st, w, fput(st, f), Plus(w, f, -1))
    BY <2>1, RefPut, Zenon
  <2> QED
    BY <2>2, Zenon DEF w
<1>6. Moved(State, u, fput(st, f), u)
  <2> DEFINE w == Plus(u, f, 1)
  <2>1. Moved(State, u, st, w) /\ Moved(st, w, fput(st, f), u)
    BY <1>3, <1>4, <1>5, Zenon
  <2> HIDE DEF w, st
  <2> QED
    BY <2>1, MovedTwice, Zenon
<1>7. Held(fput(st, f), u)
  BY <1>6, Zenon DEF Moved
<1> QED
  BY <1>2, <1>6, <1>7, TableStep, Zenon DEF u, st

\* dup2 onto a descriptor that is open.
LEMMA Dup2Over ==
  ASSUME FilesInv, NEW p \in Procs, Ready(p), NEW ofd \in Fds, NEW nfd \in Fds, ofd # nfd,
         NEW f \in Slots, p_files[p][ofd] = f, p_files[p][nfd] # Null,
         p_files' = With(p_files, p, nfd, f),
         Becomes(fref(State, f)), UNCHANGED <<alive, vn_len, io, fault>>
  PROVE  StepOK
<1> DEFINE u == Usage(p_files, io)
           old == p_files[p][nfd]
           pf1 == With(p_files, p, nfd, Null)
           u1 == Plus(u, old, -1)
           st == fref(State, f)
<1>1. /\ p_files \in Tables /\ io \in Sleeping /\ Held(State, u) /\ State.file = file
      /\ file[f] # Null /\ old \in Slots
  BY InvNow, FilesConstants, Zenon
<1>2. pf1 \in Tables /\ pf1[p][nfd] = Null /\ With(pf1, p, nfd, f) = With(p_files, p, nfd, f)
  BY <1>1, Zenon DEF With, Tables
<1>3. u[old] > 0 /\ Usage(pf1, io) = u1
  BY <1>1, UsageClear, Zenon
<1>4. Usage(With(p_files, p, nfd, f), io) = Plus(u1, f, 1)
  <2> HIDE DEF pf1, u1
  <2>1. Usage(With(pf1, p, nfd, f), io) = Plus(Usage(pf1, io), f, 1)
    BY <1>1, <1>2, UsageSet, ZenonT(40)
  <2> QED
    BY <1>2, <1>3, <2>1, Zenon
<1>5. /\ Held(State, u1)
      /\ \A g \in Slots : Lost(State, u1, g) =
                            IF g = old THEN Lost(State, u, g) + 1 ELSE Lost(State, u, g)
  <2> HIDE DEF u, old
  <2> QED
    BY <1>1, <1>3, RefLost, Zenon
<1> HIDE DEF u1, u
<1>6. Moved(State, u1, st, Plus(u1, f, 1))
  BY <1>1, <1>5, RefTaken, Zenon
<1>7. Held(st, Plus(u1, f, 1))
  BY <1>6, Zenon DEF Moved
<1>8. FilesInv'
  BY <1>4, <1>7, TableStep, Zenon
<1>9. State' = st
  BY <1>7, NextState, Zenon
<1>10. ASSUME NEW g \in Slots
       PROVE  Leaked(g)' = IF g = old THEN Leaked(g) + 1 ELSE Leaked(g)
  <2>1. Lost(State', Usage(p_files', io'), g) = Leaked(g)'
    BY Zenon DEF Lost, Leaked, Usage, Users, Uses, Calling, State
  <2>2. Lost(State, u, g) = Leaked(g)
    BY InvNow, Zenon DEF u
  <2>3. Lost(State', Usage(p_files', io'), g) = Lost(State, u1, g)
    BY <1>4, <1>6, <1>9, Zenon DEF Moved
  <2> QED
    BY <1>5, <2>1, <2>2, <2>3, Zenon
<1>11. /\ Dup2Loses(p, ofd, nfd) /\ io[p] = Null
       /\ p_files'[p] = [p_files[p] EXCEPT ![nfd] = p_files[p][ofd]]
  BY <1>1, Zenon DEF Dup2Loses, Ready, With, Tables
<1> QED
  BY <1>8, <1>10, <1>11, Zenon DEF StepOK, LostByDup2

\* dup2.
LEMMA Dup2Step ==
  ASSUME FilesInv, NEW p \in Procs, NEW ofd, NEW nfd, NEW res, do_dup2(p, ofd, nfd, res)
  PROVE  StepOK
<1> DEFINE f == FileOf(p, ofd)
<1>1. CASE f = Null \/ nfd \notin Fds
  BY <1>1, RefuseStep, Zenon DEF do_dup2
<1>2. CASE ~(f = Null \/ nfd \notin Fds)
  <2>1. /\ Ready(p) /\ Becomes(Dup2Ref(State, f, ofd, nfd)) /\ p_files' = With(p_files, p, nfd, f)
        /\ UNCHANGED <<alive, vn_len, io, fault>>
    BY <1>2, Zenon DEF do_dup2, With
  <2>2. f \in Slots /\ file[f] # Null /\ ofd \in Fds /\ nfd \in Fds /\ p_files[p][ofd] = f
    BY <1>2, InvNow, Zenon DEF FileOf
  <2> HIDE DEF f
  <2>3. CASE ofd = nfd
    BY <2>1, <2>2, <2>3, Dup2Same, Zenon DEF Dup2Ref
  <2>4. CASE ofd # nfd /\ p_files[p][nfd] = Null
    BY <2>1, <2>2, <2>4, SetStep, Zenon DEF Dup2Ref
  <2>5. CASE ofd # nfd /\ p_files[p][nfd] # Null
    BY <2>1, <2>2, <2>5, Dup2Over, Zenon DEF Dup2Ref
  <2> QED
    BY <2>3, <2>4, <2>5, Zenon
<1> QED
  BY <1>1, <1>2, Zenon

\* open: the file is opened on v, or nothing is left of it.
LEMMA OpenStep ==
  ASSUME FilesInv, NEW p \in Procs, NEW flags \in Flags, NEW v \in Vnodes \cup {Null}, NEW res,
         do_open(p, flags, v, res)
  PROVE  StepOK
<1> DEFINE fd == get_empty_fd(p)
           f == CHOOSE g \in FreeSlots : TRUE
           fresh == [refs |-> 1, mode |-> ModeOf(flags), vnode |-> Null, pos |-> 0]
           st == [State EXCEPT !.file[f] = fresh]
           after == IF v = Null THEN OpenFails(st, f)
                    ELSE OpenFile([st EXCEPT !.refs[v] = @ + 1], f, v, flags)
           opened == after.file[f] # Null
           u == Usage(p_files, io)
<1>1. CASE {"WRONLY", "RDWR"} \subseteq flags \/ fd < 0
  BY <1>1, RefuseStep, Zenon DEF do_open
<1>2. CASE ~({"WRONLY", "RDWR"} \subseteq flags \/ fd < 0)
  <2>1. /\ Ready(p) /\ FreeSlots # {} /\ Becomes(after)
        /\ p_files' = With(p_files, p, fd, IF opened THEN f ELSE Null)
        /\ UNCHANGED <<alive, vn_len, io, fault>>
    BY <1>2, Zenon DEF do_open, With
  <2>2. /\ p_files \in Tables /\ io \in Sleeping /\ Held(State, u)
        /\ State = [file |-> file, refs |-> vn_refs]
    BY InvNow, Zenon DEF State
  <2>3. f \in Slots /\ file[f] = Null
    BY <2>1, FreeSlot, Zenon
  <2>4. fd \in Fds /\ p_files[p][fd] = Null
    BY <1>2, EmptyFd, Zenon
  <2>5. file \in [Slots -> OpenFiles \cup {Null}] /\ vn_refs \in [Vnodes -> Nat]
    BY <2>2, Zenon DEF Held
  <2> HIDE DEF fd, f
  <2> DEFINE r == [refs |-> 1, mode |-> ModeOf(flags), vnode |-> v, pos |-> 0]
             new == [file |-> [State.file EXCEPT ![f] = r], refs |-> [State.refs EXCEPT ![v] = @ + 1]]
  <2>6. st = [file |-> [file EXCEPT ![f] = fresh], refs |-> vn_refs]
    BY <2>2
  <2> HIDE DEF fresh, st, after, opened
  <2>7. OpenFails(st, f) = State
    <3>1. st.file[f] = fresh
      BY <2>3, <2>5, <2>6, Zenon
    <3>2. fput(st, f) = [file |-> [file EXCEPT ![f] = Null], refs |-> vn_refs]
      BY <2>3, <2>5, <2>6, <3>1 DEF fput, fresh
    <3>3. [file EXCEPT ![f] = Null] = file
      BY <2>3, <2>5, Zenon
    <3> QED
      BY <2>2, <3>2, <3>3, Zenon DEF OpenFails
  <2>8. CASE after = State
    <3>1. ~opened
      BY <2>2, <2>3, <2>8, Zenon DEF opened
    <3>2. With(p_files, p, fd, Null) = p_files
      BY <2>2, <2>4, Zenon DEF With, Tables
    <3>3. p_files' = With(p_files, p, fd, Null) /\ Becomes(State)
      BY <2>1, <2>8, <3>1, Zenon
    <3> QED
      BY <2>1, <2>2, <2>4, <3>2, <3>3, MovedNot, TableStep, Zenon
  <2>9. CASE v \in Vnodes /\ after = new
    <3>1. r \in OpenFiles /\ r.refs = 1 /\ r.vnode = v /\ r # Null
      BY <2>9, FilesConstants DEF OpenFiles, ModeOf
    <3>2. new.file[f] = r
      BY <2>2, <2>3, <2>5, Zenon
    <3>3. p_files' = With(p_files, p, fd, f)
      BY <2>1, <2>9, <3>1, <3>2, Zenon DEF opened
    <3> HIDE DEF r, u
    <3>4. Moved(State, u, new, Plus(u, f, 1))
      BY <2>2, <2>3, <2>9, <3>1, FileOpens, Zenon
    <3>5. Usage(With(p_files, p, fd, f), io) = Plus(u, f, 1)
      BY <2>2, <2>3, <2>4, UsageSet, Zenon DEF u
    <3>6. Held(new, Plus(u, f, 1)) /\ Becomes(new)
      BY <2>1, <2>9, <3>4, Zenon DEF Moved
    <3> HIDE DEF new
    <3> QED
      BY <2>1, <2>3, <2>4, <3>3, <3>4, <3>5, <3>6, TableStep, Zenon DEF u
  <2>10. after = State \/ (v \in Vnodes /\ after = new)
    <3>1. CASE v = Null
      BY <2>7, <3>1, Zenon DEF after
    <3>2. CASE v # Null
      <4> DEFINE st1 == [st EXCEPT !.refs[v] = @ + 1]
      <4>1. v \in Vnodes /\ after = OpenFile(st1, f, v, flags)
        BY <3>2, Zenon DEF after
      <4>2. st1 = [file |-> [file EXCEPT ![f] = fresh], refs |-> [vn_refs EXCEPT ![v] = @ + 1]]
        BY <2>5, <2>6, <4>1
      <4> HIDE DEF st1
      <4>3. CASE v \in Dirs /\ flags \cap {"WRONLY", "RDWR"} # {}
        <5>1. vput(st1, v) = [file |-> [file EXCEPT ![f] = fresh], refs |-> vn_refs]
          BY <2>5, <4>1, <4>2 DEF vput
        <5>2. OpenFile(st1, f, v, flags) = fput(vput(st1, v), f)
          BY <4>3, Zenon DEF OpenFile
        <5> QED
          BY <2>6, <2>7, <4>1, <5>1, <5>2, Zenon DEF OpenFails
      <4>4. CASE ~(v \in Dirs /\ flags \cap {"WRONLY", "RDWR"} # {})
        <5>1. OpenFile(st1, f, v, flags) = [st1 EXCEPT !.file[f].vnode = v]
          BY <4>4, Zenon DEF OpenFile
        <5>2. [st1 EXCEPT !.file[f].vnode = v] = new
          BY <2>2, <2>3, <2>5, <4>1, <4>2 DEF fresh
        <5> QED
          BY <4>1, <5>1, <5>2, Zenon
      <4> QED
        BY <4>3, <4>4, Zenon
    <3> QED
      BY <3>1, <3>2, Zenon
  <2> QED
    BY <2>8, <2>9, <2>10, Zenon
<1> QED
  BY <1>1, <1>2, Zenon

\* lseek.
LEMMA SeekStep ==
  ASSUME FilesInv, NEW p \in Procs, NEW fd, NEW offset \in Int, NEW whence, NEW res,
         do_lseek(p, fd, offset, whence, res)
  PROVE  StepOK
<1> DEFINE f == FileOf(p, fd)
           new_pos == CASE whence = "SET" -> offset
                        [] whence = "CUR" -> file[f].pos + offset
                        [] whence = "END" -> LenOf(file[f].vnode) + offset
                        [] OTHER -> -1
           u == Usage(p_files, io)
<1>1. CASE f = Null \/ new_pos < 0
  BY <1>1, RefuseStep, Zenon DEF do_lseek
<1>2. CASE ~(f = Null \/ new_pos < 0)
  <2>1. Ready(p) /\ file' = [file EXCEPT ![f].pos = new_pos]
        /\ UNCHANGED <<alive, p_files, vn_refs, vn_len, io, fault>>
    BY <1>2, Zenon DEF do_lseek
  <2>2. f \in Slots /\ file[f] # Null
    BY <1>2, InvNow, Zenon DEF FileOf
  <2>3. /\ Held(State, u) /\ State = [file |-> file, refs |-> vn_refs]
        /\ p_files \in Tables /\ io \in Sleeping /\ alive \subseteq Procs
        /\ vn_len \in [Regs -> 0..MaxLen] /\ fault \in {"none", "index", "kassert"}
    BY InvNow, Zenon DEF State
  <2>4. file[f].pos \in Int /\ LenOf(file[f].vnode) \in Int
    <3>1. file[f].pos \in Int
      <4>1. file[f].pos \in Nat
        BY <2>2, OpenNow, Zenon
      <4> QED
        BY <4>1
    <3> QED
      BY <2>3, <3>1, FilesConstants DEF LenOf
  <2>5. new_pos \in Nat
    <3>1. new_pos \in Int
      BY <2>4
    <3> QED
      BY <1>2, <3>1
  <2> HIDE DEF f, new_pos, u
  <2>6. State' = [State EXCEPT !.file[f].pos = new_pos]
    BY <2>1, <2>3 DEF State
  <2>7. Moved(State, u, State', u)
    BY <2>2, <2>3, <2>5, <2>6, PosMoves, Zenon
  <2>8. Moved(State, Usage(p_files, io), State', Usage(p_files', io'))
    BY <2>1, <2>7, Zenon DEF u
  <2>9. FilesInv'
    <3>1. p \in alive /\ io'[p] = Null
      BY <2>1, Zenon DEF Ready, Running
    <3>2. Held(State', Usage(p_files', io'))
      BY <2>8, Zenon DEF Moved
    <3> QED
      BY <2>1, <2>3, <3>1, <3>2, InvNext, Zenon
  <2>10. \A g \in Slots : Leaked(g)' = Leaked(g)
    BY <2>8, <2>9, NothingLost, Zenon
  <2> QED
    BY <2>1, <2>9, <2>10, Zenon DEF StepOK
<1> QED
  BY <1>1, <1>2, Zenon

\* A call that begins takes a reference.
LEMMA BeginStep ==
  ASSUME FilesInv, NEW p \in Procs, Ready(p), NEW fd \in Fds, NEW f \in Slots,
         p_files[p][fd] = f, NEW call \in {"read", "write", "getdent"},
         NEW pos \in Nat, NEW n \in Nat, NEW res, Begin(p, call, f, pos, n, res)
  PROVE  StepOK
<1> DEFINE u == Usage(p_files, io)
           st == fref(State, f)
           r == [call |-> call, file |-> f, pos |-> pos, n |-> n]
<1>1. /\ Held(State, u) /\ State = [file |-> file, refs |-> vn_refs] /\ file[f] # Null
      /\ p_files \in Tables /\ io \in Sleeping /\ alive \subseteq Procs
      /\ vn_len \in [Regs -> 0..MaxLen] /\ fault \in {"none", "index", "kassert"}
  BY InvNow, FilesConstants, Zenon DEF State
<1>2. /\ pos + n <= MaxLen /\ file' = [st.file EXCEPT ![f].pos = pos]
      /\ io' = [io EXCEPT ![p] = r] /\ UNCHANGED <<alive, p_files, vn_refs, vn_len, fault>>
  BY Zenon DEF Begin
<1>3. io[p] = Null /\ p \in alive
  BY Zenon DEF Ready, Running
<1>4. r \in Calls /\ r.file = f /\ r.pos = pos /\ r.n = n /\ r # Null
  BY FilesConstants DEF Calls
<1> HIDE DEF r
<1>5. io' \in Sleeping /\ Usage(p_files', io') = Plus(u, f, 1)
  BY <1>1, <1>2, <1>3, <1>4, UsageCall, Zenon
<1> HIDE DEF u
<1>6. /\ Moved(State, u, st, Plus(u, f, 1))
      /\ st = [file |-> [State.file EXCEPT ![f] = [State.file[f] EXCEPT !.refs = @ + 1]],
               refs |-> State.refs]
  BY <1>1, RefTaken, Zenon
<1>7. Held(st, Plus(u, f, 1)) /\ st.refs = vn_refs
  BY <1>1, <1>6 DEF Moved
<1>8. st.file[f] # Null
  <2>1. Plus(u, f, 1)[f] > 0
    BY <1>1, PlusBack, Zenon DEF Held
  <2> QED
    BY <1>7, <2>1 DEF Held
<1> HIDE DEF st
<1>9. State' = [st EXCEPT !.file[f].pos = pos]
  BY <1>2, <1>7 DEF State, Held
<1>10. Moved(st, Plus(u, f, 1), State', Plus(u, f, 1))
  <2> DEFINE w == Plus(u, f, 1)
  <2>1. Held(st, w)
    BY <1>7, Zenon
  <2> HIDE DEF w
  <2>2. Moved(st, w, [st EXCEPT !.file[f].pos = pos], w)
    BY <1>8, <2>1, PosMoves, Zenon
  <2> QED
    BY <1>9, <2>2, Zenon DEF w
<1>11. Moved(State, u, State', Plus(u, f, 1))
  BY <1>6, <1>10, MovedTwice
<1>12. Moved(State, Usage(p_files, io), State', Usage(p_files', io'))
  BY <1>5, <1>11, Zenon DEF u
<1>13. FilesInv'
  <2>1. Held(State', Usage(p_files', io'))
    BY <1>12, Zenon DEF Moved
  <2>2. io'[p] = r /\ \A q \in Procs : q # p => io'[q] = io[q]
    BY <1>1, <1>2, Zenon DEF Sleeping
  <2> QED
    BY <1>1, <1>2, <1>3, <1>4, <1>5, <2>1, <2>2, InvNext, Zenon
<1>14. \A g \in Slots : Leaked(g)' = Leaked(g)
  BY <1>12, <1>13, NothingLost, Zenon
<1> QED
  BY <1>2, <1>13, <1>14, Zenon DEF StepOK

\* read, write and getdent up to the vnode's operation.
LEMMA CallStep ==
  ASSUME FilesInv, NEW p \in Procs, NEW fd, NEW n \in Nat, NEW res,
         do_read(p, fd, n, res) \/ do_write(p, fd, n, res) \/ do_getdent(p, fd, res)
  PROVE  StepOK
<1> DEFINE f == FileOf(p, fd)
<1>1. CASE f = Null
  BY <1>1, RefuseStep, Zenon DEF do_read, do_write, do_getdent
<1>2. CASE f # Null
  <2>1. fd \in Fds /\ p_files[p][fd] = f /\ f \in Slots /\ file[f] # Null
    BY <1>2, InvNow, Zenon DEF FileOf
  <2>2. file[f].pos \in Nat /\ LenOf(file[f].vnode) \in Nat
    <3>1. file[f].pos \in Nat
      BY <2>1, InvNow, FileType, Zenon
    <3>2. vn_len \in [Regs -> 0..MaxLen]
      BY InvNow, Zenon
    <3> QED
      BY <3>1, <3>2, FilesConstants DEF LenOf
  <2>3. Ready(p)
    BY Zenon DEF do_read, do_write, do_getdent
  <2>4. CASE do_read(p, fd, n, res)
    <3>1. Refuse(res) \/ Begin(p, "read", f, file[f].pos, n, res)
      BY <1>2, <2>4, Zenon DEF do_read
    <3> HIDE DEF f
    <3> QED
      BY <2>1, <2>2, <2>3, <3>1, RefuseStep, BeginStep, Zenon
  <2>5. CASE do_write(p, fd, n, res)
    <3> DEFINE pos == IF "a" \in file[f].mode THEN LenOf(file[f].vnode) ELSE file[f].pos
    <3>1. Refuse(res) \/ Begin(p, "write", f, pos, n, res)
      BY <1>2, <2>5, Zenon DEF do_write
    <3>2. pos \in Nat
      BY <2>2, Zenon
    <3> HIDE DEF f, pos
    <3> QED
      BY <2>1, <2>3, <3>1, <3>2, RefuseStep, BeginStep, Zenon
  <2>6. CASE do_getdent(p, fd, res)
    <3>1. Refuse(res) \/ Begin(p, "getdent", f, file[f].pos, 1, res)
      BY <1>2, <2>6, Zenon DEF do_getdent
    <3> HIDE DEF f
    <3> QED
      BY <2>1, <2>2, <2>3, <3>1, RefuseStep, BeginStep, Zenon
  <2> QED
    BY <2>4, <2>5, <2>6, Zenon
<1> QED
  BY <1>1, <1>2, Zenon

\* fork.
LEMMA ForkStep ==
  ASSUME FilesInv, NEW p \in Procs, NEW child \in Procs, NEW res, do_fork(p, child, res)
  PROVE  StepOK
<1> DEFINE u == Usage(p_files, io)
           pf == [p_files EXCEPT ![child] = p_files[p]]
           st == copy_parent_files(p)
<1>1. /\ Held(State, u) /\ p_files \in Tables /\ io \in Sleeping /\ alive \subseteq Procs
      /\ vn_len \in [Regs -> 0..MaxLen] /\ fault \in {"none", "index", "kassert"}
  BY InvNow, Zenon
<1>2. /\ p \in alive /\ child \notin alive /\ p # child /\ Becomes(st)
      /\ p_files' = pf /\ alive' = alive \cup {child} /\ UNCHANGED <<vn_len, io, fault>>
  BY Zenon DEF do_fork, Ready, Running
<1>3. p_files[child] = NoFiles /\ io[child] = Null
  BY <1>2, Zenon DEF FilesInv, ExitedClosed, CallsOpen
<1>4. pf \in Tables /\ Moved(State, u, st, Usage(pf, io))
  BY <1>1, <1>2, <1>3, CopiesAll, Zenon
<1>5. \A q \in Procs : q # child => pf[q] = p_files[q]
  BY <1>1, Zenon DEF Tables
<1> HIDE DEF u, pf, st
<1>6. State' = st /\ Held(st, Usage(pf, io))
  BY <1>2, <1>4, NextState, Zenon DEF Moved
<1>7. Moved(State, Usage(p_files, io), State', Usage(p_files', io'))
  BY <1>2, <1>4, <1>6, Zenon DEF u
<1>8. FilesInv'
  <2>1. /\ Held(State', Usage(p_files', io')) /\ p_files' \in Tables /\ io' \in Sleeping
        /\ alive' \subseteq Procs /\ vn_len' \in [Regs -> 0..MaxLen]
        /\ fault' \in {"none", "index", "kassert"}
    BY <1>1, <1>2, <1>4, <1>6, Zenon
  <2>2. /\ \A q \in Procs : q # child =>
             p_files'[q] = p_files[q] /\ io'[q] = io[q] /\ (q \in alive' <=> q \in alive)
        /\ child \in alive' /\ io'[child] = Null
    BY <1>2, <1>3, <1>5, Zenon
  <2> QED
    BY <2>1, <2>2, InvNext, Zenon
<1>9. \A g \in Slots : Leaked(g)' = Leaked(g)
  BY <1>7, <1>8, NothingLost, Zenon
<1> QED
  BY <1>2, <1>8, <1>9, Zenon DEF StepOK

\* p exits with the calls c in progress and the state st.
LEMMA ExitsStep ==
  ASSUME FilesInv, NEW p \in Procs, NEW c \in Sleeping, NEW st,
         Moved(State, Usage(p_files, io), st, Usage(p_files, c)),
         c[p] = Null, \A q \in Procs : q # p => c[q] = io[q],
         Becomes(CloseAll(st, p)), p_files' = [p_files EXCEPT ![p] = NoFiles],
         alive' = alive \ {p}, io' = c, vn_len' \in [Regs -> 0..MaxLen], fault' = fault
  PROVE  StepOK
<1> DEFINE pf == [p_files EXCEPT ![p] = NoFiles]
           st2 == CloseAll(st, p)
<1>1. p_files \in Tables /\ alive \subseteq Procs /\ fault \in {"none", "index", "kassert"}
  BY InvNow, Zenon
<1>2. Held(st, Usage(p_files, c))
  BY Zenon DEF Moved
<1>3. pf \in Tables /\ Moved(st, Usage(p_files, c), st2, Usage(pf, c))
  BY <1>1, <1>2, ClosesAll, Zenon
<1>4. pf[p] = NoFiles /\ \A q \in Procs : q # p => pf[q] = p_files[q]
  BY <1>1, Zenon DEF Tables
<1> HIDE DEF pf, st2
<1>5. Moved(State, Usage(p_files, io), st2, Usage(pf, c))
  BY <1>3, MovedTwice, Zenon
<1>6. State' = st2 /\ Held(st2, Usage(pf, c)) /\ p_files' = pf
  BY <1>5, NextState, Zenon DEF Moved, st2, pf
<1>7. Moved(State, Usage(p_files, io), State', Usage(p_files', io'))
  BY <1>5, <1>6, Zenon
<1>8. FilesInv'
  <2>1. /\ Held(State', Usage(p_files', io')) /\ p_files' \in Tables /\ io' \in Sleeping
        /\ alive' \subseteq Procs /\ fault' \in {"none", "index", "kassert"}
    BY <1>1, <1>3, <1>6, Zenon
  <2>2. /\ \A q \in Procs : q # p =>
             p_files'[q] = p_files[q] /\ io'[q] = io[q] /\ (q \in alive' <=> q \in alive)
        /\ p_files'[p] = NoFiles /\ io'[p] = Null
    BY <1>4, <1>6, Zenon
  <2> QED
    BY <2>1, <2>2, InvNext, Zenon
<1>9. \A g \in Slots : Leaked(g)' = Leaked(g)
  BY <1>7, <1>8, NothingLost, Zenon
<1> QED
  BY <1>8, <1>9, Zenon DEF StepOK

\* exit.
LEMMA ExitStep ==
  ASSUME FilesInv, NEW p \in Procs, do_exit(p)
  PROVE  StepOK
<1>1. /\ io[p] = Null /\ Becomes(CloseAll(State, p))
      /\ p_files' = [p_files EXCEPT ![p] = NoFiles]
      /\ alive' = alive \ {p} /\ UNCHANGED <<vn_len, io, fault>>
  BY Zenon DEF do_exit, Ready
<1>2. io \in Sleeping /\ Held(State, Usage(p_files, io)) /\ vn_len' \in [Regs -> 0..MaxLen]
  BY <1>1, InvNow, Zenon
<1>3. Moved(State, Usage(p_files, io), State, Usage(p_files, io))
  BY <1>2, MovedNot, Zenon
<1> QED
  BY <1>1, <1>2, <1>3, ExitsStep, Zenon

\* The greater of two numbers.
LEMMA MaxOfTwo ==
  ASSUME NEW a \in Int, NEW b \in Int
  PROVE  Max({a, b}) = (IF a >= b THEN a ELSE b) /\ Max({a, b}) >= a /\ Max({a, b}) >= b
<1>1. CASE a >= b
  <2>1. a \in {a, b} /\ \A y \in {a, b} : a >= y
    BY <1>1
  <2>2. \A x \in {a, b} : (\A y \in {a, b} : x >= y) => x = a
    BY <1>1
  <2> QED
    BY <1>1, <2>1, <2>2 DEF Max
<1>2. CASE ~(a >= b)
  <2>1. b \in {a, b} /\ \A y \in {a, b} : b >= y
    BY <1>2
  <2>2. \A x \in {a, b} : (\A y \in {a, b} : x >= y) => x = b
    BY <1>2, Zenon
  <2> QED
    BY <1>2, <2>1, <2>2, Zenon DEF Max
<1> QED
  BY <1>1, <1>2, Zenon

\* What a vnode's operation returns.
LEMMA Returned ==
  ASSUME FilesInv, NEW r \in Calls, NEW v \in Vnodes, NEW k \in Transferred(r, v)
  PROVE  k \in Int /\ (r.call = "write" => k <= r.n)
<1>1. r.n \in Nat /\ r.pos \in Nat
  BY Zenon DEF Calls
<1>2. CASE r.call = "read" /\ v \in Regs
  <2> DEFINE a == vn_len[v] - r.pos
             m == Min({r.n, a})
  <2>1. vn_len[v] \in Int
    BY <1>2, InvNow
  <2>2. a \in Int
    BY <1>1, <2>1
  <2> HIDE DEF a
  <2>3. m \in Int
    <3>1. CASE r.n <= a
      <4>1. r.n \in {r.n, a} /\ \A y \in {r.n, a} : r.n <= y
        BY <1>1, <2>2, <3>1
      <4>2. Min({r.n, a}) \in {r.n, a}
        BY <4>1, Zenon DEF Min
      <4> QED
        BY <1>1, <2>2, <4>2
    <3>2. CASE ~(r.n <= a)
      <4>1. a \in {r.n, a} /\ \A y \in {r.n, a} : a <= y
        BY <1>1, <2>2, <3>2
      <4>2. Min({r.n, a}) \in {r.n, a}
        BY <4>1, Zenon DEF Min
      <4> QED
        BY <1>1, <2>2, <4>2
    <3> QED
      BY <3>1, <3>2, Zenon
  <2> HIDE DEF m
  <2>4. Max({0, m}) \in Int
    <3>1. Max({0, m}) = IF 0 >= m THEN 0 ELSE m
      BY <2>3, MaxOfTwo
    <3> QED
      BY <2>3, <3>1
  <2>5. Transferred(r, v) = {-1} \cup {Max({0, m})}
    BY <1>2, Zenon DEF Transferred, m, a
  <2> QED
    <3>1. -1 \in Int
      OBVIOUS
    <3> QED
      BY <1>2, <2>4, <2>5, <3>1, Zenon
<1>3. CASE r.call = "getdent"
  BY <1>3 DEF Transferred
<1>4. CASE ~(r.call = "read" /\ v \in Regs) /\ r.call # "getdent"
  <2>1. Transferred(r, v) = {-1} \cup (0..r.n)
    BY <1>4, Zenon DEF Transferred
  <2> QED
    BY <1>1, <2>1
<1> QED
  BY <1>2, <1>3, <1>4, Zenon

\* do_write's assertion fails only for a file that has moved or was past its end.
LEMMA AssertFails ==
  ASSUME NEW at \in Nat, NEW pos \in Nat, NEW size \in Nat, NEW k \in Nat,
         at + k > (IF k > 0 THEN Max({size, pos + k}) ELSE size)
  PROVE  at # pos \/ at > size
<1>1. Max({size, pos + k}) >= pos + k /\ Max({size, pos + k}) \in Int
  BY MaxOfTwo
<1> QED
  BY <1>1

\* The vnode's operation returns to a process that returns, exits or, in getdents,
\* calls it again.
LEMMA FinishStep ==
  ASSUME FilesInv, NEW p \in Procs, NEW k, NEW res, NEW then \in {"return", "exit", "again"},
         then = "again" => io[p].call = "getdent", Finish(p, k, res, then)
  PROVE  StepOK
<1> DEFINE r == io[p]
           f == r.file
           v == file[f].vnode
           pos == NewPos(r, file[f].pos, k)
           len == IF r.call = "write" /\ v \in Regs /\ k > 0
                  THEN [vn_len EXCEPT ![v] = Max({@, r.pos + k})] ELSE vn_len
           st0 == [State EXCEPT !.file[f].pos = pos]
           st == fput(st0, f)
           u == Usage(p_files, io)
           w == Plus(u, f, -1)
           failed == r.call = "write" /\ k >= 0 /\ v \in Regs /\ pos > len[v]
<1>1. /\ Held(State, u) /\ State.file = file /\ p_files \in Tables /\ io \in Sleeping
      /\ alive \subseteq Procs /\ vn_len \in [Regs -> 0..MaxLen]
      /\ fault \in {"none", "index", "kassert"} /\ u \in [Slots -> Nat]
  BY InvNow, UsageType, Zenon
<1>2. p \in alive /\ r # Null /\ k \in Transferred(r, v)
  BY Zenon DEF Finish, Running
<1>3. r \in Calls /\ f \in Slots /\ r.pos \in Nat /\ r.n \in Nat
      /\ r.call \in {"read", "write", "getdent"}
  BY <1>1, <1>2, Zenon DEF Sleeping, Calls
<1>4. u[f] > 1 /\ file[f] # Null
  <2>1. PICK fd \in Fds : p_files[p][fd] = f
    BY <1>2, Zenon DEF FilesInv, CallsOpen
  <2>2. u[f] > 1
    BY <1>1, <1>2, <1>3, <2>1, UsageType, Zenon
  <2>3. u[f] > 0
    BY <1>1, <1>3, <2>2
  <2> QED
    BY <1>1, <1>3, <2>2, <2>3, UsedIsOpen, Zenon
<1>5. file[f] \in OpenFiles /\ v \in Vnodes /\ file[f].pos \in Nat
  BY <1>1, <1>3, <1>4, FileType, Zenon
<1>6. k \in Int /\ (r.call = "write" => k <= r.n /\ r.pos + r.n <= MaxLen)
  <2>1. k \in Int /\ (r.call = "write" => k <= r.n)
    BY <1>2, <1>3, <1>5, Returned, Zenon
  <2> QED
    BY <1>2, <2>1, Zenon DEF FilesInv, CallsOpen
<1>7. pos = file[f].pos + (IF k >= 0 THEN k ELSE 0) /\ pos \in Nat
  <2>1. Max({k, 0}) = IF k >= 0 THEN k ELSE 0
    <3>1. k \in Int /\ 0 \in Int
      BY <1>6
    <3> QED
      BY <3>1, MaxOfTwo, Zenon
  <2> QED
    BY <1>5, <1>6, <2>1 DEF NewPos
<1>8. len \in [Regs -> 0..MaxLen]
  <2>1. CASE r.call = "write" /\ v \in Regs /\ k > 0
    <3>1. vn_len[v] \in 0..MaxLen /\ r.pos + k \in 0..MaxLen
      <4> DEFINE b == r.pos
                 c == r.n
      <4>1. /\ b \in Nat /\ c \in Nat /\ k \in Int /\ k > 0 /\ k <= c /\ b + c <= MaxLen
            /\ MaxLen \in Nat
        BY <1>3, <1>6, <2>1, FilesConstants, Zenon
      <4>2. vn_len[v] \in 0..MaxLen
        BY <1>1, <2>1, Zenon
      <4> HIDE DEF b, c
      <4>3. b + k \in 0..MaxLen
        BY <4>1
      <4> QED
        BY <4>2, <4>3, Zenon DEF b
    <3>2. Max({vn_len[v], r.pos + k}) \in 0..MaxLen
      <4> DEFINE a == vn_len[v]
                 b == r.pos + k
      <4>1. a \in 0..MaxLen /\ b \in 0..MaxLen
        BY <3>1, Zenon
      <4> HIDE DEF a, b
      <4>2. Max({a, b}) = IF a >= b THEN a ELSE b
        <5>1. a \in Int /\ b \in Int
          BY <4>1, FilesConstants
        <5> QED
          BY <5>1, MaxOfTwo, Zenon
      <4> QED
        BY <4>1, <4>2, Zenon DEF a, b
    <3> QED
      BY <1>1, <2>1, <3>2, Zenon
  <2>2. CASE ~(r.call = "write" /\ v \in Regs /\ k > 0)
    BY <1>1, <2>2, Zenon
  <2> QED
    BY <2>1, <2>2, Zenon
<1>9. CASE failed
  <2>1. UNCHANGED <<alive, p_files, file, vn_refs, vn_len, io>> /\ fault' = "kassert"
    BY <1>9, Zenon DEF Finish, Fault
  <2>2. FilesInv'
    BY <2>1, Zenon DEF FilesInv, FilesTypeOK, CallsOpen, ExitedClosed, State
  <2>3. \A g \in Slots : Leaked(g)' = Leaked(g)
    BY <2>1, Zenon DEF Leaked, Users
  <2>4. WritePastEnd
    <3> DEFINE at == file[f].pos
               size == vn_len[v]
    <3>1. at \in Nat /\ r.pos \in Nat /\ size \in Nat /\ k \in Nat
      <4>1. size \in 0..MaxLen /\ MaxLen \in Nat /\ k \in Int /\ k >= 0
        BY <1>1, <1>6, <1>9, FilesConstants, Zenon
      <4> HIDE DEF size
      <4>2. size \in Nat /\ k \in Nat
        BY <4>1
      <4> QED
        BY <1>3, <1>5, <4>2, Zenon
    <3>2. len[v] = IF k > 0 THEN Max({size, r.pos + k}) ELSE size
      BY <1>1, <1>9, Zenon
    <3>3. at + k > (IF k > 0 THEN Max({size, r.pos + k}) ELSE size)
      BY <1>7, <1>9, <3>1, <3>2, Zenon
    <3>4. at # r.pos \/ at > size
      <4> DEFINE q == r.pos
      <4>1. q \in Nat /\ at + k > (IF k > 0 THEN Max({size, q + k}) ELSE size)
        BY <3>1, <3>3, Zenon
      <4> HIDE DEF at, size, q
      <4>2. at # q \/ at > size
        BY <3>1, <4>1, AssertFails, Zenon
      <4> QED
        BY <4>2, Zenon DEF q
    <3> QED
      BY <1>2, <1>9, <3>4, Zenon DEF WritePastEnd
  <2> QED
    BY <2>2, <2>3, <2>4, Zenon DEF StepOK
<1>10. CASE ~failed
  <2>1. /\ vn_len' = len
        /\ Becomes(CASE then = "return" -> st
                     [] then = "exit" -> CloseAll(st, p)
                     [] then = "again" -> fref(st, f))
        /\ io' = [io EXCEPT ![p] = IF then = "again" THEN [r EXCEPT !.pos = pos] ELSE Null]
        /\ p_files' = IF then = "exit" THEN [p_files EXCEPT ![p] = NoFiles] ELSE p_files
        /\ alive' = IF then = "exit" THEN alive \ {p} ELSE alive
        /\ fault' = fault
    BY <1>10, Zenon DEF Finish, AfterIo
  <2>2. Moved(State, u, st0, u)
    <3> HIDE DEF f, pos, u
    <3> QED
      BY <1>1, <1>3, <1>4, <1>7, PosMoves, Zenon
  <2>3. Moved(State, u, st, w) /\ Moved(st0, u, st, w)
    <3>1. Held(st0, u) /\ u[f] > 0
      BY <1>1, <1>3, <1>4, <2>2 DEF Moved
    <3> HIDE DEF st0, f, u
    <3>2. Moved(st0, u, st, w)
      BY <1>3, <3>1, RefPut, Zenon
    <3> QED
      BY <2>2, <3>2, MovedTwice
  <2> DEFINE c == [io EXCEPT ![p] = Null]
  <2>4. /\ c \in Sleeping /\ Usage(p_files, c) = w /\ c[p] = Null
        /\ \A q \in Procs : q # p => c[q] = io[q]
    <3>1. c \in Sleeping /\ Usage(p_files, c) = w
      BY <1>1, <1>2, UsageReturn, Zenon
    <3> QED
      BY <1>1, <3>1, Zenon DEF Sleeping
  <2>5. CASE then = "return"
    <3>1. Becomes(st) /\ io' = c /\ p_files' = p_files /\ alive' = alive
      BY <2>1, <2>5, Zenon
    <3>2. Held(st, w)
      BY <2>3, Zenon DEF Moved
    <3> HIDE DEF st, w, u, c, len
    <3>3. State' = st
      BY <3>1, <3>2, NextState, Zenon
    <3>4. Moved(State, Usage(p_files, io), State', Usage(p_files', io'))
      BY <2>3, <2>4, <3>1, <3>3, Zenon DEF u
    <3>5. Held(State', Usage(p_files', io'))
      BY <3>4, Zenon DEF Moved
    <3>6. FilesInv'
      BY <1>1, <1>2, <1>8, <2>1, <2>4, <3>1, <3>5, InvNext, Zenon
    <3>7. \A g \in Slots : Leaked(g)' = Leaked(g)
      BY <3>4, <3>6, NothingLost, Zenon
    <3> QED
      BY <2>1, <3>6, <3>7, Zenon DEF StepOK
  <2>6. CASE then = "exit"
    <3>1. /\ Becomes(CloseAll(st, p)) /\ io' = c /\ alive' = alive \ {p}
          /\ p_files' = [p_files EXCEPT ![p] = NoFiles]
      BY <2>1, <2>6, Zenon
    <3>2. Moved(State, Usage(p_files, io), st, Usage(p_files, c))
      BY <2>3, <2>4, Zenon
    <3> HIDE DEF st, w, u, c, len
    <3> QED
      BY <1>8, <2>1, <2>4, <3>1, <3>2, ExitsStep, Zenon
  <2>7. CASE then = "again"
    <3> DEFINE r2 == [r EXCEPT !.pos = pos]
    <3>1. Becomes(fref(st, f)) /\ io' = [io EXCEPT ![p] = r2] /\ p_files' = p_files /\ alive' = alive
      BY <2>1, <2>7, Zenon
    <3>2. r2 \in Calls /\ r2.file = f /\ r2.call = "getdent" /\ r2 # Null
      BY <1>3, <1>7, <2>7, FilesConstants, Zenon DEF Calls
    <3> HIDE DEF r2
    <3>3. io' \in Sleeping /\ Usage(p_files', io') = u
      BY <1>1, <1>2, <3>1, <3>2, UsageAgain, Zenon
    <3>4. w[f] > 0 /\ Plus(w, f, 1) = u
      BY <1>1, <1>3, <1>4, PlusForth, Zenon
    <3>5. Held(st, w)
      BY <2>3, Zenon DEF Moved
    <3> HIDE DEF w, st, u
    <3>6. st.file[f] # Null
      BY <1>3, <3>4, <3>5, UsedIsOpen, Zenon
    <3>7. Moved(st, w, fref(st, f), u)
      <4> HIDE DEF f
      <4>1. Moved(st, w, fref(st, f), Plus(w, f, 1))
        BY <1>3, <3>5, <3>6, RefTaken, Zenon
      <4> QED
        BY <3>4, <4>1, Zenon
    <3>8. Moved(State, u, fref(st, f), u)
      BY <2>3, <3>7, MovedTwice
    <3>9. State' = fref(st, f)
      <4>1. Held(fref(st, f), u)
        BY <3>8, Zenon DEF Moved
      <4> QED
        BY <3>1, <4>1, NextState, Zenon
    <3>10. Moved(State, Usage(p_files, io), State', Usage(p_files', io'))
      BY <3>3, <3>8, <3>9, Zenon DEF u
    <3>11. FilesInv'
      <4>1. Held(State', Usage(p_files', io'))
        BY <3>10, Zenon DEF Moved
      <4>2. io'[p] = r2 /\ \A q \in Procs : q # p => io'[q] = io[q]
        BY <1>1, <3>1, Zenon DEF Sleeping
      <4>3. \E fd \in Fds : p_files'[p][fd] = io'[p].file
        BY <1>2, <3>1, <3>2, <4>2, ZenonT(40) DEF FilesInv, CallsOpen
      <4> HIDE DEF len
      <4> QED
        BY <1>1, <1>2, <1>8, <2>1, <3>1, <3>2, <3>3, <4>1, <4>2, <4>3, InvNext, Zenon
    <3>12. \A g \in Slots : Leaked(g)' = Leaked(g)
      BY <3>10, <3>11, NothingLost, Zenon
    <3> QED
      BY <2>1, <3>11, <3>12, Zenon DEF StepOK
  <2> QED
    BY <2>5, <2>6, <2>7, Zenon
<1> QED
  BY <1>9, <1>10, Zenon

(***************************************************************************)
(* System calls                                                            *)
(***************************************************************************)

\* A call that a wrapper makes.
LEMMA DispatchStep ==
  ASSUME FilesInv, NEW p \in Procs, NEW steps, NEW res, syscall_dispatch(p, steps, res)
  PROVE  StepOK
<1>1. CASE \E flags \in Flags, v \in Vnodes \cup {Null} : do_open(p, flags, v, res)
  BY <1>1, OpenStep, Zenon
<1>2. CASE \E fd \in Fds : do_close(p, fd, res)
  BY <1>2, CloseStep, Zenon
<1>3. CASE \E fd \in Fds : do_dup(p, fd, res)
  BY <1>3, DupStep, Zenon
<1>4. CASE \E fd \in Fds, nfd \in Fds \cup {NFILES} : do_dup2(p, fd, nfd, res)
  BY <1>4, Dup2Step, Zenon
<1>5. CASE \E fd \in Fds, seek \in Seeks : do_lseek(p, fd, seek[1], seek[2], res)
  <2>1. \A seek \in Seeks : seek[1] \in Int
    BY FilesConstants, Zenon
  <2> QED
    BY <1>5, <2>1, SeekStep, Zenon
<1>6. CASE \E fd \in Fds, n \in Sizes : do_read(p, fd, n, res) \/ do_write(p, fd, n, res)
  <2>1. \A n \in Sizes : n \in Nat
    BY FilesConstants, Zenon
  <2> QED
    BY <1>6, <2>1, CallStep, Zenon
<1>7. CASE \E fd \in Fds : do_getdent(p, fd, res)
  BY <1>7, CallStep, Zenon
<1>8. CASE \E child \in Procs : do_fork(p, child, res)
  BY <1>8, ForkStep, Zenon
<1> QED
  BY <1>1, <1>2, <1>3, <1>4, <1>5, <1>6, <1>7, <1>8, Zenon DEF syscall_dispatch

\* Every step of the system.
LEMMA SystemStep ==
  ASSUME FilesInv, [SysNext]_svars
  PROVE  StepOK
<1>1. CASE UNCHANGED svars
  BY <1>1, Unchanged, Zenon DEF svars
<1>2. ASSUME NEW p \in Procs, syscall_handler(p)
      PROVE  StepOK
  <2>1. (UNCHANGED vars) \/ \E steps \in FileWrappers, res \in Results : syscall_dispatch(p, steps, res)
    BY <1>2, Zenon DEF syscall_handler
  <2> QED
    BY <2>1, Unchanged, DispatchStep, Zenon
<1>3. ASSUME NEW p \in Procs, OtherCall(p) \/ Cancel(p)
      PROVE  StepOK
  BY <1>3, Unchanged, Zenon DEF OtherCall, Cancel
<1>4. ASSUME NEW p \in Procs, NEW k, Wake(p, k)
      PROVE  StepOK
  <2>1. PICK res \in Results : Finish(p, k, res, handler_end(p))
    BY <1>4, Zenon DEF Wake
  <2>2. handler_end(p) \in {"return", "exit", "again"} /\ handler_end(p) # "again"
    BY Zenon DEF handler_end
  <2> QED
    BY <2>1, <2>2, FinishStep, Zenon
<1>5. ASSUME NEW p \in Procs, NEW k, sys_getdents_loop(p, k)
      PROVE  StepOK
  BY <1>5, FinishStep, Zenon DEF sys_getdents_loop
<1>6. ASSUME NEW p \in Procs, sys_exit(p)
      PROVE  StepOK
  BY <1>6, ExitStep, Zenon DEF sys_exit
<1> QED
  BY <1>1, <1>2, <1>3, <1>4, <1>5, <1>6, Zenon DEF SysNext

\* The invariant holds as the first process starts.
LEMMA InitInv ==
  ASSUME SysInit
  PROVE  FilesInv
<1> DEFINE u == Usage(p_files, io)
<1>1. /\ \E p \in Procs : alive = {p}
      /\ p_files = [p \in Procs |-> NoFiles] /\ file = [f \in Slots |-> Null]
      /\ vn_refs = [v \in Vnodes |-> 0] /\ vn_len = [v \in Regs |-> 0]
      /\ io = [p \in Procs |-> Null] /\ fault = "none"
  BY Zenon DEF SysInit, Init
<1>2. FilesTypeOK /\ CallsOpen /\ ExitedClosed /\ p_files \in Tables /\ io \in Sleeping
  BY <1>1, FilesConstants DEF FilesTypeOK, CallsOpen, ExitedClosed, NoFiles, Tables, Sleeping
<1>3. ASSUME NEW f \in Slots
      PROVE  u[f] = 0
  <2>1. Uses(p_files, f) = {}
    BY <1>1, FilesConstants, Zenon DEF Uses, NoFiles
  <2>2. Calling(io, f) = {}
    BY <1>1, Zenon DEF Calling
  <2>3. Cardinality({}) = 0
    BY FS_EmptySet, Zenon
  <2> QED
    BY <2>1, <2>2, <2>3 DEF Usage
<1>4. ASSUME NEW v \in Vnodes
      PROVE  vn_refs[v] = Cardinality(On(file, v))
  <2>1. On(file, v) = {}
    BY <1>1, Zenon DEF On
  <2> QED
    BY <1>1, <2>1, FS_EmptySet, Zenon
<1>5. Held(State, u)
  <2>1. State = [file |-> file, refs |-> vn_refs]
    BY Zenon DEF State
  <2>2. file \in [Slots -> OpenFiles \cup {Null}] /\ vn_refs \in [Vnodes -> Nat]
    BY <1>1, Zenon
  <2>3. u \in [Slots -> Nat]
    BY <1>2, UsageType, Zenon
  <2> HIDE DEF u
  <2> QED
    BY <1>1, <1>3, <1>4, <2>1, <2>2, <2>3, Zenon DEF Held
<1> QED
  BY <1>2, <1>5, Zenon DEF FilesInv

\* The invariant: counts of files cover their users, counts of vnodes are those of
\* open files, a process that sleeps in a call has its file open, and one that has
\* exited has nothing open.
THEOREM FilesInvariant == Spec => []FilesInv
<1>1. SysInit => FilesInv
  BY InitInv, Zenon
<1>2. FilesInv /\ [SysNext]_svars => FilesInv'
  BY SystemStep, Zenon DEF StepOK
<1> QED
  BY <1>1, <1>2, PTL DEF Spec

\* fput never frees a file that a descriptor or a sleeping call still uses, for any
\* number of processes, descriptors and files.
THEOREM UsedFilesAreHeld == Spec => []FilesHeld
<1>1. FilesInv => FilesHeld
  <2> SUFFICES ASSUME FilesInv, NEW f \in Slots, Users(f) > 0
               PROVE  file[f] # Null /\ file[f].refs >= Users(f)
    BY Zenon DEF FilesHeld
  <2>1. Held(State, Usage(p_files, io)) /\ State.file = file
    BY InvNow, Zenon
  <2>2. Usage(p_files, io)[f] = Users(f)
    BY Zenon DEF Usage, Users, Uses, Calling
  <2> QED
    BY <2>1, <2>2 DEF Held
<1> QED
  BY <1>1, FilesInvariant, PTL

\* A vnode is held once for each file that is open on it: every error path of
\* do_open puts what it got.
THEOREM OpenVnodesAreHeld == Spec => []VnodesHeld
<1>1. FilesInv => VnodesHeld
  BY Zenon DEF FilesInv, Held, State, On, VnodesHeld
<1> QED
  BY <1>1, FilesInvariant, PTL

\* References to files are lost in do_dup2 and nowhere else.
THEOREM LeaksOnlyInDup2 == Spec => OnlyDup2Leaks
<1>1. FilesInv /\ [SysNext]_svars =>
        [file' # file => \A f \in Slots : Leaked(f)' # Leaked(f) =>
           /\ Leaked(f)' = Leaked(f) + 1
           /\ \E p \in Procs, ofd, nfd \in Fds :
                /\ Dup2Loses(p, ofd, nfd) /\ p_files[p][nfd] = f
                /\ p_files'[p] = [p_files[p] EXCEPT ![nfd] = p_files[p][ofd]]
                /\ io[p] = Null]_vars
  BY SystemStep, Zenon DEF StepOK, LostByDup2
<1> QED
  BY <1>1, FilesInvariant, PTL DEF Spec, OnlyDup2Leaks

\* do_write's assertion about the position fails only if the position was moved
\* while the write slept, or was past the end before and nothing was written.
THEOREM WritesStayInFile == Spec => WritesEndInFile
<1>1. FilesInv /\ [SysNext]_svars =>
        [fault = "none" /\ fault' = "kassert" =>
           \E p \in Procs :
             /\ io[p] # Null /\ io[p].call = "write"
             /\ LET r == file[io[p].file]
                IN  r.pos # io[p].pos \/ r.pos > vn_len[r.vnode]]_vars
  BY SystemStep, Zenon DEF StepOK, WritePastEnd
<1> QED
  BY <1>1, FilesInvariant, PTL DEF Spec, WritesEndInFile
=============================================================================
