------------------------------- MODULE Files -------------------------------
(***************************************************************************)
(* Open files: the calls of kernel/fs/vfs_syscall.c and kernel/fs/open.c   *)
(* that work on descriptors, and what do_fork and proc_cleanup do to them. *)
(*                                                                         *)
(* A file_t is shared by dup and fork; its count says how many descriptors *)
(* and calls in progress use it.  A call on a vnode may sleep: do_read,    *)
(* do_write and do_getdent are two steps each, and the other processes run *)
(* in between.  Everything else is one step.  How a path leads to a vnode  *)
(* is in module Namev; here open_namev finds any vnode, or none.           *)
(***************************************************************************)
EXTENDS Integers, FiniteSets, FiniteSetsExt

CONSTANTS
  Procs,
  NFILES,             \* descriptors of a process
  Slots,              \* the file_ts there may be at a time
  Regs, Dirs, Chrs,   \* the vnodes: regular files, directories, devices
  MaxLen,             \* bound: lengths and positions
  MaxLeaks,           \* bound: references that nobody has
  Flags,              \* the flags that files are opened with
  Sizes,              \* numbers of bytes
  Seeks,              \* offsets and what they are from
  Null

Fds == 0..(NFILES - 1)
Vnodes == Regs \cup Dirs \cup Chrs

\* A file_t that is open, and a call that sleeps in its vnode's operation.
OpenFiles == [refs : Nat \ {0}, mode : SUBSET {"r", "w", "a"}, vnode : Vnodes, pos : Nat]
Calls == [call : {"read", "write", "getdent"}, file : Slots, pos : Nat, n : Nat]

ASSUME FilesConstants ==
  /\ NFILES \in Nat \ {0} /\ IsFiniteSet(Procs) /\ IsFiniteSet(Slots)
  /\ Null \notin Slots \cup Vnodes /\ Null \notin OpenFiles /\ Null \notin Calls
  /\ MaxLen \in Nat /\ MaxLeaks \in Nat
  /\ Flags \subseteq SUBSET {"WRONLY", "RDWR", "CREAT", "APPEND"}
  /\ Sizes \subseteq Nat /\ Seeks \subseteq Int \X {"SET", "CUR", "END", "other"}

VARIABLES
  alive,      \* the processes that run
  p_files,    \* per process and descriptor, a file or Null
  file,       \* the file_ts that are allocated
  vn_refs,    \* per vnode, its count
  vn_len,     \* per regular file, its length
  io,         \* per process, the read, write or getdent in progress
  fault       \* "none", or what has stopped the kernel

vars == <<alive, p_files, file, vn_refs, vn_len, io, fault>>

NoFiles == [fd \in Fds |-> Null]

\* What a do_... function returns: "end" is 0 from do_getdent, "wait" means that the
\* caller sleeps and returns when the vnode's operation does.
Results == {"ok", "end", "error", "wait"}

Running(p) == fault = "none" /\ p \in alive
Ready(p) == Running(p) /\ io[p] = Null

(***************************************************************************)
(* References.  fget, fref and fput are not in the repository's source:    *)
(* the last fput of a file puts its vnode.                                 *)
(***************************************************************************)

State == [file |-> file, refs |-> vn_refs]

fref(st, f) == [st EXCEPT !.file[f].refs = @ + 1]

vput(st, v) == [st EXCEPT !.refs[v] = @ - 1]

fput(st, f) ==
  LET r == st.file[f]
      gone == [st EXCEPT !.file[f] = Null]
  IN  IF r.refs > 1 THEN [st EXCEPT !.file[f].refs = @ - 1]
      ELSE IF r.vnode = Null THEN gone ELSE vput(gone, r.vnode)

Becomes(st) == file' = st.file /\ vn_refs' = st.refs

FreeSlots == {f \in Slots : file[f] = Null}

\* The call fails and leaves everything as it is; its result is the last parameter
\* of a call.
Refuse(res) == res = "error" /\ UNCHANGED <<alive, p_files, file, vn_refs, vn_len, io, fault>>

Fault(res, what) ==
  /\ res = "wait"
  /\ fault' = what
  /\ UNCHANGED <<alive, p_files, file, vn_refs, vn_len, io>>

\* Who uses a file, descriptors and calls in progress, and the references that
\* nobody has.
Users(f) ==
  Cardinality({x \in Procs \X Fds : p_files[x[1]][x[2]] = f})
  + Cardinality({p \in Procs : io[p] # Null /\ io[p].file = f})
Leaked(f) == IF file[f] = Null THEN 0 ELSE file[f].refs - Users(f)
Leaks == MapThenSumSet(Leaked, Slots)

(***************************************************************************)
(* open, close, dup, dup2, lseek                                           *)
(***************************************************************************)

\* The lowest free descriptor, or -1 for -EMFILE.
get_empty_fd(p) ==
  LET free == {fd \in Fds : p_files[p][fd] = Null}
  IN  IF free = {} THEN -1 ELSE Min(free)

\* FMODE_READ comes with no flags at all, or with O_RDWR.
ModeOf(flags) ==
  (IF flags = {} \/ "RDWR" \in flags THEN {"r"} ELSE {})
  \cup (IF flags \cap {"WRONLY", "RDWR"} # {} THEN {"w"} ELSE {})
  \cup (IF "APPEND" \in flags THEN {"a"} ELSE {})

\* A variant of what do_open does with a vnode it cannot open for writing: it
\* keeps the reference.
OpenFile_KeepVnode(st, f, v, flags) ==
  IF v \in Dirs /\ flags \cap {"WRONLY", "RDWR"} # {} THEN fput(st, f)
  ELSE [st EXCEPT !.file[f].vnode = v]

\* open_namev has found v, with a reference: a directory is not opened for
\* writing.
OpenFile(st, f, v, flags) ==
  IF v \in Dirs /\ flags \cap {"WRONLY", "RDWR"} # {} THEN fput(vput(st, v), f)
  ELSE [st EXCEPT !.file[f].vnode = v]

\* Without a vnode the file is put.
OpenFails(st, f) == fput(st, f)

do_open(p, flags, v, res) ==
  LET fd == get_empty_fd(p)
      f == CHOOSE g \in FreeSlots : TRUE
      fresh == [refs |-> 1, mode |-> ModeOf(flags), vnode |-> Null, pos |-> 0]
      st == [State EXCEPT !.file[f] = fresh]
      after == IF v = Null THEN OpenFails(st, f)
               ELSE OpenFile([st EXCEPT !.refs[v] = @ + 1], f, v, flags)
      opened == after.file[f] # Null
  IN  /\ Ready(p)
      /\ IF {"WRONLY", "RDWR"} \subseteq flags THEN Refuse(res)
         ELSE IF fd < 0 THEN Fault(res, "index")
         ELSE /\ FreeSlots # {}
              /\ Becomes(after)
              /\ p_files' = [p_files EXCEPT ![p][fd] = IF opened THEN f ELSE Null]
              /\ res = (IF opened THEN "ok" ELSE "error")
              /\ UNCHANGED <<alive, vn_len, io, fault>>

do_close(p, fd, res) ==
  /\ Ready(p)
  /\ IF fd \notin Fds \/ p_files[p][fd] = Null THEN Refuse(res)
     ELSE /\ Becomes(fput(State, p_files[p][fd]))
          /\ p_files' = [p_files EXCEPT ![p][fd] = Null]
          /\ res = "ok"
          /\ UNCHANGED <<alive, vn_len, io, fault>>

\* p_files[fd] of the caller, with its index checked by fget.
FileOf(p, fd) == IF fd \in Fds THEN p_files[p][fd] ELSE Null

do_dup(p, fd, res) ==
  LET f == FileOf(p, fd)
      nfd == get_empty_fd(p)
  IN  /\ Ready(p)
      /\ IF f = Null THEN Refuse(res)
         ELSE IF nfd < 0 THEN Fault(res, "index")
         ELSE /\ Becomes(fref(State, f))
              /\ p_files' = [p_files EXCEPT ![p][nfd] = f]
              /\ res = "ok"
              /\ UNCHANGED <<alive, vn_len, io, fault>>

\* The reference that fget took is the new descriptor's; it is given back if
\* the descriptor is the old one.
Dup2Ref(st, f, ofd, nfd) == IF ofd = nfd THEN fput(fref(st, f), f) ELSE fref(st, f)

\* The file that was open as nfd is not closed: its reference is lost.
Dup2Loses(p, ofd, nfd) == ofd # nfd /\ p_files[p][nfd] # Null

do_dup2(p, ofd, nfd, res) ==
  LET f == FileOf(p, ofd)
  IN  /\ Ready(p)
      /\ IF f = Null \/ nfd \notin Fds THEN Refuse(res)
         ELSE /\ Dup2Loses(p, ofd, nfd) => Leaks < MaxLeaks
              /\ Becomes(Dup2Ref(State, f, ofd, nfd))
              /\ p_files' = [p_files EXCEPT ![p][nfd] = f]
              /\ res = "ok"
              /\ UNCHANGED <<alive, vn_len, io, fault>>

LenOf(v) == IF v \in Regs THEN vn_len[v] ELSE 0

\* A negative position is refused, one beyond the end is not.
do_lseek(p, fd, offset, whence, res) ==
  LET f == FileOf(p, fd)
      new_pos == CASE whence = "SET" -> offset
                   [] whence = "CUR" -> file[f].pos + offset
                   [] whence = "END" -> LenOf(file[f].vnode) + offset
                   [] OTHER -> -1
  IN  /\ Ready(p)
      /\ IF f = Null THEN Refuse(res)
         ELSE IF new_pos < 0 THEN Refuse(res)
         ELSE /\ new_pos <= MaxLen
              /\ file' = [file EXCEPT ![f].pos = new_pos]
              /\ res = "ok"
              /\ UNCHANGED <<alive, p_files, vn_refs, vn_len, io, fault>>

(***************************************************************************)
(* read, write and getdent.  The vnode's operation is given the position   *)
(* of the file as it was when it was called.                               *)
(***************************************************************************)

\* fget, and the vnode's operation begins.
Begin(p, call, f, pos, n, res) ==
  /\ res = "wait"
  /\ pos + n <= MaxLen
  /\ file' = [fref(State, f).file EXCEPT ![f].pos = pos]
  /\ io' = [io EXCEPT ![p] = [call |-> call, file |-> f, pos |-> pos, n |-> n]]
  /\ UNCHANGED <<alive, p_files, vn_refs, vn_len, fault>>

do_read(p, fd, n, res) ==
  LET f == FileOf(p, fd)
  IN  /\ Ready(p)
      /\ IF f = Null THEN Refuse(res)
         ELSE IF file[f].vnode \in Dirs THEN Refuse(res)
         ELSE IF "r" \notin file[f].mode THEN Refuse(res)
         ELSE Begin(p, "read", f, file[f].pos, n, res)

do_write(p, fd, n, res) ==
  LET f == FileOf(p, fd)
      pos == IF "a" \in file[f].mode THEN LenOf(file[f].vnode) ELSE file[f].pos
  IN  /\ Ready(p)
      /\ IF f = Null THEN Refuse(res)
         ELSE IF "w" \notin file[f].mode THEN Refuse(res)
         ELSE Begin(p, "write", f, pos, n, res)

do_getdent(p, fd, res) ==
  LET f == FileOf(p, fd)
  IN  /\ Ready(p)
      /\ IF f = Null THEN Refuse(res)
         ELSE IF file[f].vnode \notin Dirs THEN Refuse(res)
         ELSE Begin(p, "getdent", f, file[f].pos, 1, res)

\* A regular file's read and write (external), and those of devices
\* (special_file_read, special_file_write): how much is transferred, -1 for an
\* error.
Transferred(r, v) ==
  {-1} \cup
  CASE r.call = "read" /\ v \in Regs -> {Max({0, Min({r.n, vn_len[v] - r.pos})})}
    [] r.call = "getdent" -> {0, 1}
    [] OTHER -> 0..r.n

\* A variant that adds what was asked for.
NewPos_Asked(r, pos, k) == pos + r.n

\* What was transferred is added to the position as it is now.
NewPos(r, pos, k) == pos + Max({k, 0})

\* A variant that does not give the reference back if the operation fails.
AfterIo_Leak(st, f, k) == IF k < 0 THEN st ELSE fput(st, f)

AfterIo(st, f, k) == fput(st, f)

\* Every descriptor of a process is closed, as proc_cleanup does: closed[n] is the
\* state when the first n are.
CloseAll(st, p) ==
  LET closed[n \in 0..NFILES] ==
        IF n = 0 THEN st
        ELSE IF p_files[p][n - 1] = Null THEN closed[n - 1]
        ELSE fput(closed[n - 1], p_files[p][n - 1])
  IN  closed[NFILES]

\* The vnode's operation returns k: the position moves, and the file is put.
\* do_write asserts that it has not moved past the end of a regular file;
\* do_getdent hides an error.  The process returns from the call, exits (it was
\* cancelled), or makes the call again.
Finish(p, k, res, then) ==
  LET r == io[p]
      v == file[r.file].vnode
      pos == NewPos(r, file[r.file].pos, k)
      len == IF r.call = "write" /\ v \in Regs /\ k > 0
             THEN [vn_len EXCEPT ![v] = Max({@, r.pos + k})] ELSE vn_len
      st == AfterIo([State EXCEPT !.file[r.file].pos = pos], r.file, k)
  IN  /\ Running(p)
      /\ r # Null
      /\ k \in Transferred(r, v)
      /\ res = (IF r.call = "getdent" THEN IF k = 0 THEN "end" ELSE "ok"
                ELSE IF k < 0 THEN "error" ELSE "ok")
      /\ IF r.call = "write" /\ k >= 0 /\ v \in Regs /\ pos > len[v] THEN Fault("wait", "kassert")
         ELSE /\ vn_len' = len
              /\ Becomes(CASE then = "return" -> st
                           [] then = "exit" -> CloseAll(st, p)
                           [] then = "again" -> fref(st, r.file))
              /\ io' = [io EXCEPT ![p] = IF then = "again" THEN [r EXCEPT !.pos = pos] ELSE Null]
              /\ p_files' = IF then = "exit" THEN [p_files EXCEPT ![p] = NoFiles] ELSE p_files
              /\ alive' = IF then = "exit" THEN alive \ {p} ELSE alive
              /\ then = "again" => pos < MaxLen
              /\ UNCHANGED fault

(***************************************************************************)
(* Processes                                                               *)
(***************************************************************************)

\* A variant of fork that takes no references.
copy_parent_files_NoRef(p) == State

\* The loop over the descriptors: copied[n] is the state when the first n are.
copy_parent_files(p) ==
  LET copied[n \in 0..NFILES] ==
        IF n = 0 THEN State
        ELSE IF p_files[p][n - 1] = Null THEN copied[n - 1]
        ELSE fref(copied[n - 1], p_files[p][n - 1])
  IN  copied[NFILES]

do_fork(p, child, res) ==
  /\ Ready(p) /\ child \notin alive
  /\ Becomes(copy_parent_files(p))
  /\ p_files' = [p_files EXCEPT ![child] = p_files[p]]
  /\ alive' = alive \cup {child}
  /\ res = "ok"
  /\ UNCHANGED <<vn_len, io, fault>>

do_exit(p) ==
  /\ Ready(p)
  /\ Becomes(CloseAll(State, p))
  /\ p_files' = [p_files EXCEPT ![p] = NoFiles]
  /\ alive' = alive \ {p}
  /\ UNCHANGED <<vn_len, io, fault>>

Init ==
  /\ \E p \in Procs : alive = {p}
  /\ p_files = [p \in Procs |-> NoFiles]
  /\ file = [f \in Slots |-> Null]
  /\ vn_refs = [v \in Vnodes |-> 0]
  /\ vn_len = [v \in Regs |-> 0]
  /\ io = [p \in Procs |-> Null]
  /\ fault = "none"

(***************************************************************************)
(* Properties                                                              *)
(***************************************************************************)

\* Every variable has its type.
FilesTypeOK ==
  /\ alive \subseteq Procs
  /\ p_files \in [Procs -> [Fds -> Slots \cup {Null}]]
  /\ file \in [Slots -> OpenFiles \cup {Null}]
  /\ vn_refs \in [Vnodes -> Nat] /\ vn_len \in [Regs -> 0..MaxLen]
  /\ io \in [Procs -> Calls \cup {Null}]
  /\ fault \in {"none", "index", "kassert"}

\* A file that a descriptor or a call in progress refers to is allocated and
\* has a reference for each of them, however it is dupped, inherited, closed and
\* given up at exit while other processes sleep in a read or write of it.
FilesHeld ==
  \A f \in Slots : Users(f) > 0 => file[f] # Null /\ file[f].refs >= Users(f)

\* References are lost only where dup2 drops the file that was open as its new
\* descriptor: on every other path, errors included, each fget has its fput.
OnlyDup2Leaks ==
  [][file' # file => \A f \in Slots : Leaked(f)' # Leaked(f) =>
       /\ Leaked(f)' = Leaked(f) + 1
       /\ \E p \in Procs, ofd, nfd \in Fds :
            /\ Dup2Loses(p, ofd, nfd) /\ p_files[p][nfd] = f
            /\ p_files'[p] = [p_files[p] EXCEPT ![nfd] = p_files[p][ofd]]
            /\ io[p] = Null]_vars

\* A vnode is held once by each file that is open on it, and by no call that is
\* over: open's error paths put what they got.
VnodesHeld ==
  \A v \in Vnodes :
    vn_refs[v] = Cardinality({f \in Slots : file[f] # Null /\ file[f].vnode = v})

\* do_write's KASSERT that "file->f_pos <= file->f_vnode->vn_len" fails only if the
\* position was moved while the write was asleep (it is added to as it is then),
\* or was past the end before, by a seek, and nothing was written.
WritesEndInFile ==
  [][fault = "none" /\ fault' = "kassert" =>
       \E p \in Procs :
         /\ io[p] # Null /\ io[p].call = "write"
         /\ LET r == file[io[p].file]
            IN  r.pos # io[p].pos \/ r.pos > vn_len[r.vnode]]_vars
=============================================================================
