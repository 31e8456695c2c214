------------------------------- MODULE Namev -------------------------------
(***************************************************************************)
(* Names: dir_namev, open_namev and lookup of kernel/fs/namev.c and the    *)
(* calls of kernel/fs/vfs_syscall.c that take paths.                       *)
(*                                                                         *)
(* Every operation of a vnode may sleep, so that a call is one step for    *)
(* each lookup and one for what it does in the directory it has found, and *)
(* other processes make and remove names in between.  A path is a sequence *)
(* of names and slashes; its positions are those of the source.            *)
(***************************************************************************)
EXTENDS Integers, FiniteSets, SequencesExt

CONSTANTS
  Procs,
  Inodes, Root,      \* what vnodes stand for; the root directory
  Names,             \* what entries of directories are called
  LongNames,         \* names longer than NAME_LEN
  Paths,             \* the paths that calls are given
  ToPaths,           \* the new paths of link and rename
  InitNode,          \* what the file system holds
  MaxLeaks,          \* bound: references that nobody has
  MaxCalls,          \* bound: calls
  Null

Slash == "/"

ASSUME NamevConstants ==
  /\ Root \in Inodes /\ IsFiniteSet(Inodes) /\ MaxLeaks \in Nat /\ MaxCalls \in Nat
  /\ ToPaths \subseteq Paths /\ InitNode[Root].kind = "dir"
  /\ Null \notin Inodes \cup Procs
  /\ Names \cap ({Slash, ".", ".."} \cup LongNames) = {}
  /\ \A path \in Paths :
       /\ path \in Seq(Names \cup LongNames \cup {Slash, ".", ".."})
       /\ \A i \in 1..(Len(path) - 1) : Slash \in {path[i], path[i + 1]}

VARIABLES
  node,     \* the inodes: their kind, number of links, and entries and parent
  refs,     \* per inode, the references to its vnode
  cwd,      \* per process, its working directory, Null if it is dead
  open,     \* per process, a file that it has open
  op,       \* per process, the call it is in
  calls,    \* how many calls have begun
  fault     \* "none", or what has stopped the kernel

vars == <<node, refs, cwd, open, op, calls, fault>>

Running(p) == fault = "none" /\ cwd[p] # Null

(***************************************************************************)
(* Vnodes and file systems, which are not in the repository's source.      *)
(* vput of the last reference deletes a file without links.  A file        *)
(* system finds ".." and "." itself; it refuses names that exist, links to *)
(* directories and the removal of what is not there; a directory that was  *)
(* removed has no entries and takes none.                                  *)
(***************************************************************************)

State == [node |-> node, refs |-> refs]
Becomes(st) == node' = st.node /\ refs' = st.refs

vref(st, v) == [st EXCEPT !.refs[v] = @ + 1]

vput(st, v) ==
  LET less == [st EXCEPT !.refs[v] = @ - 1]
  IN  IF less.refs[v] = 0 /\ less.node[v] # Null /\ less.node[v].links = 0
      THEN [less EXCEPT !.node[v] = Null] ELSE less

IsDir(st, v) == st.node[v].kind = "dir"
NoEntries == [name \in Names |-> Null]

Entry(st, d, name) ==
  CASE st.node[d].links = 0 -> Null
    [] name = "." -> d
    [] name = ".." -> st.node[d].parent
    [] name \in Names -> st.node[d].entries[name]
    [] OTHER -> Null

FreeInodes(st) == {i \in Inodes : st.node[i] = Null}

MayAdd(st, d, name) ==
  st.node[d].links > 0 /\ name \in Names /\ Entry(st, d, name) = Null

\* A new inode of a kind, or nothing.
Make(st, d, name, kind) ==
  IF MayAdd(st, d, name) /\ FreeInodes(st) # {}
  THEN LET i == CHOOSE j \in FreeInodes(st) : TRUE
       IN  [st EXCEPT !.node[i] = [kind |-> kind, links |-> 1, parent |-> d, entries |-> NoEntries],
                      !.node[d].entries[name] = i]
  ELSE st

MayLink(st, v, d, name) == MayAdd(st, d, name) /\ ~IsDir(st, v)

Link(st, v, d, name) ==
  [st EXCEPT !.node[d].entries[name] = v, !.node[v].links = @ + 1]

\* Removes the name of something that may be removed; the inode goes with its last
\* reference.
TakeName(st, d, name, removable) ==
  LET v == Entry(st, d, name)
  IN  IF name \in Names /\ v \in removable
      THEN vput(vref([st EXCEPT !.node[d].entries[name] = Null, !.node[v].links = @ - 1], v), v)
      ELSE st

\* Who has a reference to a vnode, and the references that nobody has.
Holders(v) ==
  Cardinality({p \in Procs : cwd[p] = v}) + Cardinality({p \in Procs : open[p] = v})
  + Cardinality({x \in Procs \X {"cur", "from", "found"} :
                   op[x[1]] # Null /\ op[x[1]][x[2]] = v})
  + (IF v = Root THEN 1 ELSE 0)
Leaked(v) == refs[v] - Holders(v)
Leaks == MapThenSumSet(Leaked, Inodes)

(***************************************************************************)
(* Scanning a path                                                         *)
(***************************************************************************)

\* dir_index_limit: where the last slash is, 0 if there is none.
Limit(path) == Max({0} \cup {i \in DOMAIN path : path[i] = Slash})

\* What is after the last slash, Null if nothing is.
LastName(path) == IF Limit(path) = Len(path) THEN Null ELSE Last(path)

\* A variant that does not skip slashes.
SkipSlashes_None(path, pos) == pos

\* The first position from pos on that has no slash, or the limit.
SkipSlashes(path, pos) ==
  IF pos >= Limit(path) THEN pos
  ELSE Min({i \in pos..Limit(path) : i = Limit(path) \/ path[i] # Slash})

\* What dir_namev is to look up: the names before the last slash.
Components(path) ==
  SelectSeq(SubSeq(path, 1, Limit(path)), LAMBDA x : x # Slash)

(***************************************************************************)
(* dir_namev, one lookup at a time.  A call's record has the path that is  *)
(* walked and how far, base, and what is held: cur, the vnode reached      *)
(* (dir_namev's result at stage "last" and "act"), from and found.         *)
(***************************************************************************)

Walk(call, path, to, start, from) ==
  [call |-> call, path |-> path, to |-> to, stage |-> "walk", seen |-> 0,
   next |-> SkipSlashes(path, 1), base |-> IF path # <<>> /\ path[1] = Slash THEN Root ELSE start,
   cur |-> Null, from |-> from, found |-> Null]

Stop(what) == fault' = what /\ UNCHANGED <<node, refs, cwd, open, op>>

\* The call returns.
Return(p, st) == Becomes(st) /\ op' = [op EXCEPT ![p] = Null] /\ UNCHANGED <<cwd, open, fault>>
Continue(p, st, o) == Becomes(st) /\ op' = [op EXCEPT ![p] = o] /\ UNCHANGED <<cwd, open, fault>>

PutIf(st, v) == IF v = Null THEN st ELSE vput(st, v)

\* dir_namev fails: do_link puts what it has, do_mknod does not expect it.
WalkFails(p, st, o) ==
  IF o.call = "mknod" THEN Stop("kassert") ELSE Return(p, PutIf(st, o.from))

\* Without a component the result is the directory that the walk began with, and
\* gets a reference.
StartRef(st, v) == vref(st, v)

\* The walk has come as far as o says: at the limit, the end of dir_namev.
Walked(p, st, o) ==
  IF o.next < Limit(o.path) THEN Continue(p, st, o)
  ELSE IF o.cur = Null
  THEN Continue(p, StartRef(st, o.base), [o EXCEPT !.cur = o.base, !.stage = "last"])
  ELSE IF IsDir(st, o.cur) THEN Continue(p, st, [o EXCEPT !.stage = "last"])
  ELSE WalkFails(p, vput(st, o.cur), o)

\* A variant that gives it back only if the lookup has succeeded.
PutPrev_IfFound(st, cur, v) == IF v = Null THEN st ELSE PutIf(st, cur)

\* After a lookup the directory before is given back, whether or not it has
\* found v.
PutPrev(st, cur, v) == PutIf(st, cur)

\* Looks up the next component.
dir_namev_lookup(p) ==
  LET o == op[p]
      v == Entry(State, o.base, o.path[o.next])
      st == PutPrev(IF v = Null THEN State ELSE vref(State, v), o.cur, v)
  IN  /\ Running(p) /\ o # Null
      /\ o.stage = "walk" /\ o.next < Limit(o.path)
      /\ IF ~IsDir(State, o.base) THEN Stop("null")
         ELSE IF v = Null THEN WalkFails(p, st, o)
         ELSE Walked(p, st, [o EXCEPT !.cur = v, !.base = v, !.seen = @ + 1,
                                      !.next = SkipSlashes(o.path, o.next + 1)])

(***************************************************************************)
(* open_namev and the calls that use it                                    *)
(***************************************************************************)

Opens == {"open", "creat", "chdir", "stat"}
Calls == Opens \cup {"mkdir", "mknod", "rmdir", "unlink"}
Links == {"link", "rename"}

\* The step after dir_namev is open_namev's.
Opening(o) == o.call \in Opens \/ (o.call \in Links /\ o.from = Null)

\* chdir's check.
MayChdir(st, v) == IsDir(st, v)

\* open_namev has found v and has a reference to it.
Opened(p, st, v) ==
  LET o == op[p]
  IN  CASE o.call \in {"open", "creat"} ->
             /\ Becomes(st)
             /\ open' = [open EXCEPT ![p] = v]
             /\ op' = [op EXCEPT ![p] = Null]
             /\ UNCHANGED <<cwd, fault>>
        [] o.call = "stat" -> Return(p, vput(st, v))
        [] o.call = "chdir" /\ ~MayChdir(st, v) -> Return(p, vput(st, v))
        [] o.call = "chdir" /\ MayChdir(st, v) ->
             /\ Becomes(vput(st, cwd[p]))
             /\ cwd' = [cwd EXCEPT ![p] = v]
             /\ op' = [op EXCEPT ![p] = Null]
             /\ UNCHANGED <<open, fault>>
        [] o.call \in Links /\ LastName(o.to) \in LongNames -> Return(p, vput(st, v))
        [] o.call \in Links /\ LastName(o.to) \notin LongNames ->
             Walked(p, st, Walk(o.call, o.to, o.path, cwd[p], v))

\* Looks up the last name, in the directory that is held.
open_namev(p) ==
  LET o == op[p]
      name == LastName(o.path)
      v == Entry(State, o.cur, name)
  IN  /\ Running(p) /\ o # Null
      /\ o.stage = "last" /\ Opening(o)
      /\ IF name = Null THEN Opened(p, State, o.cur)
         ELSE IF v # Null THEN Opened(p, vput(vref(State, v), o.cur), v)
         ELSE IF o.call = "creat" THEN Continue(p, State, [o EXCEPT !.stage = "act"])
         ELSE Return(p, vput(State, o.cur))

\* O_CREAT: the file system's create returns a reference.
open_namev_create(p) ==
  LET o == op[p]
      name == LastName(o.path)
      st == Make(State, o.cur, name, "reg")
  IN  /\ Running(p) /\ o # Null
      /\ o.stage = "act" /\ o.call = "creat"
      /\ IF st = State THEN Return(p, vput(State, o.cur))
         ELSE Opened(p, vput(vref(st, Entry(st, o.cur, name)), o.cur), Entry(st, o.cur, name))

(***************************************************************************)
(* The calls that change a directory.  At stage "last" they look their     *)
(* last name up, at stage "act" they call the file system.                 *)
(***************************************************************************)

AtLast(p, call) ==
  Running(p) /\ op[p] # Null /\ op[p].stage = "last" /\ op[p].call = call /\ ~Opening(op[p])
AtAct(p, call) ==
  Running(p) /\ op[p] # Null /\ op[p].stage = "act" /\ op[p].call = call

Act(o) == [o EXCEPT !.stage = "act"]
Target(o) == Entry(State, o.cur, LastName(o.path))

do_mkdir_last(p) ==
  LET o == op[p]
  IN  /\ AtLast(p, "mkdir")
      /\ IF LastName(o.path) = Null
         THEN IF o.cur = Root THEN Return(p, vput(State, o.cur)) ELSE Stop("kassert")
         ELSE IF Target(o) = Null THEN Continue(p, State, Act(o))
         ELSE Return(p, vput(vput(vref(State, Target(o)), o.cur), Target(o)))

do_mkdir_act(p) ==
  LET o == op[p]
  IN  AtAct(p, "mkdir") /\ Return(p, vput(Make(State, o.cur, LastName(o.path), "dir"), o.cur))

\* If something has the new name already, link and mknod get a reference to it,
\* do not put it, and go on.
LookupTarget(p, o) ==
  IF LastName(o.path) = Null THEN Stop("kassert")
  ELSE IF Target(o) = Null THEN Continue(p, State, Act(o))
  ELSE Continue(p, vref(State, Target(o)), Act(o))

do_mknod_last(p) == AtLast(p, "mknod") /\ LookupTarget(p, op[p])

do_mknod_act(p) ==
  LET o == op[p]
  IN  AtAct(p, "mknod") /\ Return(p, vput(Make(State, o.cur, LastName(o.path), "chr"), o.cur))

EmptyDirs(st) ==
  {v \in Inodes : st.node[v] # Null /\ IsDir(st, v) /\ st.node[v].entries = NoEntries}

do_rmdir(p) ==
  LET o == op[p]
      name == LastName(o.path)
  IN  /\ AtLast(p, "rmdir")
      /\ IF name = Null THEN Stop("null")
         ELSE IF name \in {".", ".."} THEN Return(p, vput(State, o.cur))
         ELSE Return(p, vput(TakeName(State, o.cur, name, EmptyDirs(State)), o.cur))

NonDirs(st) == {v \in Inodes : st.node[v] # Null /\ ~IsDir(st, v)}

do_unlink_last(p) ==
  LET o == op[p]
      v == Target(o)
      st == vref(State, v)
  IN  /\ AtLast(p, "unlink")
      /\ IF LastName(o.path) = Null THEN Stop("kassert")
         ELSE IF v = Null THEN Return(p, vput(State, o.cur))
         ELSE IF IsDir(State, v) THEN Return(p, vput(vput(st, o.cur), v))
         ELSE Continue(p, st, [Act(o) EXCEPT !.found = v])

do_unlink_act(p) ==
  LET o == op[p]
      st == TakeName(State, o.cur, LastName(o.path), NonDirs(State))
  IN  AtAct(p, "unlink") /\ Return(p, vput(vput(st, o.cur), o.found))

do_link_last(p, call) == AtLast(p, call) /\ LookupTarget(p, op[p])

LinkPuts(st, o) == vput(vput(st, o.from), o.cur)

\* do_rename goes on with do_unlink of the old path if the link was made.
do_link_act(p, call) ==
  LET o == op[p]
      name == LastName(o.path)
  IN  /\ AtAct(p, call)
      /\ IF ~MayLink(State, o.from, o.cur, name) THEN Return(p, LinkPuts(State, o))
         ELSE LET st == LinkPuts(Link(State, o.from, o.cur, name), o)
              IN  IF call = "link" THEN Return(p, st)
                  ELSE Walked(p, st, Walk("unlink", o.to, <<>>, cwd[p], Null))

(***************************************************************************)
(* Calls begin; processes come and go, without open files here: what fork  *)
(* and exit do with those is in module Files.                              *)
(***************************************************************************)

MayLeak == {"link", "rename", "mknod"}

\* A long last name is refused by dir_namev before it looks anything up, an empty
\* path by do_stat.
Begin(p, call, path, to) ==
  /\ Running(p) /\ op[p] = Null
  /\ call \in {"open", "creat"} => open[p] = Null
  /\ call \in MayLeak =>
       Leaks + Cardinality({q \in Procs : op[q] # Null /\ op[q].call \in MayLeak}) < MaxLeaks
  /\ calls < MaxCalls
  /\ calls' = calls + 1
  /\ IF LastName(path) \in LongNames /\ call = "mknod" THEN Stop("kassert")
     ELSE /\ LastName(path) \notin LongNames
          /\ call = "stat" => path # <<>>
          /\ Walked(p, State, Walk(call, path, to, cwd[p], Null))

do_close(p) ==
  /\ Running(p) /\ op[p] = Null /\ open[p] # Null
  /\ Becomes(vput(State, open[p]))
  /\ open' = [open EXCEPT ![p] = Null]
  /\ UNCHANGED <<cwd, op, fault>>

\* A new process begins in the root directory.
proc_create(st) == vref(st, Root)

\* A variant that takes no reference to the parent's directory.
copy_parent_files_NoRef(st, v) == vput(st, Root)

copy_parent_files(st, v) == vref(vput(st, Root), v)

do_fork(p, child) ==
  /\ Running(p) /\ op[p] = Null /\ open[p] = Null
  /\ cwd[child] = Null
  /\ Becomes(copy_parent_files(proc_create(State), cwd[p]))
  /\ cwd' = [cwd EXCEPT ![child] = cwd[p]]
  /\ UNCHANGED <<open, op, fault>>

proc_cleanup(p) ==
  /\ Running(p) /\ op[p] = Null /\ open[p] = Null
  /\ Becomes(vput(State, cwd[p]))
  /\ cwd' = [cwd EXCEPT ![p] = Null]
  /\ UNCHANGED <<open, op, fault>>

Init ==
  /\ node = InitNode
  /\ refs = [i \in Inodes |-> IF i = Root THEN Cardinality(Procs) + 1 ELSE 0]
  /\ cwd = [p \in Procs |-> Root]
  /\ open = [p \in Procs |-> Null]
  /\ op = [p \in Procs |-> Null]
  /\ calls = 0
  /\ fault = "none"

\* A call in progress goes on.
Proceed(p) ==
  \/ dir_namev_lookup(p)
  \/ open_namev(p) \/ open_namev_create(p)
  \/ do_mkdir_last(p) \/ do_mkdir_act(p)
  \/ do_mknod_last(p) \/ do_mknod_act(p)
  \/ do_rmdir(p)
  \/ do_unlink_last(p) \/ do_unlink_act(p)
  \/ \E call \in Links : do_link_last(p, call) \/ do_link_act(p, call)

Next ==
  \E p \in Procs :
    \/ Proceed(p) /\ UNCHANGED calls
    \/ \E call \in Calls, path \in Paths : Begin(p, call, path, <<>>)
    \/ \E call \in Links, path \in Paths, to \in ToPaths : Begin(p, call, path, to)
    \/ do_close(p) /\ UNCHANGED calls
    \/ \E child \in Procs : do_fork(p, child) /\ UNCHANGED calls
    \/ proc_cleanup(p) /\ UNCHANGED calls

Spec == Init /\ [][Next]_vars

(***************************************************************************)
(* Properties                                                              *)
(***************************************************************************)

\* Every variable has its type.
TypeOK ==
  /\ \A i \in Inodes : node[i] # Null => node[i] \in
       [kind : {"dir", "reg", "chr"}, links : Nat, parent : Inodes,
        entries : [Names -> Inodes \cup {Null}]]
  /\ refs \in [Inodes -> Nat]
  /\ cwd \in [Procs -> Inodes \cup {Null}]
  /\ open \in [Procs -> Inodes \cup {Null}]
  /\ \A p \in Procs : op[p] # Null => op[p] \in
       [call : Calls \cup Links, path : Paths, to : Paths \cup {<<>>},
        stage : {"walk", "last", "act"}, seen : Nat, next : Nat, base : Inodes,
        cur : Inodes \cup {Null}, from : Inodes \cup {Null}, found : Inodes \cup {Null}]
  /\ calls \in 0..MaxCalls
  /\ fault \in {"none", "null", "kassert"}

\* Whatever a walk, a call, a descriptor or a working directory refers to exists
\* and has a reference for each of them, however other processes rename and remove
\* it meanwhile: dir_namev puts a directory only when it has the next one.
NodesHeld ==
  \A v \in Inodes : Holders(v) > 0 => node[v] # Null /\ refs[v] >= Holders(v)

\* References are lost only where link and mknod find that the new name exists:
\* every other path gives back what lookup and dir_namev gave it, errors included.
OnlyTargetsLeak ==
  [][refs' # refs \/ op' # op => \A v \in Inodes : Leaked(v)' # Leaked(v) =>
       /\ Leaked(v)' = Leaked(v) + 1
       /\ \E p \in Procs :
            /\ op[p] # Null /\ op'[p] # Null
            /\ op[p].call \in MayLeak /\ op[p].stage = "last" /\ op'[p].stage = "act"
            /\ Target(op[p]) = v]_vars

\* dir_namev looks up exactly the names before the last slash, in order, however
\* many slashes there are, and its result is a directory.
WalksComponents ==
  \A p \in Procs : op[p] # Null =>
    LET o == op[p]
        names == Components(o.path)
    IN  IF o.stage = "walk" /\ o.next < Limit(o.path)
        THEN o.seen < Len(names) /\ o.path[o.next] = names[o.seen + 1]
        ELSE o.seen = Len(names) /\ (o.stage # "walk" => IsDir(State, o.cur))
=============================================================================
