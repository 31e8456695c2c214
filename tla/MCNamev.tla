------------------------------ MODULE MCNamev ------------------------------
(***************************************************************************)
(* Two processes that make three calls, in a file system that holds the    *)
(* directory /a with the file /a/b.                                        *)
(***************************************************************************)
EXTENDS Namev, TLC

CONSTANTS i1, i2, i3

Symmetry == Permutations(Procs)

Inode(kind, entries) == [kind |-> kind, links |-> 1, parent |-> Root, entries |-> entries]
OneEntry(name, i) == [n \in Names |-> IF n = name THEN i ELSE Null]

Tree ==
  [i \in Inodes |->
     CASE i = Root -> Inode("dir", OneEntry("a", i1))
       [] i = i1 -> Inode("dir", OneEntry("b", i2))
       [] i = i2 -> Inode("reg", NoEntries)
       [] OTHER -> Null]

SomePaths ==
  {<<"/", "a">>, <<"a", "/", "b">>, <<"a", "/">>, <<"b">>, <<"a", "/", "/", "..", "/", "b">>,
   <<"long">>}
NewPaths == {<<"b">>, <<"a", "/", "b">>, <<"long">>}
=============================================================================
