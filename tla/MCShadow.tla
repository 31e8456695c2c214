------------------------------ MODULE MCShadow ------------------------------
(* Shadow with interchangeable objects: a new one is any that is free. *)
EXTENDS Shadow

Symmetry == Permutations(Slots) \cup Permutations(Procs \ {FirstProc})
Whole == {<<1, 3>>}
Middle == {<<2, 2>>}
MappedKinds == {<<"file", "private">>, <<"anon", "shared">>, <<"anon", "private">>}
=============================================================================
