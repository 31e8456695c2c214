------------------------------ MODULE MCVmmap ------------------------------
(* Vmmap with interchangeable slots for the objects made by mmap. *)
EXTENDS Vmmap, TLC

Symmetry == Permutations(Anons \ {Bss})
=============================================================================
