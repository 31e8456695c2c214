------------------------------- MODULE MCProc -------------------------------
(* Proc with interchangeable slots for the processes that are forked. *)
EXTENDS Proc, TLC

Symmetry == Permutations(User)
=============================================================================
