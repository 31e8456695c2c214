------------------------------ MODULE MCSched ------------------------------
(* Small instances of Sched for TLC. *)
EXTENDS Sched, TLC

\* FirstThread is told apart from the others by Init only.
Symmetry == Permutations(Threads \ {FirstThread})
============================================================================
