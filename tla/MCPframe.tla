------------------------------ MODULE MCPframe ------------------------------
(* Module Pframe with the symmetry of its frames, pages and clients. *)
EXTENDS Pframe, TLC

Symmetry == Permutations(Frames) \cup Permutations(Pages) \cup Permutations(Clients)
=============================================================================
