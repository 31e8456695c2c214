----------------------------- MODULE MCSyscall -----------------------------
(***************************************************************************)
(* Two processes with two descriptors each, one regular file and one       *)
(* directory.  A file_t slot is chosen with CHOOSE and only compared.      *)
(***************************************************************************)
EXTENDS Syscall, TLC

Symmetry == Permutations(Slots) \cup Permutations(Procs)

OpenFlags == {{}, {"RDWR", "APPEND"}, {"WRONLY", "RDWR"}}
Offsets == {<<-1, "SET">>, <<-1, "CUR">>, <<1, "END">>, <<0, "other">>}
=============================================================================
