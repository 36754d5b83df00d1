--------------------------- MODULE MCQrexecDaemon ---------------------------
(* Small instances of QrexecDaemon for TLC. *)
EXTENDS QrexecDaemon, TLC

Symmetry == Permutations(Pid) \cup Permutations(User) \cup Permutations(Ident)
=============================================================================
