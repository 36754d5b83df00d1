--------------------------- MODULE MCQrexecAgent ---------------------------
(* Instances of QrexecAgent for TLC *)
EXTENDS QrexecAgent, TLC

Symmetry == Permutations(Client) \cup Permutations(Conn) \cup Permutations(Pid)

=============================================================================
