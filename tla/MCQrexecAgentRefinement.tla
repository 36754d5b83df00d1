---------------------- MODULE MCQrexecAgentRefinement ----------------------
(* Instances of QrexecAgentRefinement for TLC *)
EXTENDS QrexecAgentRefinement, TLC

Symmetry == Permutations(Client) \cup Permutations(Conn) \cup Permutations(Pid)

=============================================================================
