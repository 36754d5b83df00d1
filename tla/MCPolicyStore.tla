--------------------------- MODULE MCPolicyStore ---------------------------
(* Contents and an initial directory for TLC.                                *)
EXTENDS PolicyStore

Plain(v) == [ok |-> TRUE, inc |-> {}, version |-> v]
Including(v) == [ok |-> TRUE, inc |-> {"inc"}, version |-> v]
Wrong == [ok |-> FALSE, inc |-> {}, version |-> 9]

Two == {Plain(1), Including(1)}
Three == Two \cup {Wrong}

\* Two clients of the admin API with a policy of two files; and one client,
\* somebody who writes files, and the policy daemon.
TheWorkloads ==
    {[requests |-> 3, edits |-> 0, admins |-> Admin, paths |-> {"30-user", "50-other", "inc"},
      contents |-> Three, daemon |-> FALSE],
     [requests |-> 2, edits |-> 1, admins |-> {CHOOSE a \in Admin : TRUE},
      paths |-> {"30-user", "User", "inc"}, contents |-> Two, daemon |-> TRUE],
     [requests |-> 1, edits |-> 1, admins |-> {CHOOSE a \in Admin : TRUE},
      paths |-> {"30-user", "50-other", "inc"}, contents |-> Three, daemon |-> TRUE]}

Start == [p \in Path |-> IF p = "30-user" \/ p = "inc" THEN Empty ELSE Absent]

=============================================================================
