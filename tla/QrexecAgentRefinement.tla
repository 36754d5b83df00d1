----------------------- MODULE QrexecAgentRefinement -----------------------
(***************************************************************************)
(* The agent keeps its promise to the daemon: QrexecAgent implements       *)
(* AgentPromise.                                                           *)
(***************************************************************************)
EXTENDS QrexecAgent

\* An identifier is in use while its descriptor is a client's socket.
Busy == {f \in Fd : fdt[f] \in Client}

\* The agent has a connection from the handling of its announcement to its
\* report, whether it is postponed, registered, or was lost for want of a slot.
Held == {k \in used : Announced(k) = {} /\ Reported(k) = {}}
IdentOf(k) ==
    IF \E f \in Busy : client[fdt[f]].conn = k
    THEN CHOOSE f \in Busy : client[fdt[f]].conn = k
    ELSE None
Conns == {[ident |-> IdentOf(k), conn |-> k] : k \in Held}

Promise == INSTANCE AgentPromise WITH Ident <- Fd, busy <- Busy, conns <- Conns

\* Every step of the agent is one it promised its daemon, or is invisible on
\* the control vchan: an identifier is not reused while a request or its
\* connection is open, and each connection is reported at most once.
KeepsPromise == Promise!Spec

=============================================================================
