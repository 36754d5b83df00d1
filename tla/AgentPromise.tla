---------------------------- MODULE AgentPromise ----------------------------
(***************************************************************************)
(* What an agent promises its daemon on the control vchan, and what the    *)
(* daemon promises in return.  The agent: an identifier is not used for a  *)
(* second request before the first was refused or its connection has       *)
(* ended, and a connection is reported at most once, after it was          *)
(* announced.  The daemon: a request is answered at most once, and a       *)
(* connection is not announced again before the agent has reported it.     *)
(* QrexecAgent implements the agent's half (QrexecAgentRefinement); the    *)
(* actions agent_trigger, agent_receive and agent_terminated of            *)
(* QrexecDaemon are the actions of the agent here.                         *)
(***************************************************************************)
EXTENDS Integers, Sequences

CONSTANTS Ident, Conn, None, VCHAN_SPACE

VARIABLES
    busy,                      \* agent: identifiers in use
    conns,                     \* agent: connections it was told of
    asked, used,               \* daemon: open requests, connections it named
    to_agent, to_daemon        \* the rings

vars == <<busy, conns, asked, used, to_agent, to_daemon>>

Init ==
    /\ busy = {}
    /\ conns = {}
    /\ asked = {}
    /\ used = {}
    /\ to_agent = <<>>
    /\ to_daemon = <<>>

-----------------------------------------------------------------------------
(* The agent *)

trigger(id) ==
    /\ id \notin busy
    /\ Len(to_daemon) < VCHAN_SPACE
    /\ to_daemon' = Append(to_daemon, [type |-> "TRIGGER_SERVICE", fd |-> id])
    /\ busy' = busy \cup {id}
    /\ UNCHANGED <<conns, asked, used, to_agent>>

refused(m) ==
    /\ m.type = "SERVICE_REFUSED"
    /\ busy' = busy \ {m.fd}
    /\ UNCHANGED conns

told(m) ==
    /\ m.type \in {"EXEC", "SERVICE_CONNECT"}
    /\ conns' = conns \cup {[ident |-> IF m.type = "EXEC" THEN None ELSE m.fd,
                              conn |-> m.conn]}
    /\ UNCHANGED busy

receive ==
    /\ to_agent # <<>>
    /\ to_agent' = Tail(to_agent)
    /\ refused(Head(to_agent)) \/ told(Head(to_agent))
    /\ UNCHANGED <<asked, used, to_daemon>>

terminated(c) ==
    /\ c \in conns
    /\ Len(to_daemon) < VCHAN_SPACE
    /\ to_daemon' = Append(to_daemon, [type |-> "CONNECTION_TERMINATED", conn |-> c.conn])
    /\ conns' = conns \ {c}
    /\ busy' = busy \ {c.ident}
    /\ UNCHANGED <<asked, used, to_agent>>

-----------------------------------------------------------------------------
(* The daemon *)

announce(k) ==
    /\ k \notin used
    /\ used' = used \cup {k}
    /\ Len(to_agent) < VCHAN_SPACE
    /\ \/ /\ to_agent' = Append(to_agent, [type |-> "EXEC", conn |-> k])
          /\ UNCHANGED asked
       \/ \E id \in asked :
             /\ to_agent' = Append(to_agent, [type |-> "SERVICE_CONNECT", fd |-> id, conn |-> k])
             /\ asked' = asked \ {id}
    /\ UNCHANGED <<busy, conns, to_daemon>>

refuse(id) ==
    /\ id \in asked
    /\ asked' = asked \ {id}
    /\ Len(to_agent) < VCHAN_SPACE
    /\ to_agent' = Append(to_agent, [type |-> "SERVICE_REFUSED", fd |-> id])
    /\ UNCHANGED <<busy, conns, used, to_daemon>>

hear ==
    /\ to_daemon # <<>>
    /\ to_daemon' = Tail(to_daemon)
    /\ LET m == Head(to_daemon) IN
       IF m.type = "TRIGGER_SERVICE"
       THEN asked' = asked \cup {m.fd} /\ UNCHANGED used
       ELSE used' = used \ {m.conn} /\ UNCHANGED asked
    /\ UNCHANGED <<busy, conns, to_agent>>

-----------------------------------------------------------------------------

Next ==
    \/ \E id \in Ident : trigger(id)
    \/ receive
    \/ \E c \in conns : terminated(c)
    \/ \E k \in Conn : announce(k)
    \/ \E id \in Ident : refuse(id)
    \/ hear

Spec == Init /\ [][Next]_vars

=============================================================================
