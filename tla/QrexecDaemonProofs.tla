------------------------- MODULE QrexecDaemonProofs -------------------------
(***************************************************************************)
(* Machine-checked proofs about module QrexecDaemon, for any table size,   *)
(* any number of children, clients and identifiers, any vchan capacity and *)
(* any number of crashes and kills.                                        *)
(***************************************************************************)
EXTENDS QrexecDaemon, TLAPS

\* Most leaves are first-order reasoning, which is Zenon's; a leaf that needs
\* arithmetic, or functions and records taken apart, names SMT.
USE Zenon

(* The parts of the inductive invariant that are not properties themselves *)

\* A client entry is in use exactly when its descriptor is open.
PeerInv == \A fd \in Index : clients[fd] # "INVALID" <=> peer[fd] # None

\* The listening socket was reported ready because a connection waits there,
\* and only handle_new_client() takes connections off the backlog.
ListenInv == pc = "accept" /\ fds.listen => backlog # <<>>

\* A child that connects to the daemon has a destination.
DestInv == \A p \in Pid : child[p].stage = "connecting" => child[p].dest \in Domain

TInv == TypeOK /\ PeerInv /\ ListenInv /\ DestInv

\* The initial state of every table is well typed.
LEMMA InitTInv == Init => TInv
<1> SUFFICES ASSUME Init PROVE TInv
  OBVIOUS
<1> USE DaemonAssumption DEF Index
<1>a. protocol_version \in Nat
  BY SMT DEF Init, negotiated, Min2, QREXEC_PROTOCOL_VERSION, DaemonAssumption
<1>1. LoopTypes
  BY <1>a DEF Init, LoopTypes, Phase
<1>2. ClientTypes
  BY SMT DEF Init, ClientTypes, client_state, Socket, NoSock
<1>3. PendingTypes
  BY DEF Init, PendingTypes, FreeSlot, Unborn, policy_pending_t, policy_response,
         ChildProcess, ChildStage, ExitStatus
<1>4. PortTypes
  BY DEF Init, PortTypes
<1>5. VchanTypes
  BY SMT DEF Init, VchanTypes, AgentState, negotiated, Min2, QREXEC_PROTOCOL_VERSION, DaemonAssumption
<1>6. PeerInv /\ ListenInv /\ DestInv
  BY DEF Init, PeerInv, ListenInv, DestInv, Unborn
<1> QED
  BY <1>1, <1>2, <1>3, <1>4, <1>5, <1>6 DEF TInv, TypeOK

\* libvchan_send() keeps the queue to the agent and the phase well typed.
LEMMA DeliverTypes ==
  ASSUME TypeOK, NEW m \in ToAgentMsg, NEW next \in Phase, Deliver(m, next)
  PROVE  pc' \in Phase /\ to_agent' \in Seq(ToAgentMsg)
<1>1. to_agent \in Seq(ToAgentMsg)
  BY DEF TypeOK, VchanTypes
<1>2. to_agent' = Append(to_agent, m) \/ to_agent' = to_agent
  BY DEF Deliver
<1>3. pc' \in Phase
  BY DEF Deliver, Phase
<1> QED
  BY <1>1, <1>2, <1>3, SMT

\* Closing a connection leaves it well typed.
LEMMA ClosedType == ASSUME NEW s \in Socket PROVE Closed(s) \in Socket
<1>1. <<>> \in Seq(ClientMsg)
  BY SMT
<1>2. \A q \in Seq(ClientMsg) : [s EXCEPT !.st = "gone", !.inq = q, !.eof = TRUE] \in Socket
  BY DEF Socket
<1> QED
  BY <1>1, <1>2 DEF Closed

\* What the processes do to a connection leaves it well typed.
LEMMA SocketUpdates ==
  ASSUME NEW f \in [Conn -> Socket], NEW c \in Conn, NEW q \in Seq(ClientMsg), NEW e \in BOOLEAN
  PROVE  /\ [f EXCEPT ![c].st = "backlog"] \in [Conn -> Socket]
         /\ [f EXCEPT ![c].st = "open"] \in [Conn -> Socket]
         /\ [f EXCEPT ![c].eof = TRUE] \in [Conn -> Socket]
         /\ [f EXCEPT ![c].inq = q] \in [Conn -> Socket]
         /\ [f EXCEPT ![c].inq = q, ![c].eof = e] \in [Conn -> Socket]
         /\ [f EXCEPT ![c].inq = q, ![c].replied = TRUE] \in [Conn -> Socket]
         /\ [f EXCEPT ![c] = Closed(@)] \in [Conn -> Socket]
<1>1. /\ [f EXCEPT ![c].st = "backlog"] \in [Conn -> Socket]
      /\ [f EXCEPT ![c].st = "open"] \in [Conn -> Socket]
      /\ [f EXCEPT ![c].eof = TRUE] \in [Conn -> Socket]
  BY DEF Socket
<1>2. [f EXCEPT ![c].inq = q] \in [Conn -> Socket]
  BY DEF Socket
<1>3. [f EXCEPT ![c].inq = q, ![c].eof = e] \in [Conn -> Socket]
  BY DEF Socket
<1>4. [f EXCEPT ![c].inq = q, ![c].replied = TRUE] \in [Conn -> Socket]
  BY DEF Socket
<1>5. [f EXCEPT ![c] = Closed(@)] \in [Conn -> Socket]
  BY ClosedType
<1> QED
  BY <1>1, <1>2, <1>3, <1>4, <1>5

\* terminate_client() keeps the client tables well typed and in step.
LEMMA TerminateTypes ==
  ASSUME TypeOK, PeerInv, NEW fd \in Index, terminate_client(fd)
  PROVE  /\ clients' \in [Index -> client_state]
         /\ peer' \in [Index -> Conn \cup {None}]
         /\ sock' \in [Conn -> Socket]
         /\ vchan_port_notify_client' \in [Index -> Index \cup {VCHAN_PORT_UNUSED}]
         /\ PeerInv'
<1> USE DEF TypeOK, ClientTypes, PortTypes, terminate_client
<1>1. clients' \in [Index -> client_state]
  BY DEF client_state
<1>2. peer' \in [Index -> Conn \cup {None}]
  OBVIOUS
<1>3. sock' \in [Conn -> Socket]
  BY ClosedType
<1>4. vchan_port_notify_client' \in [Index -> Index \cup {VCHAN_PORT_UNUSED}]
  OBVIOUS
<1>5. PeerInv'
  BY DEF PeerInv
<1> QED
  BY <1>1, <1>2, <1>3, <1>4, <1>5

\* So does release_vchan_port().
LEMMA ReleaseTypes ==
  ASSUME TypeOK, PeerInv, NEW port \in Index, NEW d \in Domain, release_vchan_port(port, d)
  PROVE  /\ clients' \in [Index -> client_state]
         /\ peer' \in [Index -> Conn \cup {None}]
         /\ sock' \in [Conn -> Socket]
         /\ PortTypes' \/ orphans' # orphans
         /\ PeerInv'
<1>1. used_vchan_ports' \in [Index -> Domain \cup {VCHAN_PORT_UNUSED}]
  BY DEF release_vchan_port, TypeOK, PortTypes
<1>2. CASE UNCHANGED <<clients, peer, sock, vchan_port_notify_client>>
  BY <1>1, <1>2 DEF TypeOK, ClientTypes, PortTypes, PeerInv
<1>3. CASE vchan_port_notify_client[port] # VCHAN_PORT_UNUSED
           /\ terminate_client(vchan_port_notify_client[port])
  <2>1. vchan_port_notify_client[port] \in Index
    BY <1>3 DEF TypeOK, PortTypes
  <2> QED
    BY <1>1, <1>3, <2>1, TerminateTypes DEF TypeOK, PortTypes
<1> QED
  BY <1>2, <1>3 DEF release_vchan_port

\* Actions that touch the main loop's own state and nothing that is queued.
LEMMA LoopTInv ==
  ASSUME TInv,
         \/ loop_top \/ reap_children_done \/ ppoll_ready \/ ppoll_eintr
         \/ signal_handler_sigterm \/ handle_agent_restart_failed \/ skip_phase
         \/ Exited \/ UNCHANGED vars
  PROVE  TInv'
<1> USE DEF TInv, TypeOK, LoopTypes, ClientTypes, PendingTypes, PortTypes, VchanTypes,
            PeerInv, ListenInv, DestInv, vars, daemonVars, vchanVars, localVars, ghostVars
<1>1. CASE loop_top
  BY <1>1 DEF loop_top, Phase
<1>2. CASE reap_children_done
  BY <1>2 DEF reap_children_done, Phase
<1>3. CASE ppoll_ready
  <2>1. {<<fd, peer[fd]>> : fd \in ReadyFds} \subseteq Index \X Conn
    BY SMT DEF ReadyFds
  <2>2. fds' \in [listen : BOOLEAN, ready : SUBSET (Index \X Conn)]
    BY <1>3, <2>1 DEF ppoll_ready, ListenReady, HaveSpace
  <2>3. pc' \in Phase
    BY <1>3 DEF ppoll_ready, After, Phase
  <2>4. ListenInv'
    BY <1>3 DEF ppoll_ready, ListenReady
  <2> QED
    BY <1>3, <2>2, <2>3, <2>4 DEF ppoll_ready
<1>4. CASE ppoll_eintr
  BY <1>4 DEF ppoll_eintr, Phase
<1>5. CASE signal_handler_sigterm
  BY <1>5 DEF signal_handler_sigterm
<1>6. CASE handle_agent_restart_failed
  BY <1>6 DEF handle_agent_restart_failed, Phase
<1>7. CASE skip_phase
  BY <1>7, SMT DEF skip_phase, After, Phase
<1>8. CASE Exited \/ UNCHANGED vars
  BY <1>8 DEF Exited
<1> QED
  BY <1>1, <1>2, <1>3, <1>4, <1>5, <1>6, <1>7, <1>8

\* The policy children: handle_execute_service_child() and the ways it ends.
LEMMA ChildTInv ==
  ASSUME TInv, NEW p \in Pid, Child(p) \/ child_killed(p)
  PROVE  TInv'
<1>t. /\ sock \in [Conn -> Socket]
      /\ child \in [Pid -> ChildProcess]
      /\ backlog \in Seq(Conn)
      /\ DestInv
      /\ p \in Conn
  BY DEF TInv, TypeOK, ClientTypes, PendingTypes, Conn
<1>k. child \in [Pid -> ChildProcess]
  BY <1>t
<1>e. [sock EXCEPT ![p].eof = TRUE] \in [Conn -> Socket]
  <2>1. <<>> \in Seq(ClientMsg) /\ TRUE \in BOOLEAN
    BY SMT
  <2> QED
    BY <1>t, <2>1, SocketUpdates
<1>x. ASSUME NEW status \in ExitStatus, ChildExits(p, status)
      PROVE  child' \in [Pid -> ChildProcess] /\ DestInv'
  <2>1. [Unborn EXCEPT !.stage = "zombie", !.status = status] \in ChildProcess
    BY DEF ChildProcess, Unborn, ChildStage, ExitStatus
  <2>2. child' \in [Pid -> ChildProcess]
    BY <1>t, <1>x, <2>1 DEF ChildExits
  <2>3. DestInv'
    BY <1>t, <1>x DEF ChildExits, DestInv, Unborn
  <2> QED
    BY <2>2, <2>3
<1>c. ASSUME NEW d \in Domain, NEW q \in Index \cup {ANY_PORT}, child_connect(p, d, q)
      PROVE  /\ child' \in [Pid -> ChildProcess] /\ DestInv'
             /\ backlog' \in Seq(Conn) /\ backlog' # <<>>
             /\ sock' \in [Conn -> Socket]
  <2>0. "connecting" \in ChildStage
    BY DEF ChildStage
  <2>b. child' = [child EXCEPT ![p].stage = "connecting", ![p].dest = d, ![p].port = q]
    BY <1>c DEF child_connect
  <2>1. child' \in [Pid -> ChildProcess]
    <3>1. [child EXCEPT ![p].stage = "connecting", ![p].dest = d, ![p].port = q]
             \in [Pid -> ChildProcess]
      BY <1>k, <2>0, ZenonT(30) DEF ChildProcess
    <3> QED
      BY <2>b, <3>1
  <2>2. DestInv'
    BY <1>t, <1>c, SMT DEF child_connect, DestInv, ChildProcess
  <2>a. backlog' = Append(backlog, p)
    BY <1>c DEF child_connect
  <2>3. backlog' \in Seq(Conn) /\ backlog' # <<>>
    BY <1>t, <2>a, SMT
  <2>4. sock' \in [Conn -> Socket]
    BY <1>t, <1>c, ZenonT(30) DEF child_connect, Socket
  <2> QED
    BY <2>1, <2>2, <2>3, <2>4
<1>s. ASSUME send_service_connect(p)
      PROVE  /\ child' \in [Pid -> ChildProcess] /\ DestInv'
             /\ sock' \in [Conn -> Socket]
  <2> DEFINE m == [type |-> "SERVICE_CONNECT", ident |-> child[p].ident,
                   port |-> child[p].port, domain |-> child[p].dest]
             q == <<Hello, m>>
             e == child[p].dest # 0
  <2>1. m \in ClientMsg
    BY <1>s, <1>t DEF send_service_connect, ClientMsg, ChildProcess, DestInv
  <2>2. q \in Seq(ClientMsg)
    BY <2>1, SMT DEF ClientMsg
  <2>3. sock' = [sock EXCEPT ![p].inq = q, ![p].eof = e]
    BY <1>s DEF send_service_connect
  <2>4. e \in BOOLEAN
    OBVIOUS
  <2> HIDE DEF q, e
  <2>5. sock' \in [Conn -> Socket]
    BY <1>t, <2>2, <2>3, <2>4, SocketUpdates
  <2>6. child' \in [Pid -> ChildProcess]
    BY <1>s, <1>t, SMT DEF send_service_connect, ChildProcess, ChildStage
  <2>7. DestInv'
    BY <1>s, <1>t DEF send_service_connect, DestInv, ChildProcess
  <2> QED
    BY <2>5, <2>6, <2>7
<1> USE DEF TInv, TypeOK, LoopTypes, ClientTypes, PendingTypes, PortTypes, VchanTypes,
            PeerInv, ListenInv, daemonVars, vchanVars, ghostVars
<1>1. CASE child_refused(p)
  BY <1>1, <1>x DEF child_refused, ChildExits, ExitStatus
<1>2. ASSUME NEW d \in Domain, NEW q \in Index \cup {ANY_PORT}, child_connect(p, d, q)
      PROVE  TInv'
  BY <1>2, <1>c DEF child_connect
<1>3. CASE send_service_connect(p)
  BY <1>3, <1>s DEF send_service_connect
<1>4. CASE child_disconnected(p)
  BY <1>4, <1>x DEF child_disconnected, ChildExits, ExitStatus
<1>5. CASE child_exit(p)
  BY <1>5, <1>x, <1>e, ZenonT(30) DEF child_exit, ChildExits, ExitStatus
<1>6. CASE child_killed(p)
  BY <1>6, <1>x, <1>e DEF child_killed, ChildExits, ExitStatus
<1> QED
  BY <1>1, <1>2, <1>3, <1>4, <1>5, <1>6 DEF Child, OtherDaemonPorts

\* The local clients.
LEMMA UserTInv ==
  ASSUME TInv, NEW u \in User, LocalUser(u)
  PROVE  TInv'
<1>t. /\ sock \in [Conn -> Socket]
      /\ backlog \in Seq(Conn)
      /\ u \in Conn
  BY DEF TInv, TypeOK, ClientTypes, Conn
<1>c. user_connect(u) => /\ sock' \in [Conn -> Socket]
                         /\ backlog' \in Seq(Conn) /\ backlog' # <<>>
  <2>1. user_connect(u) => sock' \in [Conn -> Socket]
    BY <1>t, ZenonT(30) DEF user_connect, Socket
  <2>2. user_connect(u) => backlog' \in Seq(Conn) /\ backlog' # <<>>
    BY <1>t, SMT DEF user_connect
  <2> QED
    BY <2>1, <2>2
<1>n. ASSUME NEW d \in Domain, negotiate_connection_params(u, d)
      PROVE  sock' \in [Conn -> Socket]
  <2> DEFINE m == [type |-> "EXEC", ident |-> None, port |-> ANY_PORT, domain |-> d]
             q == <<Hello, m>>
  <2>1. q \in Seq(ClientMsg)
    BY SMT DEF ClientMsg
  <2>2. sock' = [sock EXCEPT ![u].inq = q]
    BY <1>n DEF negotiate_connection_params
  <2> HIDE DEF q
  <2> QED
    BY <1>t, <2>1, <2>2, SocketUpdates
<1>d. user_close(u) => sock' \in [Conn -> Socket]
  BY <1>t, ZenonT(30) DEF user_close, Socket
<1> USE DEF TInv, TypeOK, LoopTypes, ClientTypes, PendingTypes, PortTypes, VchanTypes,
            PeerInv, ListenInv, DestInv, daemonVars, vchanVars, ghostVars, UserStep
<1>1. CASE user_connect(u)
  BY <1>1, <1>c DEF user_connect
<1>2. ASSUME NEW d \in Domain, negotiate_connection_params(u, d)
      PROVE  TInv'
  BY <1>2, <1>n DEF negotiate_connection_params
<1>3. CASE user_close(u)
  BY <1>3, <1>d DEF user_close
<1> QED
  BY <1>1, <1>2, <1>3 DEF LocalUser

\* The agent.
LEMMA AgentTInv ==
  ASSUME TInv, Agent
  PROVE  TInv'
<1>t. to_agent \in Seq(ToAgentMsg) /\ from_agent \in Seq(FromAgentMsg)
  BY DEF TInv, TypeOK, VchanTypes
<1>g. agent \in AgentState
  BY DEF TInv, TypeOK, VchanTypes
<1>o. orphans \in SUBSET [port : Index, domain : Domain]
  BY DEF TInv, TypeOK, PortTypes
<1>k. TriggerValid \subseteq BOOLEAN
  BY DaemonAssumption DEF DaemonAssumption
<1>a. ASSUME NEW id \in Ident, NEW ok \in TriggerValid, agent_trigger(id, ok)
      PROVE  VchanTypes'
  <2> DEFINE m == [type |-> "TRIGGER_SERVICE", version |-> agent.version, ident |-> id,
                   valid |-> ok]
  <2>1. m \in FromAgentMsg
    BY <1>g, <1>k DEF FromAgentMsg, AgentState
  <2>2. from_agent' = Append(from_agent, m) /\ UNCHANGED <<vchan_open, to_agent>>
    BY <1>a DEF agent_trigger
  <2> HIDE DEF m
  <2>3. from_agent' \in Seq(FromAgentMsg)
    BY <1>t, <2>1, <2>2, SMT
  <2>4. agent' \in AgentState
    BY <1>g, <1>a DEF agent_trigger, AgentState
  <2> QED
    BY <2>2, <2>3, <2>4 DEF TInv, TypeOK, VchanTypes
<1>b. ASSUME agent_receive
      PROVE  VchanTypes'
  <2> DEFINE m == Head(to_agent)
  <2>1. m \in ToAgentMsg
    BY <1>t, <1>b, SMT DEF agent_receive
  <2>2. to_agent' \in Seq(ToAgentMsg)
    BY <1>t, <1>b, SMT DEF agent_receive
  <2>3. m.type # "SERVICE_REFUSED" =>
           [ident |-> m.ident, port |-> m.port, domain |-> m.domain] \in Connection
    BY <2>1, SMT DEF ToAgentMsg, Refused, Connection
  <2>4. agent' = IF m.type = "SERVICE_REFUSED"
                 THEN [agent EXCEPT !.busy = @ \ {m.ident}]
                 ELSE [agent EXCEPT !.conns = @ \cup
                         {[ident |-> m.ident, port |-> m.port, domain |-> m.domain]}]
    BY <1>b DEF agent_receive
  <2> HIDE DEF m
  <2>5. agent' \in AgentState
    BY <1>g, <2>3, <2>4 DEF AgentState
  <2> QED
    BY <1>b, <2>2, <2>5 DEF agent_receive, TInv, TypeOK, VchanTypes
<1>c. ASSUME NEW c \in agent.conns, agent_terminated(c)
      PROVE  VchanTypes'
  <2> DEFINE m == [type |-> "CONNECTION_TERMINATED", port |-> c.port, domain |-> c.domain]
  <2>1. m \in FromAgentMsg
    BY <1>g DEF FromAgentMsg, Connection, AgentState
  <2>2. from_agent' = Append(from_agent, m) /\ UNCHANGED <<vchan_open, to_agent>>
    BY <1>c DEF agent_terminated
  <2> HIDE DEF m
  <2>3. from_agent' \in Seq(FromAgentMsg)
    BY <1>t, <2>1, <2>2, SMT
  <2>4. agent' = [agent EXCEPT !.conns = @ \ {c}, !.busy = @ \ {c.ident}]
    BY <1>c DEF agent_terminated
  <2>5. agent' \in AgentState
    BY <1>g, <2>4 DEF AgentState
  <2> QED
    BY <2>2, <2>3, <2>5 DEF TInv, TypeOK, VchanTypes
<1>d. ASSUME agent_crash
      PROVE  VchanTypes' /\ orphans' \in SUBSET [port : Index, domain : Domain]
  <2>a. to_agent' = <<>> /\ from_agent' = from_agent /\ vchan_open' = FALSE
    BY <1>d DEF agent_crash
  <2>1. to_agent' \in Seq(ToAgentMsg)
    BY <2>a, SMT
  <2>2. agent' = [agent EXCEPT !.busy = {}, !.conns = {}, !.crashes = @ + 1]
    BY <1>d DEF agent_crash
  <2>b. ASSUME NEW b \in SUBSET Ident, NEW cs \in SUBSET Connection, NEW n \in Nat
        PROVE  [agent EXCEPT !.busy = b, !.conns = cs, !.crashes = n] \in AgentState
    BY <1>g DEF AgentState
  <2>3. agent' \in AgentState
    <3>1. {} \in SUBSET Ident /\ {} \in SUBSET Connection
      OBVIOUS
    <3>2. agent.crashes + 1 \in Nat
      BY <1>g, SMT DEF AgentState
    <3> QED
      BY <2>2, <2>b, <3>1, <3>2
  <2>4. ASSUME NEW k \in DOMAIN to_agent, to_agent[k].type # "SERVICE_REFUSED"
        PROVE  to_agent[k].port \in Index /\ to_agent[k].domain \in Domain
    <3>1. to_agent[k] \in ToAgentMsg
      BY <1>t, SMT
    <3> QED
      BY <2>4, <3>1, SMT DEF ToAgentMsg, Refused
  <2>5. ASSUME NEW c \in agent.conns
        PROVE  c.port \in Index /\ c.domain \in Domain
    BY <1>g DEF Connection, AgentState
  <2>6. orphans' \in SUBSET [port : Index, domain : Domain]
    BY <1>d, <1>o, <2>4, <2>5, SMT DEF agent_crash
  <2> QED
    BY <1>t, <2>a, <2>1, <2>3, <2>6 DEF VchanTypes
<1> USE DEF TInv, TypeOK, LoopTypes, ClientTypes, PendingTypes, PortTypes,
            PeerInv, ListenInv, DestInv, daemonVars, localVars, AgentStep
<1>1. ASSUME NEW id \in Ident, NEW ok \in TriggerValid, agent_trigger(id, ok)
      PROVE  TInv'
  BY <1>1, <1>a DEF agent_trigger
<1>2. CASE agent_receive
  BY <1>2, <1>b DEF agent_receive
<1>3. ASSUME NEW c \in agent.conns, agent_terminated(c)
      PROVE  TInv'
  BY <1>3, <1>c DEF agent_terminated
<1>4. CASE agent_crash
  BY <1>4, <1>d DEF agent_crash
<1> QED
  BY <1>1, <1>2, <1>3, <1>4 DEF Agent

\* reap_children()
LEMMA ReapTInv ==
  ASSUME TInv, NEW p \in Pid, reap_children(p)
  PROVE  TInv'
<1>1. child' \in [Pid -> ChildProcess] /\ DestInv'
  <2>1. child \in [Pid -> ChildProcess]
    BY DEF TInv, TypeOK, PendingTypes
  <2>2. child' = [child EXCEPT ![p].stage = "reaped"]
    BY DEF reap_children
  <2>3. child' \in [Pid -> ChildProcess]
    BY <2>1, <2>2, SMT DEF ChildProcess, ChildStage
  <2>4. DestInv'
    BY <2>1, <2>2 DEF TInv, DestInv, ChildProcess
  <2> QED
    BY <2>3, <2>4
<1>2. FreeSlot \in policy_pending_t
  BY DEF FreeSlot, policy_pending_t, policy_response
<1>3. /\ policy_pending' \in [Index -> policy_pending_t]
      /\ policy_pending_max' \in Index \cup {-1}
  <2>1. /\ policy_pending \in [Index -> policy_pending_t]
        /\ policy_pending_max \in Index \cup {-1}
    BY DEF TInv, TypeOK, PendingTypes
  <2>2. CASE UNCHANGED <<policy_pending, policy_pending_max>>
    BY <2>1, <2>2
  <2>3. CASE \E i \in Index : FreePending(i)
    BY <1>2, <2>1, <2>3 DEF FreePending
  <2> QED
    BY <2>2, <2>3 DEF reap_children, Slot
<1>4. /\ pc' \in Phase
      /\ to_agent' \in Seq(ToAgentMsg)
      /\ answers' \in [Pid -> Nat]
  <2>1. pc \in Phase /\ to_agent \in Seq(ToAgentMsg) /\ answers \in [Pid -> Nat]
    BY DEF TInv, TypeOK, LoopTypes, PendingTypes, VchanTypes
  <2>2. CASE UNCHANGED <<pc, to_agent, answers>>
    BY <2>1, <2>2
  <2>3. ASSUME NEW i \in Index,
               Deliver(Refused(policy_pending[i].ident), "reap"),
               answers' = [answers EXCEPT ![p] = @ + 1]
        PROVE  pc' \in Phase /\ to_agent' \in Seq(ToAgentMsg) /\ answers' \in [Pid -> Nat]
    <3>1. Refused(policy_pending[i].ident) \in ToAgentMsg
      BY DEF TInv, TypeOK, PendingTypes, policy_pending_t, ToAgentMsg
    <3>2. "reap" \in Phase
      BY DEF Phase
    <3>3. TypeOK
      BY DEF TInv
    <3>4. pc' \in Phase /\ to_agent' \in Seq(ToAgentMsg)
      BY <2>3, <3>1, <3>2, <3>3, DeliverTypes
    <3> QED
      BY <2>1, <2>3, <3>4, SMT
  <2> QED
    BY <2>2, <2>3 DEF reap_children, Slot
<1>5. pc' # "accept"
  BY DEF reap_children, Deliver
<1> QED
  BY <1>1, <1>3, <1>4, <1>5 DEF reap_children, TInv, TypeOK, LoopTypes, ClientTypes,
     PendingTypes, PortTypes, VchanTypes, PeerInv, ListenInv

\* handle_agent_restart(): the part before the wait for an agent, and a
\* successful reconnection.
LEMMA RestartTInv ==
  ASSUME TInv, handle_agent_restart \/ \E v \in AgentVersions : handle_agent_restart_reconnected(v)
  PROVE  TInv'
<1>1. CASE handle_agent_restart
  <2>1. sock' \in [Conn -> Socket]
    <3>1. sock \in [Conn -> Socket]
      BY DEF TInv, TypeOK, ClientTypes
    <3> QED
      BY <1>1, <3>1, ClosedType DEF handle_agent_restart
  <2>2. /\ clients' \in [Index -> client_state]
        /\ peer' \in [Index -> Conn \cup {None}]
        /\ vchan_port_notify_client' \in [Index -> Index \cup {VCHAN_PORT_UNUSED}]
        /\ PeerInv'
    BY <1>1 DEF handle_agent_restart, client_state, PeerInv
  <2>3. policy_pending' \in [Index -> policy_pending_t]
    BY <1>1 DEF handle_agent_restart, FreeSlot, policy_pending_t, policy_response
  <2>4. ASSUME NEW k \in DOMAIN from_agent, from_agent[k].type = "CONNECTION_TERMINATED"
        PROVE  from_agent[k].port \in Index /\ from_agent[k].domain \in Domain
    <3>1. from_agent[k] \in FromAgentMsg
      BY SMT DEF TInv, TypeOK, VchanTypes
    <3> QED
      BY <2>4, <3>1 DEF FromAgentMsg
  <2>5. orphans' \in SUBSET [port : Index, domain : Domain]
    <3>1. orphans \in SUBSET [port : Index, domain : Domain]
      BY DEF TInv, TypeOK, PortTypes
    <3> QED
      BY <1>1, <2>4, <3>1, SMT DEF handle_agent_restart
  <2>6. backlog' = <<>> /\ from_agent' = <<>> /\ pc' \in Phase /\ pc' # "accept"
    BY <1>1 DEF handle_agent_restart, Phase
  <2>7. backlog' \in Seq(Conn) /\ from_agent' \in Seq(FromAgentMsg)
    BY <2>6, SMT
  <2> QED
    BY <1>1, <2>1, <2>2, <2>3, <2>5, <2>6, <2>7 DEF handle_agent_restart, TInv, TypeOK,
       LoopTypes, ClientTypes, PendingTypes, PortTypes, VchanTypes, ListenInv, DestInv
<1>2. ASSUME NEW v \in AgentVersions, handle_agent_restart_reconnected(v)
      PROVE  TInv'
  <2>1. negotiated(v) \in Nat
    BY DaemonAssumption DEF DaemonAssumption, negotiated, Min2, QREXEC_PROTOCOL_VERSION
  <2>2. agent' \in AgentState
    <3>1. agent \in AgentState
      BY DEF TInv, TypeOK, VchanTypes
    <3> QED
      BY <1>2, <2>1, <3>1 DEF handle_agent_restart_reconnected, AgentState
  <2> QED
    BY <1>2, <2>2 DEF handle_agent_restart_reconnected, TInv, TypeOK, LoopTypes, Phase,
       ClientTypes, PendingTypes, PortTypes, VchanTypes, PeerInv, ListenInv, DestInv,
       localVars, ghostVars
<1> QED
  BY <1>1, <1>2

\* handle_new_client(): a connection is taken off the backlog.
LEMMA NewClientTInv ==
  ASSUME TInv, handle_new_client
  PROVE  TInv'
<1> DEFINE c == Head(backlog)
<1>1. /\ backlog \in Seq(Conn) /\ backlog # <<>>
      /\ sock \in [Conn -> Socket]
      /\ clients \in [Index -> client_state]
      /\ peer \in [Index -> Conn \cup {None}]
      /\ max_client_fd \in Index \cup {-1}
      /\ None \notin Conn
  BY DaemonAssumption DEF TInv, TypeOK, ClientTypes, ListenInv, handle_new_client,
     DaemonAssumption, Conn
<1>2. c \in Conn /\ backlog' \in Seq(Conn)
  BY <1>1, SMT DEF handle_new_client
<1>3. fds' \in [listen : BOOLEAN, ready : SUBSET (Index \X Conn)] /\ fds'.listen = FALSE
  BY DEF handle_new_client, TInv, TypeOK, LoopTypes
<1>4. pc' \in Phase
  BY DEF handle_new_client, After, Phase
<1> HIDE DEF c
<1>5. CASE UNCHANGED <<clients, max_client_fd, peer>>
           /\ (UNCHANGED sock \/ sock' = [sock EXCEPT ![c] = Closed(@)])
  <2>1. sock' \in [Conn -> Socket]
    BY <1>1, <1>2, <1>5, ClosedType, SMT
  <2> QED
    BY <1>2, <1>3, <1>4, <1>5, <2>1 DEF handle_new_client, TInv, TypeOK, LoopTypes, ClientTypes,
       PendingTypes, PortTypes, VchanTypes, PeerInv, ListenInv, DestInv, vchanVars, ghostVars
<1>6. ASSUME NEW fd \in Index,
             clients' = [clients EXCEPT ![fd] = "HELLO"],
             peer' = [peer EXCEPT ![fd] = c],
             max_client_fd' = Max2(max_client_fd, fd),
             sock' = [sock EXCEPT ![c].st = "open"]
      PROVE  TInv'
  <2>1. sock' \in [Conn -> Socket]
    BY <1>1, <1>2, <1>6 DEF Socket
  <2>2. /\ clients' \in [Index -> client_state]
        /\ peer' \in [Index -> Conn \cup {None}]
        /\ max_client_fd' \in Index \cup {-1}
    BY <1>1, <1>2, <1>6 DEF client_state, Max2
  <2>3. PeerInv'
    BY <1>1, <1>2, <1>6 DEF PeerInv, TInv
  <2> QED
    BY <1>2, <1>3, <1>4, <2>1, <2>2, <2>3 DEF handle_new_client, TInv, TypeOK, LoopTypes,
       ClientTypes, PendingTypes, PortTypes, VchanTypes, ListenInv, DestInv, vchanVars, ghostVars
<1> QED
  BY <1>5, <1>6 DEF handle_new_client, c

\* handle_message_from_agent()
LEMMA AgentMessageTInv ==
  ASSUME TInv, handle_message_from_agent
  PROVE  TInv'
<1> DEFINE m == Head(from_agent)
<1>1. m \in FromAgentMsg /\ from_agent' \in Seq(FromAgentMsg)
  BY SMT DEF handle_message_from_agent, TInv, TypeOK, VchanTypes
<1>t. TypeOK /\ PeerInv
  BY DEF TInv
<1>a. "agent" \in Phase
  BY DEF Phase
<1> HIDE DEF m
<1>2. CASE /\ pc' = "exited"
           /\ UNCHANGED <<clients, peer, sock, vchan_port_notify_client, used_vchan_ports,
                          policy_pending, policy_pending_max, child, to_agent>>
  BY <1>1, <1>2 DEF handle_message_from_agent, TInv, TypeOK, LoopTypes, ClientTypes, Phase,
     PendingTypes, PortTypes, VchanTypes, PeerInv, ListenInv, DestInv, ghostVars
<1>3. CASE /\ m.type = "TRIGGER_SERVICE"
           /\ Deliver(Refused(m.ident), "agent")
           /\ UNCHANGED <<clients, peer, sock, vchan_port_notify_client, used_vchan_ports,
                          policy_pending, policy_pending_max, child>>
  <2>1. Refused(m.ident) \in ToAgentMsg
    BY <1>1, <1>3 DEF FromAgentMsg, ToAgentMsg
  <2>2. pc' \in Phase /\ to_agent' \in Seq(ToAgentMsg)
    BY <1>t, <1>a, <1>3, <2>1, DeliverTypes
  <2>3. pc' # "accept"
    BY <1>3 DEF Deliver
  <2> QED
    BY <1>1, <1>3, <2>2, <2>3 DEF handle_message_from_agent, TInv, TypeOK, LoopTypes, ClientTypes,
       PendingTypes, PortTypes, VchanTypes, PeerInv, ListenInv, DestInv, ghostVars
<1>4. ASSUME m.type = "TRIGGER_SERVICE",
             NEW i \in Index, NEW p \in Pid,
             policy_pending' = [policy_pending EXCEPT ![i] =
                [pid |-> p, ident |-> m.ident, response_sent |-> "PENDING"]],
             policy_pending_max' = PendingMark(i),
             child' = [child EXCEPT ![p].stage = "policy", ![p].ident = m.ident],
             pc' = "agent",
             UNCHANGED <<clients, peer, sock, vchan_port_notify_client, used_vchan_ports,
                         to_agent>>
      PROVE  TInv'
  <2>1. m.ident \in Ident
    BY <1>1, <1>4 DEF FromAgentMsg
  <2>2. /\ policy_pending \in [Index -> policy_pending_t]
        /\ policy_pending_max \in Index \cup {-1}
    BY <1>t DEF TypeOK, PendingTypes
  <2>3. policy_pending' \in [Index -> policy_pending_t]
    BY <1>4, <2>1, <2>2 DEF policy_pending_t, policy_response
  <2>4. policy_pending_max' \in Index \cup {-1}
    BY <1>4, <2>2 DEF PendingMark, Max2
  <2>5. child \in [Pid -> ChildProcess]
    BY <1>t DEF TypeOK, PendingTypes
  <2>6. child' \in [Pid -> ChildProcess]
    BY <1>4, <2>1, <2>5, ZenonT(30) DEF ChildProcess, ChildStage
  <2>7. DestInv'
    BY <1>4, <2>5 DEF TInv, DestInv, ChildProcess
  <2> QED
    BY <1>1, <1>4, <2>3, <2>4, <2>6, <2>7 DEF handle_message_from_agent, TInv, TypeOK, Phase,
       LoopTypes, ClientTypes, PendingTypes, PortTypes, VchanTypes, PeerInv, ListenInv, ghostVars
<1>5. CASE /\ m.type = "CONNECTION_TERMINATED"
           /\ release_vchan_port(m.port, m.domain)
           /\ UNCHANGED <<pc, policy_pending, policy_pending_max, child, to_agent>>
  <2>1. m.port \in Index /\ m.domain \in Domain
    BY <1>1, <1>5 DEF FromAgentMsg
  <2>2. orphans' = orphans
    BY DEF handle_message_from_agent, ghostVars
  <2>3. /\ clients' \in [Index -> client_state]
        /\ peer' \in [Index -> Conn \cup {None}]
        /\ sock' \in [Conn -> Socket]
        /\ PortTypes'
        /\ PeerInv'
    BY <1>t, <1>5, <2>1, <2>2, ReleaseTypes
  <2> QED
    BY <1>1, <1>5, <2>3 DEF handle_message_from_agent, TInv, TypeOK, LoopTypes, ClientTypes,
       PendingTypes, VchanTypes, ListenInv, DestInv, ghostVars
<1> QED
  BY <1>2, <1>3, <1>4, <1>5 DEF handle_message_from_agent, handle_execute_service, m

\* Serving a descriptor: what ppoll() reported stays well typed.
LEMMA ServingTypes ==
  ASSUME TypeOK, NEW fd \in Index, Serving(fd)
  PROVE  /\ pc = "clients"
         /\ fds' \in [listen : BOOLEAN, ready : SUBSET (Index \X Conn)]
BY DEF Serving, TypeOK, LoopTypes, Phase

\* The first element of a queue, and the rest.
LEMMA HeadTail ==
  ASSUME NEW S, NEW q \in Seq(S), q # <<>>
  PROVE  Head(q) \in S /\ Tail(q) \in Seq(S)
BY SMT

\* The message a client's connection holds first, and the rest of its queue.
LEMMA MessageTypes ==
  ASSUME TypeOK, PeerInv, NEW fd \in Index, clients[fd] # "INVALID", ~AtEOF(fd)
  PROVE  /\ peer[fd] \in Conn
         /\ Message(fd) \in ClientMsg
         /\ Tail(sock[peer[fd]].inq) \in Seq(ClientMsg)
<1>1. peer[fd] \in Conn
  BY DEF TypeOK, ClientTypes, PeerInv
<1>2. sock[peer[fd]].inq \in Seq(ClientMsg) /\ sock[peer[fd]].inq # <<>>
  BY <1>1 DEF TypeOK, ClientTypes, Socket, AtEOF
<1>3. Head(sock[peer[fd]].inq) \in ClientMsg /\ Tail(sock[peer[fd]].inq) \in Seq(ClientMsg)
  BY <1>2, HeadTail
<1> QED
  BY <1>1, <1>3 DEF Message

\* A message of a client that is not its hello has the fields of a request.
LEMMA RequestFields ==
  ASSUME NEW m \in ClientMsg, m.type # "HELLO"
  PROVE  /\ m.type \in {"EXEC", "SERVICE_CONNECT"}
         /\ m.ident \in Ident \cup {None}
         /\ m.port \in Index \cup {ANY_PORT}
         /\ m.domain \in Domain
<1>1. Hello.type = "HELLO"
  BY DEF Hello
<1>2. m # Hello
  BY <1>1
<1>3. m \in [type : {"EXEC", "SERVICE_CONNECT"}, ident : Ident \cup {None},
            port : Index \cup {ANY_PORT}, domain : Domain]
  BY <1>2 DEF ClientMsg
<1> QED
  BY <1>3

\* handle_message_from_client() and handle_client_hello()
LEMMA ClientMessageTInv ==
  ASSUME TInv, NEW fd \in Index,
         handle_message_from_client(fd) \/ handle_client_hello(fd)
  PROVE  TInv'
<1>t. TypeOK /\ PeerInv
  BY DEF TInv
<1>s. /\ pc = "clients"
      /\ fds' \in [listen : BOOLEAN, ready : SUBSET (Index \X Conn)]
  BY <1>t, ServingTypes DEF handle_message_from_client, handle_client_hello
<1>1. CASE handle_message_from_client(fd)
  <2>1. CASE UNCHANGED <<clients, peer, sock, vchan_port_notify_client>>
    BY <1>1, <1>s, <2>1 DEF handle_message_from_client, TInv, TypeOK, LoopTypes, ClientTypes,
       PendingTypes, PortTypes, VchanTypes, PeerInv, ListenInv, DestInv, vchanVars, ghostVars
  <2>2. CASE terminate_client(fd)
    <3>1. /\ clients' \in [Index -> client_state]
          /\ peer' \in [Index -> Conn \cup {None}]
          /\ sock' \in [Conn -> Socket]
          /\ vchan_port_notify_client' \in [Index -> Index \cup {VCHAN_PORT_UNUSED}]
          /\ PeerInv'
      BY <1>t, <2>2, TerminateTypes
    <3> QED
      BY <1>1, <1>s, <3>1 DEF handle_message_from_client, TInv, TypeOK, LoopTypes, ClientTypes,
         PendingTypes, PortTypes, VchanTypes, ListenInv, DestInv, vchanVars, ghostVars
  <2> QED
    BY <1>1, <2>1, <2>2 DEF handle_message_from_client
<1>2. CASE handle_client_hello(fd)
  <2> DEFINE q == Tail(sock[peer[fd]].inq)
  <2>1. peer[fd] \in Conn /\ q \in Seq(ClientMsg)
    BY <1>2, <1>t, MessageTypes DEF handle_client_hello
  <2>2. sock' = [sock EXCEPT ![peer[fd]].inq = q]
    BY <1>2 DEF handle_client_hello
  <2>3. sock \in [Conn -> Socket]
    BY <1>t DEF TypeOK, ClientTypes
  <2> HIDE DEF q
  <2>4. sock' \in [Conn -> Socket]
    BY <2>1, <2>2, <2>3, SocketUpdates
  <2>5. clients' \in [Index -> client_state] /\ PeerInv'
    BY <1>2, <1>t DEF handle_client_hello, TypeOK, ClientTypes, PeerInv, client_state
  <2> QED
    BY <1>2, <1>s, <2>4, <2>5 DEF handle_client_hello, TInv, TypeOK, LoopTypes, ClientTypes,
       PendingTypes, PortTypes, VchanTypes, ListenInv, DestInv, vchanVars, ghostVars
<1> QED
  BY <1>1, <1>2

\* The second half of handle_cmdline_body_from_client()
LEMMA ForwardTypes ==
  ASSUME TypeOK, PeerInv, NEW fd \in Index, NEW m \in ClientMsg, m.type # "HELLO",
         pc = "clients", clients[fd] # "INVALID", ~AtEOF(fd), ForwardToAgent(fd, m)
  PROVE  /\ pc' \in {"clients", "exited"}
         /\ to_agent' \in Seq(ToAgentMsg)
         /\ clients' \in [Index -> client_state]
         /\ peer' \in [Index -> Conn \cup {None}]
         /\ sock' \in [Conn -> Socket]
         /\ used_vchan_ports' \in [Index -> Domain \cup {VCHAN_PORT_UNUSED}]
         /\ vchan_port_notify_client' \in [Index -> Index \cup {VCHAN_PORT_UNUSED}]
         /\ PeerInv'
<1> DEFINE q == Tail(sock[peer[fd]].inq)
           fwd(port) == [type |-> m.type, ident |-> m.ident, port |-> port, domain |-> m.domain]
<1>1. peer[fd] \in Conn /\ q \in Seq(ClientMsg)
  BY MessageTypes
<1>2. /\ m.port \in Index \cup {ANY_PORT} /\ m.domain \in Domain
      /\ \A port \in Index : fwd(port) \in ToAgentMsg
  BY RequestFields DEF ToAgentMsg
<1>3. /\ sock \in [Conn -> Socket]
      /\ clients \in [Index -> client_state]
      /\ peer \in [Index -> Conn \cup {None}]
      /\ used_vchan_ports \in [Index -> Domain \cup {VCHAN_PORT_UNUSED}]
      /\ vchan_port_notify_client \in [Index -> Index \cup {VCHAN_PORT_UNUSED}]
      /\ to_agent \in Seq(ToAgentMsg)
  BY DEF TypeOK, ClientTypes, PortTypes, VchanTypes
<1>4. "clients" \in Phase
  BY DEF Phase
<1> HIDE DEF q, fwd
<1>5. ASSUME NEW port \in Index, Deliver(fwd(port), "clients")
      PROVE  pc' \in {"clients", "exited"} /\ to_agent' \in Seq(ToAgentMsg)
  <2>1. fwd(port) \in ToAgentMsg
    BY <1>2
  <2>2. to_agent' \in Seq(ToAgentMsg)
    BY <1>4, <1>5, <2>1, DeliverTypes
  <2> QED
    BY <1>5, <2>2 DEF Deliver
<1>6. ASSUME clients' = [clients EXCEPT ![fd] = "RUNNING"], UNCHANGED peer
      PROVE  clients' \in [Index -> client_state] /\ PeerInv'
  BY <1>3, <1>6 DEF client_state, PeerInv
<1>7. CASE terminate_client(fd) /\ UNCHANGED <<pc, to_agent, used_vchan_ports>>
  BY <1>3, <1>7, TerminateTypes
<1>8. ASSUME NEW i \in Index,
             used_vchan_ports' = [used_vchan_ports EXCEPT ![i] = m.domain],
             vchan_port_notify_client' = [vchan_port_notify_client EXCEPT ![i] = fd],
             Deliver(fwd(i), "clients"),
             clients' = [clients EXCEPT ![fd] = "RUNNING"],
             sock' = [sock EXCEPT ![peer[fd]].inq = q, ![peer[fd]].replied = TRUE],
             UNCHANGED peer
      PROVE  /\ pc' \in {"clients", "exited"}
             /\ to_agent' \in Seq(ToAgentMsg)
             /\ clients' \in [Index -> client_state]
             /\ peer' \in [Index -> Conn \cup {None}]
             /\ sock' \in [Conn -> Socket]
             /\ used_vchan_ports' \in [Index -> Domain \cup {VCHAN_PORT_UNUSED}]
             /\ vchan_port_notify_client' \in [Index -> Index \cup {VCHAN_PORT_UNUSED}]
             /\ PeerInv'
  <2>1. sock' \in [Conn -> Socket]
    BY <1>1, <1>3, <1>8, SocketUpdates
  <2>2. /\ used_vchan_ports' \in [Index -> Domain \cup {VCHAN_PORT_UNUSED}]
        /\ vchan_port_notify_client' \in [Index -> Index \cup {VCHAN_PORT_UNUSED}]
    BY <1>2, <1>3, <1>8
  <2> QED
    BY <1>3, <1>5, <1>6, <1>8, <2>1, <2>2
<1>9. CASE /\ m.port # ANY_PORT
           /\ Deliver(fwd(m.port), "clients")
           /\ clients' = [clients EXCEPT ![fd] = "RUNNING"]
           /\ sock' = [sock EXCEPT ![peer[fd]].inq = q]
           /\ UNCHANGED <<used_vchan_ports, vchan_port_notify_client, peer>>
  <2>1. sock' \in [Conn -> Socket]
    BY <1>1, <1>3, <1>9, SocketUpdates
  <2>2. m.port \in Index
    BY <1>2, <1>9
  <2> QED
    BY <1>3, <1>5, <1>6, <1>9, <2>1, <2>2
<1> QED
  BY <1>7, <1>8, <1>9 DEF ForwardToAgent, q, fwd

\* handle_cmdline_message_from_client()
LEMMA CmdlineTInv ==
  ASSUME TInv, NEW fd \in Index, handle_cmdline_message_from_client(fd)
  PROVE  TInv'
<1> DEFINE m == Message(fd)
<1>t. TypeOK /\ PeerInv
  BY DEF TInv
<1>s. /\ pc = "clients"
      /\ fds' \in [listen : BOOLEAN, ready : SUBSET (Index \X Conn)]
  BY <1>t, ServingTypes DEF handle_cmdline_message_from_client
<1>m. /\ clients[fd] # "INVALID" /\ ~AtEOF(fd)
      /\ m \in ClientMsg /\ m.type \in {"EXEC", "SERVICE_CONNECT"}
      /\ peer[fd] \in Conn
  BY <1>t, MessageTypes DEF handle_cmdline_message_from_client
<1> HIDE DEF m
<1>1. /\ pc' \in {"clients", "exited"}
      /\ to_agent' \in Seq(ToAgentMsg)
      /\ clients' \in [Index -> client_state]
      /\ peer' \in [Index -> Conn \cup {None}]
      /\ sock' \in [Conn -> Socket]
      /\ used_vchan_ports' \in [Index -> Domain \cup {VCHAN_PORT_UNUSED}]
      /\ vchan_port_notify_client' \in [Index -> Index \cup {VCHAN_PORT_UNUSED}]
      /\ PeerInv'
  <2>1. CASE ForwardToAgent(fd, m)
    BY <1>t, <1>s, <1>m, <2>1, ForwardTypes
  <2>2. CASE terminate_client(fd) /\ UNCHANGED <<pc, to_agent, used_vchan_ports>>
    BY <1>t, <1>s, <2>2, TerminateTypes DEF TypeOK, VchanTypes, PortTypes
  <2> QED
    BY <2>1, <2>2 DEF handle_cmdline_message_from_client, m
<1>2. /\ policy_pending' \in [Index -> policy_pending_t]
      /\ answers' \in [Pid -> Nat]
      /\ answerer' \in [Pid -> Conn \cup {None}]
  <2>1. /\ policy_pending \in [Index -> policy_pending_t]
        /\ answers \in [Pid -> Nat]
        /\ answerer \in [Pid -> Conn \cup {None}]
    BY <1>t DEF TypeOK, PendingTypes
  <2>2. CASE UNCHANGED <<policy_pending, answers, answerer>>
    BY <2>1, <2>2
  <2>3. ASSUME NEW i \in Index, NEW p,
               policy_pending' = [policy_pending EXCEPT ![i].response_sent = "ALLOW"],
               answers' = [answers EXCEPT ![p] = IF Forwarded THEN @ + 1 ELSE @],
               answerer' = [answerer EXCEPT ![p] = IF Forwarded THEN peer[fd] ELSE @]
        PROVE  /\ policy_pending' \in [Index -> policy_pending_t]
               /\ answers' \in [Pid -> Nat]
               /\ answerer' \in [Pid -> Conn \cup {None}]
    <3>1. policy_pending' \in [Index -> policy_pending_t]
      BY <2>1, <2>3 DEF policy_pending_t, policy_response
    <3>2. answers' \in [Pid -> Nat]
      <4>1. answers' = [answers EXCEPT ![p] = @ + 1] \/ answers' = [answers EXCEPT ![p] = @]
        BY <2>3
      <4>2. answers \in [Pid -> Nat]
        BY <2>1
      <4> QED
        BY <4>1, <4>2, SMT
    <3>3. answerer' \in [Pid -> Conn \cup {None}]
      BY <1>m, <2>1, <2>3
    <3> QED
      BY <3>1, <3>2, <3>3
  <2> QED
    BY <2>2, <2>3 DEF handle_cmdline_message_from_client
<1> QED
  BY <1>s, <1>1, <1>2 DEF handle_cmdline_message_from_client, TInv, TypeOK, LoopTypes, Phase,
     ClientTypes, PendingTypes, PortTypes, VchanTypes, ListenInv, DestInv

\* Every step preserves the type invariant and its three companions.
LEMMA StepTInv == TInv /\ [Next]_vars => TInv'
<1> SUFFICES ASSUME TInv, [Next]_vars PROVE TInv'
  OBVIOUS
<1>1. CASE Daemon
  <2>1. CASE loop_top \/ reap_children_done \/ ppoll_ready \/ ppoll_eintr
             \/ handle_agent_restart_failed \/ skip_phase
    BY <2>1, LoopTInv
  <2>2. CASE \E p \in Pid : reap_children(p)
    BY <2>2, ReapTInv
  <2>3. CASE handle_agent_restart \/ \E v \in AgentVersions : handle_agent_restart_reconnected(v)
    BY <2>3, RestartTInv
  <2>4. CASE handle_new_client
    BY <2>4, NewClientTInv
  <2>5. CASE handle_message_from_agent
    BY <2>5, AgentMessageTInv
  <2>6. CASE \E fd \in Index : handle_message_from_client(fd) \/ handle_client_hello(fd)
    BY <2>6, ClientMessageTInv
  <2>7. CASE \E fd \in Index : handle_cmdline_message_from_client(fd)
    BY <2>7, CmdlineTInv
  <2> QED
    BY <1>1, <2>1, <2>2, <2>3, <2>4, <2>5, <2>6, <2>7 DEF Daemon
<1>2. CASE signal_handler_sigterm \/ Exited \/ UNCHANGED vars
  BY <1>2, LoopTInv
<1>3. CASE \E p \in Pid : Child(p) \/ child_killed(p)
  BY <1>3, ChildTInv
<1>4. CASE \E u \in User : LocalUser(u)
  BY <1>4, UserTInv
<1>5. CASE Agent
  BY <1>5, AgentTInv
<1> QED
  BY <1>1, <1>2, <1>3, <1>4, <1>5 DEF Next

\* All of the daemon's tables, and the queues and processes around it, keep
\* their types in every reachable state.
THEOREM TypeCorrect == Spec => []TypeOK
<1>1. TInv => TypeOK
  BY DEF TInv
<1> QED
  BY <1>1, InitTInv, StepTInv, PTL DEF Spec

-----------------------------------------------------------------------------
(* Ports and clients *)

ClientHandler(fd) ==
    \/ handle_message_from_client(fd)
    \/ handle_client_hello(fd)
    \/ handle_cmdline_message_from_client(fd)

\* A child changes nothing in the daemon, its vchan or the agent.
LEMMA ChildFrame ==
  ASSUME NEW p \in Pid, Child(p) \/ child_killed(p)
  PROVE  UNCHANGED <<daemonVars, vchanVars, agent, ghostVars>>
<1>1. ASSUME NEW status, ChildExits(p, status)
      PROVE  UNCHANGED <<daemonVars, vchanVars, agent, ghostVars>>
  BY <1>1 DEF ChildExits
<1>2. child_refused(p) \/ child_disconnected(p) \/ child_exit(p) \/ child_killed(p) =>
         \E status \in ExitStatus : ChildExits(p, status)
  BY DEF child_refused, child_disconnected, child_exit, child_killed, ExitStatus
<1>3. ASSUME NEW d, NEW q, child_connect(p, d, q)
      PROVE  UNCHANGED <<daemonVars, vchanVars, agent, ghostVars>>
  BY <1>3 DEF child_connect
<1>4. CASE send_service_connect(p)
  BY <1>4 DEF send_service_connect
<1> QED
  BY <1>1, <1>2, <1>3, <1>4 DEF Child

\* Only five handlers touch the client and port tables.
LEMMA ClientFrame ==
  [Next]_vars =>
    \/ UNCHANGED <<clients, peer, max_client_fd, used_vchan_ports, vchan_port_notify_client>>
    \/ handle_agent_restart
    \/ handle_new_client
    \/ handle_message_from_agent
    \/ \E fd \in Index : ClientHandler(fd)
<1> SUFFICES ASSUME [Next]_vars
             PROVE  \/ UNCHANGED <<clients, peer, max_client_fd, used_vchan_ports,
                                   vchan_port_notify_client>>
                    \/ handle_agent_restart
                    \/ handle_new_client
                    \/ handle_message_from_agent
                    \/ \E fd \in Index : ClientHandler(fd)
  OBVIOUS
<1>1. CASE Daemon
  BY <1>1 DEF Daemon, ClientHandler, loop_top, reap_children, reap_children_done, ppoll_ready,
     ppoll_eintr, handle_agent_restart_reconnected, handle_agent_restart_failed, skip_phase
<1>2. CASE signal_handler_sigterm \/ Exited \/ UNCHANGED vars
  BY <1>2 DEF signal_handler_sigterm, Exited, vars, daemonVars
<1>3. CASE \E p \in Pid : Child(p) \/ child_killed(p)
  <2>1. UNCHANGED daemonVars
    BY <1>3, ChildFrame
  <2> QED
    BY <2>1 DEF daemonVars
<1>4. CASE \E u \in User : LocalUser(u)
  BY <1>4 DEF LocalUser, user_connect, negotiate_connection_params, user_close, UserStep,
     daemonVars
<1>5. CASE Agent
  BY <1>5 DEF Agent, agent_trigger, agent_receive, agent_terminated, agent_crash, AgentStep,
     daemonVars
<1> QED
  BY <1>1, <1>2, <1>3, <1>4, <1>5 DEF Next

\* terminate_client() takes the client out of the notification table.
LEMMA TerminateNotify ==
  ASSUME TInv, NotifyConsistent, NEW fd \in Index, terminate_client(fd),
         NEW port \in Index,
         \/ UNCHANGED used_vchan_ports
         \/ /\ used_vchan_ports' = [used_vchan_ports EXCEPT ![port] = VCHAN_PORT_UNUSED]
            /\ vchan_port_notify_client[port] = fd
  PROVE  NotifyConsistent'
<1>1. /\ clients \in [Index -> client_state]
      /\ used_vchan_ports \in [Index -> Domain \cup {VCHAN_PORT_UNUSED}]
      /\ vchan_port_notify_client \in [Index -> Index \cup {VCHAN_PORT_UNUSED}]
  BY DEF TInv, TypeOK, ClientTypes, PortTypes
<1> SUFFICES ASSUME NEW i \in Index, vchan_port_notify_client'[i] # VCHAN_PORT_UNUSED
             PROVE  /\ clients'[vchan_port_notify_client'[i]] = "RUNNING"
                    /\ used_vchan_ports'[i] # VCHAN_PORT_UNUSED
                    /\ \A j \in Index :
                          vchan_port_notify_client'[j] = vchan_port_notify_client'[i] => j = i
  BY DEF NotifyConsistent
<1>2. /\ vchan_port_notify_client'[i] = vchan_port_notify_client[i]
      /\ vchan_port_notify_client[i] # fd
      /\ vchan_port_notify_client[i] \in Index
  BY <1>1 DEF terminate_client
<1>3. clients'[vchan_port_notify_client'[i]] = "RUNNING"
  BY <1>1, <1>2 DEF terminate_client, NotifyConsistent
<1>4. used_vchan_ports'[i] # VCHAN_PORT_UNUSED
  BY <1>1, <1>2 DEF NotifyConsistent
<1>5. \A j \in Index : vchan_port_notify_client'[j] = vchan_port_notify_client'[i] => j = i
  BY <1>1, <1>2 DEF terminate_client, NotifyConsistent
<1> QED
  BY <1>3, <1>4, <1>5

\* Every step keeps the client to notify running, and its port reserved.
LEMMA StepNotify == TInv /\ NotifyConsistent /\ [Next]_vars => NotifyConsistent'
<1> SUFFICES ASSUME TInv, NotifyConsistent, [Next]_vars PROVE NotifyConsistent'
  OBVIOUS
<1>t. /\ clients \in [Index -> client_state]
      /\ used_vchan_ports \in [Index -> Domain \cup {VCHAN_PORT_UNUSED}]
      /\ vchan_port_notify_client \in [Index -> Index \cup {VCHAN_PORT_UNUSED}]
      /\ PeerInv
  BY DEF TInv, TypeOK, ClientTypes, PortTypes
<1>1. CASE UNCHANGED <<clients, peer, max_client_fd, used_vchan_ports, vchan_port_notify_client>>
  BY <1>1 DEF NotifyConsistent
<1>2. CASE handle_agent_restart
  BY <1>2 DEF handle_agent_restart, NotifyConsistent
<1>3. CASE handle_new_client
  <2>1. UNCHANGED <<used_vchan_ports, vchan_port_notify_client>>
    BY <1>3 DEF handle_new_client
  <2>2. CASE UNCHANGED clients
    BY <2>1, <2>2 DEF NotifyConsistent
  <2>3. ASSUME NEW fd \in FreeFds, clients' = [clients EXCEPT ![fd] = "HELLO"]
        PROVE  NotifyConsistent'
    <3>1. \A i \in Index : vchan_port_notify_client[i] # fd
      BY <1>t, <2>3, SMT DEF FreeFds, PeerInv, NotifyConsistent, VCHAN_PORT_UNUSED, Index
    <3> QED
      BY <1>t, <2>1, <2>3, <3>1 DEF NotifyConsistent
  <2> QED
    BY <1>3, <2>2, <2>3 DEF handle_new_client, IsFirst
<1>4. CASE handle_message_from_agent
  <2>1. CASE UNCHANGED <<clients, vchan_port_notify_client, used_vchan_ports>>
    BY <2>1 DEF NotifyConsistent
  <2>2. ASSUME NEW port \in Index, NEW d \in Domain, release_vchan_port(port, d)
        PROVE  NotifyConsistent'
    <3>1. CASE vchan_port_notify_client[port] = VCHAN_PORT_UNUSED
      BY <1>t, <2>2, <3>1, SMT DEF release_vchan_port, NotifyConsistent
    <3>2. CASE /\ vchan_port_notify_client[port] # VCHAN_PORT_UNUSED
               /\ UNCHANGED <<used_vchan_ports, clients, vchan_port_notify_client>>
      BY <3>2 DEF NotifyConsistent
    <3>3. CASE /\ vchan_port_notify_client[port] # VCHAN_PORT_UNUSED
               /\ used_vchan_ports' = [used_vchan_ports EXCEPT ![port] = VCHAN_PORT_UNUSED]
               /\ terminate_client(vchan_port_notify_client[port])
      <4>1. vchan_port_notify_client[port] \in Index
        BY <1>t, <3>3
      <4> QED
        BY <3>3, <4>1, TerminateNotify
    <3> QED
      BY <2>2, <3>1, <3>2, <3>3 DEF release_vchan_port
  <2>3. ASSUME Head(from_agent).type = "CONNECTION_TERMINATED"
        PROVE  Head(from_agent).port \in Index /\ Head(from_agent).domain \in Domain
    <3>1. Head(from_agent) \in FromAgentMsg
      BY <1>4, SMT DEF handle_message_from_agent, TInv, TypeOK, VchanTypes
    <3> QED
      BY <2>3, <3>1 DEF FromAgentMsg
  <2> QED
    BY <1>4, <2>1, <2>2, <2>3 DEF handle_message_from_agent
<1>5. ASSUME NEW fd \in Index, terminate_client(fd), UNCHANGED used_vchan_ports
      PROVE  NotifyConsistent'
  BY <1>5, TerminateNotify
<1>6. ASSUME NEW fd \in Index, handle_message_from_client(fd)
      PROVE  NotifyConsistent'
  <2>1. UNCHANGED used_vchan_ports
    BY <1>6 DEF handle_message_from_client
  <2>2. CASE UNCHANGED <<clients, vchan_port_notify_client>>
    BY <2>1, <2>2 DEF NotifyConsistent
  <2> QED
    BY <1>5, <1>6, <2>1, <2>2 DEF handle_message_from_client
<1>7. ASSUME NEW fd \in Index, handle_client_hello(fd)
      PROVE  NotifyConsistent'
  BY <1>7, <1>t DEF handle_client_hello, NotifyConsistent
<1>8. ASSUME NEW fd \in Index, NEW m \in ClientMsg, m.type # "HELLO", clients[fd] = "CMDLINE",
             ForwardToAgent(fd, m)
      PROVE  NotifyConsistent'
  <2>1. m.domain \in Domain
    BY <1>8, RequestFields
  <2>2. m.domain # VCHAN_PORT_UNUSED
    BY <2>1, DaemonAssumption, SMT DEF DaemonAssumption, VCHAN_PORT_UNUSED
  <2>3. fd # VCHAN_PORT_UNUSED
    BY SMT DEF VCHAN_PORT_UNUSED, Index
  <2>4. \A i \in Index : vchan_port_notify_client[i] # fd
    BY <1>8, <1>t, <2>3 DEF NotifyConsistent
  <2>5. CASE terminate_client(fd) /\ UNCHANGED used_vchan_ports
    BY <1>5, <2>5
  <2>6. ASSUME NEW i \in FreePorts(m.domain),
               used_vchan_ports' = [used_vchan_ports EXCEPT ![i] = m.domain],
               vchan_port_notify_client' = [vchan_port_notify_client EXCEPT ![i] = fd],
               clients' = [clients EXCEPT ![fd] = "RUNNING"]
        PROVE  NotifyConsistent'
    <3>1. i \in Index /\ used_vchan_ports[i] = VCHAN_PORT_UNUSED
      BY DEF FreePorts, OwnPorts
    <3> QED
      BY <1>t, <2>2, <2>4, <2>6, <3>1 DEF NotifyConsistent
  <2>7. CASE /\ clients' = [clients EXCEPT ![fd] = "RUNNING"]
             /\ UNCHANGED <<used_vchan_ports, vchan_port_notify_client>>
    BY <1>t, <2>7 DEF NotifyConsistent
  <2> QED
    BY <1>8, <2>5, <2>6, <2>7 DEF ForwardToAgent, IsFirst
<1>9. ASSUME NEW fd \in Index, handle_cmdline_message_from_client(fd)
      PROVE  NotifyConsistent'
  <2>1. Message(fd) \in ClientMsg
    BY <1>9, MessageTypes DEF handle_cmdline_message_from_client, TInv
  <2> QED
    BY <1>5, <1>8, <1>9, <2>1 DEF handle_cmdline_message_from_client
<1> QED
  BY <1>1, <1>2, <1>3, <1>4, <1>6, <1>7, <1>9, ClientFrame DEF ClientHandler

\* terminate_client() and release_vchan_port() keep the port table, the
\* notification table and the clients consistent in every reachable state.
THEOREM NotifyCorrect == Spec => []NotifyConsistent
<1>1. Init => NotifyConsistent
  BY DEF Init, NotifyConsistent
<1> QED
  BY <1>1, InitTInv, StepTInv, StepNotify, PTL DEF Spec

-----------------------------------------------------------------------------
(* Requests and their answers *)

\* Which request a slot holds, and what has been answered for it.
SlotInv ==
    /\ \A i \in Index : policy_pending[i].pid # None =>
          /\ child[policy_pending[i].pid].stage # "unborn"
          /\ policy_pending[i].response_sent = "PENDING" => answers[policy_pending[i].pid] = 0
          /\ \A j \in Index : policy_pending[j].pid = policy_pending[i].pid => j = i
    /\ \A p \in Pid : child[p].stage = "unborn" => answers[p] = 0

\* Only four handlers touch the table of pending requests or answer one, and
\* no process is ever unborn again.
LEMMA PendingFrame ==
  ASSUME TInv, [Next]_vars
  PROVE  \/ /\ UNCHANGED <<policy_pending, policy_pending_max, answers>>
            /\ \A q \in Pid : child'[q].stage = "unborn" => child[q].stage = "unborn"
         \/ \E p \in Pid : reap_children(p)
         \/ handle_agent_restart
         \/ handle_message_from_agent
         \/ \E fd \in Index : handle_cmdline_message_from_client(fd)
<1>t. child \in [Pid -> ChildProcess]
  BY DEF TInv, TypeOK, PendingTypes
<1>1. CASE Daemon
  <2>1. CASE \/ loop_top \/ reap_children_done \/ ppoll_ready \/ ppoll_eintr
             \/ handle_agent_restart_failed \/ skip_phase
             \/ \E v \in AgentVersions : handle_agent_restart_reconnected(v)
    BY <2>1 DEF loop_top, reap_children_done, ppoll_ready, ppoll_eintr, localVars, ghostVars,
       handle_agent_restart_reconnected, handle_agent_restart_failed, skip_phase
  <2>2. CASE handle_new_client
    BY <2>2 DEF handle_new_client, ghostVars
  <2>3. CASE \E fd \in Index : handle_message_from_client(fd) \/ handle_client_hello(fd)
    BY <2>3 DEF handle_message_from_client, handle_client_hello, ghostVars
  <2> QED
    BY <1>1, <2>1, <2>2, <2>3 DEF Daemon
<1>2. CASE signal_handler_sigterm \/ Exited \/ UNCHANGED vars
  BY <1>2 DEF signal_handler_sigterm, Exited, vars, daemonVars, localVars, ghostVars
<1>3. ASSUME NEW p \in Pid, Child(p) \/ child_killed(p)
      PROVE  /\ UNCHANGED <<policy_pending, policy_pending_max, answers>>
             /\ \A q \in Pid : child'[q].stage = "unborn" => child[q].stage = "unborn"
  <2>1. UNCHANGED <<policy_pending, policy_pending_max, answers>>
    <3>1. UNCHANGED <<daemonVars, ghostVars>>
      BY <1>3, ChildFrame
    <3> QED
      BY <3>1 DEF daemonVars, ghostVars
  <2>2. child[p].stage # "unborn"
    BY <1>3 DEF Child, child_refused, child_connect, send_service_connect, child_disconnected,
       child_exit, child_killed, AwaitsDaemon
  <2>3. ASSUME NEW status, ChildExits(p, status)
        PROVE  \A q \in Pid : child'[q].stage = "unborn" => child[q].stage = "unborn"
    BY <1>t, <2>3 DEF ChildExits, Unborn
  <2>4. ASSUME NEW d, NEW q, child_connect(p, d, q)
        PROVE  \A r \in Pid : child'[r].stage = "unborn" => child[r].stage = "unborn"
    BY <1>t, <2>4 DEF child_connect, ChildProcess
  <2>5. CASE send_service_connect(p)
    BY <1>t, <2>1, <2>5 DEF send_service_connect, ChildProcess
  <2>6. child_refused(p) \/ child_disconnected(p) \/ child_exit(p) \/ child_killed(p) =>
           \E status \in ExitStatus : ChildExits(p, status)
    BY DEF child_refused, child_disconnected, child_exit, child_killed, ExitStatus
  <2>7. \/ \E status \in ExitStatus : ChildExits(p, status)
        \/ \E d \in Domain, q \in Index \cup {ANY_PORT} : child_connect(p, d, q)
        \/ send_service_connect(p)
    BY <1>3, <2>6 DEF Child, OtherDaemonPorts
  <2> QED
    BY <2>1, <2>3, <2>4, <2>5, <2>7
<1>4. CASE \E u \in User : LocalUser(u)
  BY <1>4 DEF LocalUser, user_connect, negotiate_connection_params, user_close, UserStep,
     daemonVars, ghostVars
<1>5. CASE Agent
  BY <1>5 DEF Agent, agent_trigger, agent_receive, agent_terminated, agent_crash, AgentStep,
     daemonVars, localVars
<1> QED
  BY <1>1, <1>2, <1>3, <1>4, <1>5 DEF Next

\* Marks and slots under the handlers that change them.
PendingInv == SlotInv /\ AnsweredAtMostOnce /\
              (\A i \in Index : policy_pending[i].pid # None => i <= policy_pending_max)

\* Every step keeps a request in at most one slot, unanswered while it is PENDING
\* there, and below the mark.
LEMMA StepPending == TInv /\ PendingInv /\ [Next]_vars => PendingInv'
<1> SUFFICES ASSUME TInv, PendingInv, [Next]_vars PROVE PendingInv'
  OBVIOUS
<1>t. /\ policy_pending \in [Index -> policy_pending_t]
      /\ policy_pending_max \in Index \cup {-1}
      /\ answers \in [Pid -> Nat]
  BY DEF TInv, TypeOK, PendingTypes
<1>c. child \in [Pid -> ChildProcess]
  BY DEF TInv, TypeOK, PendingTypes
<1>p. \A i \in Index : policy_pending[i].pid \in Pid \cup {None}
  BY <1>t DEF policy_pending_t
<1>1. CASE /\ UNCHANGED <<policy_pending, policy_pending_max, answers>>
           /\ \A q \in Pid : child'[q].stage = "unborn" => child[q].stage = "unborn"
  BY <1>1, <1>p DEF PendingInv, SlotInv, AnsweredAtMostOnce
<1>2. ASSUME NEW p \in Pid, reap_children(p)
      PROVE  PendingInv'
  <2>1. \A q \in Pid : child'[q].stage = "unborn" => child[q].stage = "unborn"
    BY <1>2, <1>c DEF reap_children, ChildProcess
  <2>2. CASE UNCHANGED <<policy_pending, policy_pending_max, answers>>
    BY <1>p, <2>1, <2>2 DEF PendingInv, SlotInv, AnsweredAtMostOnce
  <2>3. ASSUME NEW i \in Slot(p), FreePending(i),
               \/ UNCHANGED answers
               \/ NeedsRefusal(p, i) /\ answers' = [answers EXCEPT ![p] = @ + 1]
        PROVE  PendingInv'
    <3>1. i \in Index /\ policy_pending[i].pid = p /\ p # None
      BY DaemonAssumption DEF Slot, DaemonAssumption
    <3>2. policy_pending' = [policy_pending EXCEPT ![i] = FreeSlot]
      BY <2>3 DEF FreePending
    <3>3. policy_pending'[i].pid = None /\ \A j \in Index \ {i} : policy_pending'[j] = policy_pending[j]
      BY <1>t, <3>1, <3>2 DEF FreeSlot
    <3>4. \A j \in Index : policy_pending'[j].pid # None => policy_pending[j].pid # p
      BY <3>1, <3>3 DEF PendingInv, SlotInv
    <3>5. NeedsRefusal(p, i) => answers[p] = 0
      BY <3>1 DEF NeedsRefusal, PendingInv, SlotInv
    <3>6. \A q \in Pid : answers'[q] = answers[q] \/ (q = p /\ answers[q] = 0 /\ answers'[q] = 1)
      BY <1>t, <2>3, <3>5, SMT
    <3>7. AnsweredAtMostOnce'
      BY <3>6, SMT DEF AnsweredAtMostOnce, PendingInv
    <3>8. child[p].stage # "unborn"
      BY <1>2 DEF reap_children, Zombies
    <3>9. SlotInv'
      BY <1>p, <2>1, <3>3, <3>4, <3>6, <3>8, SMT DEF SlotInv, PendingInv
    <3>10. \A j \in Index : policy_pending'[j].pid # None => j <= policy_pending_max'
      <4>1. policy_pending_max' \in Index /\ Shrunk(policy_pending', policy_pending_max')
        BY <2>3 DEF FreePending
      <4>2. \A j \in Index : policy_pending'[j].pid # None => j <= policy_pending_max
        BY <3>3 DEF PendingInv
      <4> QED
        BY <1>t, <4>1, <4>2, SMT DEF Shrunk, Index
    <3> QED
      BY <3>7, <3>9, <3>10 DEF PendingInv
  <2> QED
    BY <1>2, <2>2, <2>3 DEF reap_children
<1>3. CASE handle_agent_restart
  BY <1>3 DEF handle_agent_restart, PendingInv, SlotInv, AnsweredAtMostOnce, FreeSlot
<1>4. CASE handle_message_from_agent
  <2>1. UNCHANGED answers
    BY <1>4 DEF handle_message_from_agent, ghostVars
  <2>2. CASE UNCHANGED <<policy_pending, policy_pending_max, child>>
    BY <2>1, <2>2 DEF PendingInv, SlotInv, AnsweredAtMostOnce
  <2>3. ASSUME NEW i \in FreeSlots, NEW p \in Pid, child[p].stage = "unborn", NEW id,
               policy_pending' = [policy_pending EXCEPT ![i] =
                  [pid |-> p, ident |-> id, response_sent |-> "PENDING"]],
               policy_pending_max' = PendingMark(i),
               child' = [child EXCEPT ![p].stage = "policy", ![p].ident = id]
        PROVE  PendingInv'
    <3>1. i \in Index /\ policy_pending[i].pid = None
      BY DEF FreeSlots
    <3>2. /\ policy_pending'[i].pid = p
          /\ \A j \in Index \ {i} : policy_pending'[j] = policy_pending[j]
      BY <1>t, <2>3, <3>1
    <3>3. /\ child'[p].stage = "policy"
          /\ \A q \in Pid \ {p} : child'[q] = child[q]
      BY <1>c, <2>3 DEF ChildProcess
    <3>a. p # None
      BY DaemonAssumption DEF DaemonAssumption
    <3>4. answers[p] = 0 /\ \A j \in Index : policy_pending[j].pid # p
      BY <2>3, <3>a DEF PendingInv, SlotInv
    <3>5. SlotInv'
      <4>1. ASSUME NEW j \in Index, policy_pending'[j].pid # None
            PROVE  /\ child'[policy_pending'[j].pid].stage # "unborn"
                   /\ policy_pending'[j].response_sent = "PENDING" =>
                         answers'[policy_pending'[j].pid] = 0
                   /\ \A k \in Index : policy_pending'[k].pid = policy_pending'[j].pid => k = j
        <5>1. CASE j = i
          BY <2>1, <3>2, <3>3, <3>4, <5>1
        <5>2. CASE j # i
          <6>1. policy_pending'[j] = policy_pending[j] /\ policy_pending[j].pid \in Pid \ {p}
            BY <1>p, <3>2, <3>4, <4>1, <5>2, SMT
          <6> QED
            BY <2>1, <3>2, <3>3, <4>1, <6>1, SMT DEF PendingInv, SlotInv
        <5> QED
          BY <5>1, <5>2
      <4>2. \A q \in Pid : child'[q].stage = "unborn" => answers'[q] = 0
        BY <2>1, <3>3 DEF PendingInv, SlotInv
      <4> QED
        BY <4>1, <4>2 DEF SlotInv
    <3>6. policy_pending_max' \in Int /\ i <= policy_pending_max'
          /\ policy_pending_max <= policy_pending_max'
      BY <1>t, <2>3, <3>1, SMT DEF PendingMark, Max2, Index
    <3>7. \A j \in Index : policy_pending'[j].pid # None => j <= policy_pending_max'
      BY <1>t, <3>1, <3>2, <3>6, SMT DEF PendingInv, Index
    <3> QED
      BY <2>1, <3>5, <3>7 DEF PendingInv, AnsweredAtMostOnce
  <2> QED
    BY <1>4, <2>2, <2>3, ZenonT(30) DEF handle_message_from_agent, handle_execute_service, IsFirst
<1>5. ASSUME NEW fd \in Index, handle_cmdline_message_from_client(fd)
      PROVE  PendingInv'
  <2>1. UNCHANGED <<policy_pending_max, child>>
    BY <1>5 DEF handle_cmdline_message_from_client
  <2>2. CASE UNCHANGED <<policy_pending, answers>>
    BY <2>1, <2>2 DEF PendingInv, SlotInv, AnsweredAtMostOnce
  <2>3. ASSUME NEW id, NEW i \in Matching(id),
               policy_pending' = [policy_pending EXCEPT ![i].response_sent = "ALLOW"],
               answers' = [answers EXCEPT ![policy_pending[i].pid] = IF Forwarded THEN @ + 1 ELSE @]
        PROVE  PendingInv'
    <3> DEFINE p == policy_pending[i].pid
    <3>1. i \in Index /\ p # None /\ policy_pending[i].response_sent = "PENDING"
      BY DEF Matching
    <3>2. p \in Pid
      BY <1>p, <3>1
    <3>3. answers[p] = 0 /\ \A j \in Index : policy_pending[j].pid = p => j = i
      BY <3>1 DEF PendingInv, SlotInv
    <3>4. /\ policy_pending'[i].pid = p /\ policy_pending'[i].response_sent = "ALLOW"
          /\ \A j \in Index \ {i} : policy_pending'[j] = policy_pending[j]
      BY <1>t, <2>3, <3>1 DEF policy_pending_t
    <3>5. answers' = [answers EXCEPT ![p] = @ + 1] \/ answers' = [answers EXCEPT ![p] = @]
      BY <2>3
    <3> HIDE DEF p
    <3>6. \A q \in Pid : answers'[q] = answers[q] \/ (q = p /\ answers'[q] = 1)
      BY <1>t, <3>2, <3>3, <3>5, SMT
    <3>7. child[p].stage # "unborn"
      BY <3>1 DEF PendingInv, SlotInv, p
    <3>8. SlotInv'
      <4>1. \A j \in Index : policy_pending'[j].pid = policy_pending[j].pid
        BY <3>4 DEF p
      <4>2. \A j \in Index : policy_pending'[j].pid # None
                             /\ policy_pending'[j].response_sent = "PENDING" =>
               answers'[policy_pending'[j].pid] = 0
        BY <1>p, <3>3, <3>4, <3>6, SMT DEF PendingInv, SlotInv
      <4> QED
        BY <2>1, <3>6, <3>7, <4>1, <4>2, SMT DEF PendingInv, SlotInv
    <3>9. AnsweredAtMostOnce'
      BY <3>6, SMT DEF PendingInv, AnsweredAtMostOnce
    <3> QED
      BY <2>1, <3>4, <3>8, <3>9 DEF PendingInv, p
  <2> QED
    BY <1>5, <2>2, <2>3 DEF handle_cmdline_message_from_client, IsFirst
<1> QED
  BY <1>1, <1>2, <1>3, <1>4, <1>5, PendingFrame

\* No service request is answered twice, in any interleaving of its child's
\* MSG_SERVICE_CONNECT, the child's exit, other children with the same
\* identifier, and restarts of the agent.
THEOREM AnswerCorrect == Spec => []AnsweredAtMostOnce
<1>1. Init => PendingInv
  BY SMT DEF Init, PendingInv, SlotInv, AnsweredAtMostOnce, FreeSlot
<1>2. PendingInv => AnsweredAtMostOnce
  BY DEF PendingInv
<1> QED
  BY <1>1, <1>2, InitTInv, StepTInv, StepPending, PTL DEF Spec

\* MarksCoverTables: the part about clients.
ClientMark == \A i \in Index : clients[i] # "INVALID" => i <= max_client_fd

\* Every step keeps the live clients below max_client_fd.
LEMMA StepClientMark == TInv /\ ClientMark /\ [Next]_vars => ClientMark'
<1> SUFFICES ASSUME TInv, ClientMark, [Next]_vars PROVE ClientMark'
  OBVIOUS
<1>t. /\ clients \in [Index -> client_state]
      /\ max_client_fd \in Index \cup {-1}
      /\ PeerInv
  BY DEF TInv, TypeOK, ClientTypes
<1>1. CASE UNCHANGED <<clients, peer, max_client_fd, used_vchan_ports, vchan_port_notify_client>>
  BY <1>1 DEF ClientMark
<1>2. CASE handle_agent_restart
  BY <1>2 DEF handle_agent_restart, ClientMark
<1>3. CASE handle_new_client
  <2>1. CASE UNCHANGED <<clients, max_client_fd>>
    BY <2>1 DEF ClientMark
  <2>2. ASSUME NEW fd \in Index, clients' = [clients EXCEPT ![fd] = "HELLO"],
               max_client_fd' = Max2(max_client_fd, fd)
        PROVE  ClientMark'
    BY <1>t, <2>2, SMT DEF ClientMark, Max2, Index
  <2> QED
    BY <1>3, <2>1, <2>2 DEF handle_new_client
<1>4. ASSUME UNCHANGED max_client_fd,
             \A fd \in Index : clients'[fd] = "INVALID" \/ clients[fd] # "INVALID"
      PROVE  ClientMark'
  BY <1>4 DEF ClientMark
<1>5. ASSUME NEW fd, terminate_client(fd)
      PROVE  \A g \in Index : clients'[g] = "INVALID" \/ clients[g] # "INVALID"
  BY <1>t, <1>5 DEF terminate_client
<1>6. CASE handle_message_from_agent
  <2>1. UNCHANGED max_client_fd
    BY <1>6 DEF handle_message_from_agent
  <2>2. UNCHANGED clients \/ \E fd \in {vchan_port_notify_client[i] : i \in {Head(from_agent).port}} :
           terminate_client(fd)
    BY <1>6 DEF handle_message_from_agent, release_vchan_port
  <2> QED
    BY <1>4, <1>5, <2>1, <2>2
<1>7. ASSUME NEW fd \in Index, ClientHandler(fd)
      PROVE  ClientMark'
  <2>1. UNCHANGED max_client_fd
    BY <1>7 DEF ClientHandler, handle_message_from_client, handle_client_hello,
       handle_cmdline_message_from_client
  <2>2. \/ UNCHANGED clients
        \/ terminate_client(fd)
        \/ clients[fd] # "INVALID" /\ \E s \in client_state : clients' = [clients EXCEPT ![fd] = s]
    BY <1>7 DEF ClientHandler, handle_message_from_client, handle_client_hello, client_state,
       handle_cmdline_message_from_client, ForwardToAgent
  <2> QED
    BY <1>t, <1>4, <1>5, <2>1, <2>2
<1> QED
  BY <1>1, <1>2, <1>3, <1>6, <1>7, ClientFrame

\* policy_pending_max and max_client_fd bound the entries in use, so the scans
\* of reap_children(), handle_cmdline_body_from_client() and the poll set-up
\* miss none.
THEOREM MarksCorrect == Spec => []MarksCoverTables
<1>1. Init => PendingInv /\ ClientMark
  BY SMT DEF Init, PendingInv, SlotInv, AnsweredAtMostOnce, FreeSlot, ClientMark
<1>2. PendingInv /\ ClientMark => MarksCoverTables
  BY DEF PendingInv, ClientMark, MarksCoverTables
<1> QED
  BY <1>1, <1>2, InitTInv, StepTInv, StepPending, StepClientMark, PTL DEF Spec

-----------------------------------------------------------------------------
(* Descriptors reported by ppoll() *)

\* Before the agent's messages are handled every reported descriptor is still
\* the connection it was reported for; afterwards it may also be closed.
ReadyInv ==
    \A r \in fds.ready : peer[r[1]] = r[2] \/ (pc # "accept" /\ peer[r[1]] = None)

\* Every step but seven leaves the connections alone, reports nothing new and
\* does not start the accept phase.
LEMMA ReadyFrame ==
  [Next]_vars =>
    \/ UNCHANGED <<peer, fds>> /\ (pc' = "accept" => pc = "accept")
    \/ ppoll_ready
    \/ handle_agent_restart
    \/ handle_new_client
    \/ handle_message_from_agent
    \/ \E fd \in Index : ClientHandler(fd)
<1> SUFFICES ASSUME [Next]_vars
             PROVE  \/ UNCHANGED <<peer, fds>> /\ (pc' = "accept" => pc = "accept")
                    \/ ppoll_ready
                    \/ handle_agent_restart
                    \/ handle_new_client
                    \/ handle_message_from_agent
                    \/ \E fd \in Index : ClientHandler(fd)
  OBVIOUS
<1>1. CASE Daemon
  BY <1>1, SMT DEF Daemon, ClientHandler, loop_top, reap_children, Deliver, reap_children_done,
     ppoll_eintr, handle_agent_restart_reconnected, handle_agent_restart_failed, skip_phase, After
<1>2. CASE signal_handler_sigterm \/ Exited \/ UNCHANGED vars
  BY <1>2 DEF signal_handler_sigterm, Exited, vars, daemonVars
<1>3. CASE \E p \in Pid : Child(p) \/ child_killed(p)
  <2>1. UNCHANGED daemonVars
    BY <1>3, ChildFrame
  <2> QED
    BY <2>1 DEF daemonVars
<1>4. CASE \E u \in User : LocalUser(u)
  BY <1>4 DEF LocalUser, user_connect, negotiate_connection_params, user_close, UserStep,
     daemonVars
<1>5. CASE Agent
  BY <1>5 DEF Agent, agent_trigger, agent_receive, agent_terminated, agent_crash, AgentStep,
     daemonVars
<1> QED
  BY <1>1, <1>2, <1>3, <1>4, <1>5 DEF Next

\* Every step keeps what ppoll() reported in step with the connections.
LEMMA StepReady == TInv /\ ReadyInv /\ [Next]_vars => ReadyInv'
<1> SUFFICES ASSUME TInv, ReadyInv, [Next]_vars PROVE ReadyInv'
  OBVIOUS
<1>t. /\ peer \in [Index -> Conn \cup {None}]
      /\ fds.ready \subseteq Index \X Conn
      /\ None \notin Conn
  BY DaemonAssumption DEF TInv, TypeOK, ClientTypes, LoopTypes, DaemonAssumption, Conn
<1>1. CASE UNCHANGED <<peer, fds>> /\ (pc' = "accept" => pc = "accept")
  BY <1>1 DEF ReadyInv
<1>2. CASE ppoll_ready
  <2>1. fds'.ready = {<<fd, peer[fd]>> : fd \in ReadyFds} /\ peer' = peer
    BY <1>2 DEF ppoll_ready
  <2> QED
    BY <2>1, SMT DEF ReadyInv
<1>3. ASSUME fds'.ready \subseteq fds.ready, pc' # "accept",
             \A fd \in Index : peer'[fd] = peer[fd] \/ peer'[fd] = None
      PROVE  ReadyInv'
  BY <1>3, <1>t DEF ReadyInv
<1>4. CASE handle_agent_restart
  BY <1>3, <1>4 DEF handle_agent_restart
<1>5. CASE handle_new_client
  <2>1. fds'.ready = fds.ready /\ pc = "accept"
    BY <1>5 DEF handle_new_client, TInv, TypeOK, LoopTypes
  <2>2. \A r \in fds.ready : r[1] \in Index /\ peer[r[1]] = r[2] /\ peer[r[1]] # None
    BY <1>t, <2>1 DEF ReadyInv
  <2>3. CASE UNCHANGED peer
    BY <2>1, <2>2, <2>3 DEF ReadyInv
  <2>4. ASSUME NEW fd \in FreeFds, NEW c, peer' = [peer EXCEPT ![fd] = c]
        PROVE  ReadyInv'
    BY <1>t, <2>1, <2>2, <2>4 DEF ReadyInv, FreeFds
  <2> QED
    BY <1>5, <2>3, <2>4 DEF handle_new_client, IsFirst
<1>6. ASSUME NEW fd, terminate_client(fd)
      PROVE  \A g \in Index : peer'[g] = peer[g] \/ peer'[g] = None
  BY <1>t, <1>6 DEF terminate_client
<1>7. CASE handle_message_from_agent
  <2>1. UNCHANGED fds /\ pc' # "accept"
    BY <1>7 DEF handle_message_from_agent, handle_execute_service, Deliver
  <2>2. UNCHANGED peer \/ \E fd \in {vchan_port_notify_client[i] : i \in {Head(from_agent).port}} :
           terminate_client(fd)
    BY <1>7 DEF handle_message_from_agent, release_vchan_port
  <2> QED
    BY <1>3, <1>6, <2>1, <2>2
<1>8. ASSUME NEW fd \in Index, ClientHandler(fd)
      PROVE  ReadyInv'
  <2>1. Serving(fd)
    BY <1>8 DEF ClientHandler, handle_message_from_client, handle_client_hello,
       handle_cmdline_message_from_client
  <2>2. fds'.ready \subseteq fds.ready /\ pc = "clients"
    BY <2>1 DEF Serving, TInv, TypeOK, LoopTypes
  <2>3. pc' # "accept"
    BY <1>8, <2>2 DEF ClientHandler, handle_message_from_client, handle_client_hello,
       handle_cmdline_message_from_client, ForwardToAgent, Deliver
  <2>4. UNCHANGED peer \/ terminate_client(fd)
    BY <1>8 DEF ClientHandler, handle_message_from_client, handle_client_hello,
       handle_cmdline_message_from_client, ForwardToAgent
  <2> QED
    BY <1>3, <1>6, <2>2, <2>3, <2>4
<1> QED
  BY <1>1, <1>2, <1>4, <1>5, <1>7, <1>8, ReadyFrame

\* The client loop never serves a connection other than the one ppoll()
\* reported on that descriptor, whatever the agent phase closed in between.
THEOREM DescriptorCorrect == Spec => []NoStaleDescriptor
<1>1. Init => ReadyInv
  BY SMT DEF Init, ReadyInv
<1>2. TInv /\ ReadyInv => NoStaleDescriptor
  BY DEF TInv, TypeOK, LoopTypes, ReadyInv, NoStaleDescriptor, PeerInv
<1> QED
  BY <1>1, <1>2, InitTInv, StepTInv, StepReady, PTL DEF Spec

-----------------------------------------------------------------------------
(* Local connections *)

\* What a local process asks for: a port of this daemon, or the one that the
\* daemon of the other domain gave out.
Target == {t \in [port : Index \cup {ANY_PORT}, domain : Domain] :
              IF t.domain = 0 THEN t.port = ANY_PORT ELSE t.port \in OtherDaemonPorts(t.domain)}
Asks(c) ==
    IF c \in Pid
    THEN {m \in ClientMsg : /\ m.type = "SERVICE_CONNECT"
                            /\ m.ident \in Ident
                            /\ [port |-> m.port, domain |-> m.domain] \in Target}
    ELSE {m \in ClientMsg : m.type = "EXEC" /\ m.ident = None /\ m.port = ANY_PORT}
Queues(c) == {<<>>} \cup {<<m>> : m \in Asks(c)} \cup {<<Hello, m>> : m \in Asks(c)}

\* A process sends one request, and is told a port only once it was read.
SockOK(c) ==
    /\ sock[c].inq \in Queues(c)
    /\ sock[c].replied \/ sock[c].st = "gone" => sock[c].inq = <<>>
    /\ sock[c].st \in {"none", "backlog"} => ~sock[c].replied

\* A policy child sends its request once it is allowed to connect; one that
\* fails has nothing left to say.
ChildOK(p) ==
    /\ child[p].stage \in {"unborn", "policy"} => sock[p].st = "none"
    /\ child[p].stage \in {"unborn", "policy", "connecting"} =>
          sock[p].inq = <<>> /\ ~sock[p].replied
    /\ child[p].stage \in {"policy", "connecting"} => child[p].ident \in Ident
    /\ child[p].stage = "connecting" =>
          [port |-> child[p].port, domain |-> child[p].dest] \in Target
    /\ child[p].stage = "zombie" /\ child[p].status = "nonzero" => sock[p].inq = <<>>

\* A descriptor has a connection of its own, which left the backlog; a client
\* has no port before its request is read.
LinkInv ==
    /\ \A fd \in Index : peer[fd] # None => sock[peer[fd]].st = "open"
    /\ \A fd, g \in Index : peer[fd] # None /\ peer[fd] = peer[g] => fd = g
    /\ \A k \in DOMAIN backlog : sock[backlog[k]].st = "backlog"
    /\ \A j, k \in DOMAIN backlog : backlog[j] = backlog[k] => j = k
    /\ \A fd \in Index : clients[fd] \in {"HELLO", "CMDLINE"} => ~sock[peer[fd]].replied

LocalInv ==
    /\ \A c \in Conn : SockOK(c)
    /\ \A p \in Pid : ChildOK(p)
    /\ LinkInv
    /\ RunningClientNotified

\* Connection c is the only one a step changes.
Only(c) == \A d \in Conn \ {c} : sock'[d] = sock[d]

\* No process is connected, and no child started, when the daemon starts.
LEMMA InitLocal == Init => LocalInv
<1> SUFFICES ASSUME Init PROVE LocalInv
  OBVIOUS
<1>1. ASSUME NEW c \in Conn PROVE sock[c] = NoSock
  BY DEF Init
<1>2. ASSUME NEW p \in Pid PROVE ChildOK(p)
  BY <1>1 DEF Init, ChildOK, Unborn, NoSock, Conn
<1>3. \A c \in Conn : SockOK(c)
  BY <1>1, SMT DEF SockOK, NoSock, Queues
<1>4. LinkInv
  BY SMT DEF Init, LinkInv
<1>5. RunningClientNotified
  BY DEF Init, RunningClientNotified
<1> QED
  BY <1>2, <1>3, <1>4, <1>5 DEF LocalInv

\* The first message of a queue, and the rest of it.
LEMMA QueueShapes ==
  ASSUME NEW c, NEW q \in Queues(c), q # <<>>
  PROVE  /\ Head(q).type = "HELLO" => Tail(q) \in Queues(c)
         /\ Head(q).type # "HELLO" => Tail(q) = <<>> /\ Head(q) \in Asks(c) /\ q = <<Head(q)>>
<1>1. ASSUME NEW m \in Asks(c), q = <<m>>
      PROVE  Head(q) = m /\ Tail(q) = <<>> /\ m.type # "HELLO"
  <2>1. Head(q) = m /\ Tail(q) = <<>>
    BY <1>1, SMT
  <2>2. m.type # "HELLO"
    BY DEF Asks
  <2> QED
    BY <2>1, <2>2
<1>2. ASSUME NEW m \in Asks(c), q = <<Hello, m>>
      PROVE  Head(q) = Hello /\ Tail(q) = <<m>>
  BY <1>2, SMT
<1>3. Hello.type = "HELLO"
  BY DEF Hello
<1> QED
  BY <1>1, <1>2, <1>3 DEF Queues

\* A process changes its own connection and its own state: it connects, sends,
\* closes or ends.
LEMMA ProcessLocal ==
  ASSUME TInv, LocalInv, NEW c \in Conn,
         UNCHANGED <<clients, peer, vchan_port_notify_client>>,
         Only(c), sock'[c].replied = sock[c].replied,
         \/ sock'[c].st = sock[c].st /\ UNCHANGED backlog
         \/ /\ sock[c].st = "none" /\ sock'[c].st = "backlog"
            /\ backlog' = Append(backlog, c),
         SockOK(c)',
         \A p \in Pid \ {c} : child'[p] = child[p],
         c \in Pid => ChildOK(c)'
  PROVE  LocalInv'
<1>t. /\ peer \in [Index -> Conn \cup {None}]
      /\ backlog \in Seq(Conn)
      /\ PeerInv
      /\ clients \in [Index -> client_state]
  BY DEF TInv, TypeOK, ClientTypes
<1>r. \A d \in Conn : sock'[d].replied = sock[d].replied
  BY DEF Only
<1>s. \A d \in Conn : sock[d].st # "none" => sock'[d].st = sock[d].st
  BY DEF Only
<1>1. \A d \in Conn : SockOK(d)'
  BY DEF Only, SockOK, LocalInv
<1>2. \A p \in Pid : ChildOK(p)'
  BY ZenonT(30) DEF Only, ChildOK, LocalInv, Conn
<1>p. \A fd \in Index : clients[fd] # "INVALID" => peer[fd] \in Conn
  BY <1>t DEF PeerInv
<1>3. LinkInv'
  <2>1. \A fd \in Index : peer[fd] # None => sock'[peer[fd]].st = "open"
    BY <1>t, <1>s, SMT DEF LocalInv, LinkInv
  <2>2. \A k \in DOMAIN backlog : backlog[k] \in Conn
    BY <1>t, SMT
  <2>3. \A k \in DOMAIN backlog : sock'[backlog[k]].st = "backlog"
    BY <1>s, <2>2, SMT DEF LocalInv, LinkInv
  <2>4. \A fd \in Index : clients[fd] \in {"HELLO", "CMDLINE"} => ~sock'[peer[fd]].replied
    BY <1>p, <1>r DEF LocalInv, LinkInv
  <2>5. /\ \A k \in DOMAIN backlog' : sock'[backlog'[k]].st = "backlog"
        /\ \A j, k \in DOMAIN backlog' : backlog'[j] = backlog'[k] => j = k
    <3>1. CASE UNCHANGED backlog
      BY <2>3, <3>1 DEF LocalInv, LinkInv
    <3>2. CASE /\ sock[c].st = "none" /\ sock'[c].st = "backlog"
               /\ backlog' = Append(backlog, c)
      <4>1. /\ DOMAIN backlog' = 1 .. Len(backlog) + 1
            /\ \A k \in DOMAIN backlog : backlog'[k] = backlog[k]
            /\ backlog'[Len(backlog) + 1] = c
            /\ DOMAIN backlog = 1 .. Len(backlog)
            /\ Len(backlog) \in Nat
        BY <1>t, <3>2, SMT
      <4>2. \A k \in DOMAIN backlog : backlog[k] # c
        BY <3>2 DEF LocalInv, LinkInv
      <4>3. \A k \in DOMAIN backlog' : k \in DOMAIN backlog \/ k = Len(backlog) + 1
        BY <4>1, SMT
      <4> QED
        BY <2>3, <3>2, <4>1, <4>2, <4>3, SMT DEF LocalInv, LinkInv
    <3> QED
      BY <3>1, <3>2
  <2> QED
    BY <2>1, <2>4, <2>5 DEF LocalInv, LinkInv
<1>4. RunningClientNotified'
  BY <1>p, <1>r DEF LocalInv, RunningClientNotified
<1> QED
  BY <1>1, <1>2, <1>3, <1>4 DEF LocalInv

\* The policy children.
LEMMA ChildLocal ==
  ASSUME TInv, LocalInv, NEW p \in Pid, Child(p) \/ child_killed(p)
  PROVE  LocalInv'
<1>t. /\ p \in Conn
      /\ SockOK(p) /\ ChildOK(p)
  BY DEF LocalInv, Conn
<1>s. sock \in [Conn -> Socket]
  BY DEF TInv, TypeOK, ClientTypes
<1>c. child \in [Pid -> ChildProcess]
  BY DEF TInv, TypeOK, PendingTypes
<1>f. UNCHANGED <<clients, peer, vchan_port_notify_client>>
  <2>1. UNCHANGED daemonVars
    BY ChildFrame
  <2> QED
    BY <2>1 DEF daemonVars
<1>1. ASSUME NEW status \in ExitStatus, ChildExits(p, status), UNCHANGED backlog,
             UNCHANGED sock \/ sock' = [sock EXCEPT ![p].eof = TRUE],
             status = "nonzero" => sock[p].inq = <<>>
      PROVE  LocalInv'
  <2>1. /\ Only(p)
        /\ sock'[p].replied = sock[p].replied
        /\ sock'[p].inq = sock[p].inq
        /\ sock'[p].st = sock[p].st
    BY <1>1, <1>s, <1>t, SMT DEF Only, Socket
  <2>2. /\ \A r \in Pid \ {p} : child'[r] = child[r]
        /\ child'[p].stage = "zombie" /\ child'[p].status = status
    BY <1>1, <1>c, SMT DEF ChildExits, Unborn
  <2>3. SockOK(p)'
    BY <1>t, <2>1 DEF SockOK
  <2>4. ChildOK(p)'
    BY <1>1, <2>1, <2>2, SMT DEF ChildOK
  <2> QED
    BY <1>1, <1>t, <1>f, <2>1, <2>2, <2>3, <2>4, ProcessLocal
<1>2. CASE child_refused(p)
  BY <1>1, <1>2, <1>t, SMT DEF child_refused, ChildOK, ExitStatus
<1>3. CASE child_disconnected(p)
  BY <1>1, <1>3, <1>t DEF child_disconnected, SockOK, ExitStatus
<1>4. CASE child_exit(p)
  <2>1. PICK status \in {"zero", "nonzero"} :
           (child[p].dest # 0 => status = "zero") /\ ChildExits(p, status)
    BY <1>4 DEF child_exit
  <2>2. status = "nonzero" => sock[p].replied
    BY <1>4, <2>1, SMT DEF child_exit, AwaitsDaemon
  <2> QED
    BY <1>1, <1>4, <1>t, <2>1, <2>2 DEF child_exit, SockOK, ExitStatus
<1>5. CASE child_killed(p)
  BY <1>1, <1>5, SMT DEF child_killed, ExitStatus
<1>6. ASSUME NEW d \in Domain, NEW q, child_connect(p, d, q), [port |-> q, domain |-> d] \in Target
      PROVE  LocalInv'
  <2>1. /\ child[p].stage = "policy"
        /\ sock' = [sock EXCEPT ![p].st = "backlog"]
        /\ backlog' = Append(backlog, p)
        /\ child' = [child EXCEPT ![p].stage = "connecting", ![p].dest = d, ![p].port = q]
    BY <1>6 DEF child_connect
  <2>2. sock[p].st = "none" /\ sock[p].inq = <<>> /\ ~sock[p].replied /\ child[p].ident \in Ident
    BY <1>t, <2>1, SMT DEF ChildOK
  <2>3. /\ Only(p)
        /\ sock'[p].replied = sock[p].replied
        /\ sock'[p].inq = sock[p].inq
        /\ sock'[p].st = "backlog"
    BY <1>s, <1>t, <2>1, SMT DEF Only, Socket
  <2>4. /\ \A r \in Pid \ {p} : child'[r] = child[r]
        /\ child'[p].stage = "connecting" /\ child'[p].dest = d /\ child'[p].port = q
        /\ child'[p].ident = child[p].ident
    BY <1>c, <2>1, SMT DEF ChildProcess
  <2>5. SockOK(p)'
    BY <1>t, <2>2, <2>3, SMT DEF SockOK
  <2>6. ChildOK(p)'
    BY <1>6, <2>2, <2>3, <2>4, SMT DEF ChildOK
  <2> QED
    BY <1>t, <1>f, <2>1, <2>2, <2>3, <2>4, <2>5, <2>6, ProcessLocal
<1>7. CASE send_service_connect(p)
  <2> DEFINE m == [type |-> "SERVICE_CONNECT", ident |-> child[p].ident,
                   port |-> child[p].port, domain |-> child[p].dest]
  <2>1. /\ child[p].stage = "connecting" /\ sock[p].st = "open"
        /\ sock' = [sock EXCEPT ![p].inq = <<Hello, m>>, ![p].eof = child[p].dest # 0]
        /\ child' = [child EXCEPT ![p].stage = "sent"]
        /\ UNCHANGED backlog
    BY <1>7 DEF send_service_connect
  <2>2. /\ ~sock[p].replied
        /\ child[p].ident \in Ident
        /\ [port |-> child[p].port, domain |-> child[p].dest] \in Target
    BY <1>t, <2>1, SMT DEF ChildOK
  <2>3. m \in Asks(p)
    <3>1. m \in ClientMsg
      BY <2>2, SMT DEF Target, ClientMsg
    <3>2. /\ m.type = "SERVICE_CONNECT" /\ m.ident = child[p].ident
          /\ m.port = child[p].port /\ m.domain = child[p].dest
      OBVIOUS
    <3> HIDE DEF m
    <3> QED
      BY <2>2, <3>1, <3>2, SMT DEF Asks
  <2> HIDE DEF m
  <2>4. /\ Only(p)
        /\ sock'[p].replied = sock[p].replied
        /\ sock'[p].inq = <<Hello, m>>
        /\ sock'[p].st = sock[p].st
    BY <1>s, <1>t, <2>1, SMT DEF Only, Socket
  <2>5. /\ \A r \in Pid \ {p} : child'[r] = child[r]
        /\ child'[p].stage = "sent"
    BY <1>c, <2>1, SMT DEF ChildProcess
  <2>6. SockOK(p)'
    <3>1. sock'[p].inq \in Queues(p)
      BY <2>3, <2>4 DEF Queues
    <3>2. sock'[p].st = "open" /\ ~sock'[p].replied
      BY <2>1, <2>2, <2>4
    <3> QED
      BY <3>1, <3>2 DEF SockOK
  <2>7. ChildOK(p)'
    BY <2>5, SMT DEF ChildOK
  <2> QED
    BY <1>t, <1>f, <2>1, <2>4, <2>5, <2>6, <2>7, ProcessLocal
<1>8. ASSUME NEW d \in Domain
      PROVE  /\ d = 0 => [port |-> ANY_PORT, domain |-> d] \in Target
             /\ \A q \in OtherDaemonPorts(d) : d # 0 => [port |-> q, domain |-> d] \in Target
  BY SMT DEF Target, OtherDaemonPorts
<1> QED
  BY <1>2, <1>3, <1>4, <1>5, <1>6, <1>7, <1>8 DEF Child

\* The local clients.
LEMMA UserLocal ==
  ASSUME TInv, LocalInv, NEW u \in User, LocalUser(u)
  PROVE  LocalInv'
<1>t. /\ u \in Conn /\ u \notin Pid
      /\ SockOK(u)
  BY DaemonAssumption DEF LocalInv, Conn, DaemonAssumption
<1>s. sock \in [Conn -> Socket]
  BY DEF TInv, TypeOK, ClientTypes
<1>f. /\ UNCHANGED <<clients, peer, vchan_port_notify_client>>
      /\ \A p \in Pid \ {u} : child'[p] = child[p]
  BY DEF LocalUser, user_connect, negotiate_connection_params, user_close, UserStep, daemonVars
<1>1. CASE user_connect(u)
  <2>1. /\ sock[u].st = "none"
        /\ sock' = [sock EXCEPT ![u].st = "backlog"]
        /\ backlog' = Append(backlog, u)
    BY <1>1 DEF user_connect
  <2>2. /\ Only(u)
        /\ sock'[u].replied = sock[u].replied
        /\ sock'[u].inq = sock[u].inq
        /\ sock'[u].st = "backlog"
    BY <1>s, <1>t, <2>1, SMT DEF Only, Socket
  <2>3. SockOK(u)'
    BY <1>t, <2>1, <2>2, SMT DEF SockOK
  <2> QED
    BY <1>t, <1>f, <2>1, <2>2, <2>3, ProcessLocal
<1>2. ASSUME NEW d \in Domain, negotiate_connection_params(u, d)
      PROVE  LocalInv'
  <2> DEFINE m == [type |-> "EXEC", ident |-> None, port |-> ANY_PORT, domain |-> d]
  <2>1. /\ sock' = [sock EXCEPT ![u].inq = <<Hello, m>>]
        /\ UNCHANGED backlog
    BY <1>2 DEF negotiate_connection_params
  <2>2. PICK fd \in Index : peer[fd] = u /\ clients[fd] = "HELLO"
    BY <1>2 DEF negotiate_connection_params
  <2>3. sock[u].st = "open" /\ ~sock[u].replied
    <3>1. peer[fd] # None
      BY <2>2, DaemonAssumption DEF DaemonAssumption
    <3> QED
      BY <2>2, <3>1, SMT DEF LocalInv, LinkInv
  <2>4. m \in Asks(u)
    BY <1>t DEF Asks, ClientMsg
  <2> HIDE DEF m
  <2>5. /\ Only(u)
        /\ sock'[u].replied = sock[u].replied
        /\ sock'[u].inq = <<Hello, m>>
        /\ sock'[u].st = sock[u].st
    BY <1>s, <1>t, <2>1, SMT DEF Only, Socket
  <2>6. sock'[u].inq \in Queues(u)
    BY <2>4, <2>5 DEF Queues
  <2>7. SockOK(u)'
    BY <2>3, <2>5, <2>6, SMT DEF SockOK
  <2> QED
    BY <1>t, <1>f, <2>1, <2>5, <2>7, ProcessLocal
<1>3. CASE user_close(u)
  <2>1. sock' = [sock EXCEPT ![u].eof = TRUE] /\ UNCHANGED backlog
    BY <1>3 DEF user_close
  <2>2. /\ Only(u)
        /\ sock'[u].replied = sock[u].replied
        /\ sock'[u].inq = sock[u].inq
        /\ sock'[u].st = sock[u].st
    BY <1>s, <1>t, <2>1, SMT DEF Only, Socket
  <2>3. SockOK(u)'
    BY <1>t, <2>2 DEF SockOK
  <2> QED
    BY <1>t, <1>f, <2>1, <2>2, <2>3, ProcessLocal
<1> QED
  BY <1>1, <1>2, <1>3 DEF LocalUser

\* terminate_client(): one connection is closed.
LEMMA TerminateLocal ==
  ASSUME TInv, LocalInv, NEW fd \in Index, clients[fd] # "INVALID",
         terminate_client(fd), UNCHANGED <<backlog, child>>
  PROVE  LocalInv'
<1>t. /\ peer \in [Index -> Conn \cup {None}]
      /\ clients \in [Index -> client_state]
      /\ PeerInv
  BY DEF TInv, TypeOK, ClientTypes
<1>s. sock \in [Conn -> Socket]
  BY DEF TInv, TypeOK, ClientTypes
<1>b. \A k \in DOMAIN backlog : backlog[k] \in Conn
  BY SMT DEF TInv, TypeOK, ClientTypes
<1>0. peer[fd] \in Conn /\ peer[fd] # None
  BY <1>t DEF PeerInv
<1>1. PICK c \in Conn : c = peer[fd] /\ c # None
  BY <1>0
<1>2. sock[c].st = "open"
  BY <1>1 DEF LocalInv, LinkInv
<1>3. /\ Only(c)
      /\ sock'[c].st = "gone" /\ sock'[c].inq = <<>> /\ sock'[c].replied = sock[c].replied
  BY <1>s, <1>1, SMT DEF terminate_client, Closed, Only, Socket
<1>4. /\ peer'[fd] = None /\ \A g \in Index \ {fd} : peer'[g] = peer[g]
      /\ clients'[fd] = "INVALID" /\ \A g \in Index \ {fd} : clients'[g] = clients[g]
  BY <1>t DEF terminate_client
<1>5. \A g \in Index \ {fd} : peer[g] # c
  BY <1>1 DEF LocalInv, LinkInv
<1>6. \A k \in DOMAIN backlog : backlog[k] # c
  BY <1>2, SMT DEF LocalInv, LinkInv
<1>7. \A d \in Conn : SockOK(d)'
  <2>1. SockOK(c)'
    BY <1>3, SMT DEF SockOK, Queues
  <2> QED
    BY <1>3, <2>1 DEF LocalInv, SockOK, Only
<1>8. \A p \in Pid : ChildOK(p)'
  <2> SUFFICES ASSUME NEW p \in Pid PROVE ChildOK(p)'
    OBVIOUS
  <2>1. ChildOK(p) /\ p \in Conn
    BY DEF LocalInv, Conn
  <2>2. CASE p = c
    <3>1. child[p].stage \notin {"unborn", "policy"}
      BY <1>2, <2>1, <2>2, SMT DEF ChildOK
    <3> QED
      BY <1>3, <2>1, <2>2, <3>1 DEF ChildOK
  <2>3. CASE p # c
    BY <1>3, <2>1, <2>3 DEF ChildOK, Only
  <2> QED
    BY <2>2, <2>3
<1>9. LinkInv'
  <2>1. \A g \in Index \ {fd} : peer[g] # None => sock'[peer[g]] = sock[peer[g]]
    BY <1>t, <1>3, <1>5 DEF Only
  <2>2. \A k \in DOMAIN backlog : sock'[backlog[k]] = sock[backlog[k]]
    BY <1>b, <1>3, <1>6 DEF Only
  <2>3. \A g \in Index : peer'[g] # None => sock'[peer'[g]].st = "open"
    BY <1>4, <2>1, SMT DEF LocalInv, LinkInv
  <2>4. \A g, h \in Index : peer'[g] # None /\ peer'[g] = peer'[h] => g = h
    BY <1>4, SMTT(30) DEF LocalInv, LinkInv
  <2>5. \A g \in Index : clients'[g] \in {"HELLO", "CMDLINE"} => ~sock'[peer'[g]].replied
    <3> SUFFICES ASSUME NEW g \in Index, clients'[g] \in {"HELLO", "CMDLINE"}
                 PROVE  ~sock'[peer'[g]].replied
      OBVIOUS
    <3>1. g # fd
      BY <1>4
    <3>2. clients[g] \in {"HELLO", "CMDLINE"} /\ peer'[g] = peer[g]
      BY <1>4, <3>1
    <3>3. peer[g] # None
      BY <1>t, <3>2 DEF PeerInv
    <3> QED
      BY <2>1, <3>1, <3>2, <3>3 DEF LocalInv, LinkInv
  <2> QED
    BY <2>2, <2>3, <2>4, <2>5 DEF LocalInv, LinkInv
<1>10. RunningClientNotified'
  <2> SUFFICES ASSUME NEW g \in Index, clients'[g] = "RUNNING", sock'[peer'[g]].replied
               PROVE  \E i \in Index : vchan_port_notify_client'[i] = g
    BY DEF RunningClientNotified
  <2>1. g # fd
    BY <1>4
  <2>2. clients[g] = "RUNNING" /\ peer'[g] = peer[g]
    BY <1>4, <2>1
  <2>3. sock'[peer[g]] = sock[peer[g]]
    BY <1>t, <1>3, <1>5, <2>1, <2>2 DEF Only, PeerInv
  <2>4. PICK i \in Index : vchan_port_notify_client[i] = g
    BY <2>2, <2>3 DEF LocalInv, RunningClientNotified
  <2>5. vchan_port_notify_client'[i] = g
    BY <2>1, <2>4 DEF terminate_client
  <2> QED
    BY <2>5
<1> QED
  BY <1>7, <1>8, <1>9, <1>10 DEF LocalInv

\* Steps that leave the connections alone: at most one child is forked or
\* reaped.
LEMMA QuietLocal ==
  ASSUME LocalInv,
         UNCHANGED <<clients, peer, backlog, sock, vchan_port_notify_client>>,
         \A p \in Pid : \/ child'[p] = child[p]
                        \/ child'[p].stage = "reaped"
                        \/ /\ child[p].stage = "unborn"
                           /\ child'[p].stage = "policy" /\ child'[p].ident \in Ident
  PROVE  LocalInv'
<1>1. \A p \in Pid : ChildOK(p)'
  <2> SUFFICES ASSUME NEW p \in Pid PROVE ChildOK(p)'
    OBVIOUS
  <2>0. ChildOK(p)
    BY DEF LocalInv
  <2>1. CASE child'[p] = child[p]
    BY <2>0, <2>1 DEF ChildOK
  <2>2. CASE child'[p].stage = "reaped"
    BY <2>2, SMT DEF ChildOK
  <2>3. CASE child[p].stage = "unborn" /\ child'[p].stage = "policy" /\ child'[p].ident \in Ident
    BY <2>0, <2>3, SMT DEF ChildOK
  <2> QED
    BY <2>1, <2>2, <2>3
<1>2. \A c \in Conn : SockOK(c)'
  BY DEF LocalInv, SockOK
<1>3. LinkInv' /\ RunningClientNotified'
  BY DEF LocalInv, LinkInv, RunningClientNotified
<1> QED
  BY <1>1, <1>2, <1>3 DEF LocalInv

\* handle_agent_restart() closes every connection.
LEMMA RestartLocal ==
  ASSUME TInv, LocalInv, handle_agent_restart
  PROVE  LocalInv'
<1>s. sock \in [Conn -> Socket]
  BY DEF TInv, TypeOK, ClientTypes
<1>1. /\ clients' = [fd \in Index |-> "INVALID"]
      /\ peer' = [fd \in Index |-> None]
      /\ backlog' = <<>>
      /\ child' = child
      /\ sock' = [c \in Conn |-> IF sock[c].st \in {"open", "backlog"}
                                 THEN Closed(sock[c]) ELSE sock[c]]
  BY DEF handle_agent_restart
<1>2. ASSUME NEW c \in Conn
      PROVE  \/ sock'[c] = sock[c]
             \/ /\ sock[c].st # "none"
                /\ sock'[c].st = "gone" /\ sock'[c].inq = <<>> /\ sock'[c].replied = sock[c].replied
  <2>1. sock[c] \in Socket
    BY <1>s
  <2>2. /\ Closed(sock[c]).st = "gone" /\ Closed(sock[c]).inq = <<>>
        /\ Closed(sock[c]).replied = sock[c].replied
    BY <2>1 DEF Closed, Socket
  <2>3. CASE sock[c].st \in {"open", "backlog"}
    <3>1. sock'[c] = Closed(sock[c])
      BY <1>1, <2>3
    <3> QED
      BY <2>2, <2>3, <3>1
  <2>4. CASE sock[c].st \notin {"open", "backlog"}
    BY <1>1, <2>4
  <2> QED
    BY <2>3, <2>4
<1>3. \A c \in Conn : SockOK(c)'
  <2> SUFFICES ASSUME NEW c \in Conn PROVE SockOK(c)'
    OBVIOUS
  <2>1. SockOK(c)
    BY DEF LocalInv
  <2>2. CASE sock'[c] = sock[c]
    BY <2>1, <2>2 DEF SockOK
  <2>3. CASE sock'[c].st = "gone" /\ sock'[c].inq = <<>>
    BY <2>3, SMT DEF SockOK, Queues
  <2> QED
    BY <1>2, <2>2, <2>3
<1>4. \A p \in Pid : ChildOK(p)'
  <2> SUFFICES ASSUME NEW p \in Pid PROVE ChildOK(p)'
    OBVIOUS
  <2>1. ChildOK(p) /\ p \in Conn
    BY DEF LocalInv, Conn
  <2>2. CASE sock'[p] = sock[p]
    BY <1>1, <2>1, <2>2 DEF ChildOK
  <2>3. CASE /\ sock[p].st # "none"
             /\ sock'[p].st = "gone" /\ sock'[p].inq = <<>> /\ sock'[p].replied = sock[p].replied
    BY <1>1, <2>1, <2>3 DEF ChildOK
  <2> QED
    BY <1>2, <2>1, <2>2, <2>3
<1>5. LinkInv' /\ RunningClientNotified'
  BY <1>1, SMT DEF LinkInv, RunningClientNotified
<1> QED
  BY <1>3, <1>4, <1>5 DEF LocalInv

\* handle_new_client(): the first connection leaves the backlog.
LEMMA NewClientLocal ==
  ASSUME TInv, LocalInv, handle_new_client
  PROVE  LocalInv'
<1>t. /\ peer \in [Index -> Conn \cup {None}]
      /\ clients \in [Index -> client_state]
      /\ PeerInv
      /\ backlog \in Seq(Conn) /\ backlog # <<>>
  BY DEF TInv, TypeOK, ClientTypes, ListenInv, handle_new_client
<1>s. sock \in [Conn -> Socket]
  BY DEF TInv, TypeOK, ClientTypes
<1>0. Head(backlog) \in Conn
  BY <1>t, SMT
<1>1. PICK c \in Conn : c = Head(backlog)
  BY <1>0
<1>2. /\ \A k \in DOMAIN Tail(backlog) : /\ k + 1 \in DOMAIN backlog
                                         /\ Tail(backlog)[k] = backlog[k + 1]
                                         /\ k \in Nat /\ k # 0
      /\ 1 \in DOMAIN backlog /\ backlog[1] = c
  BY <1>t, <1>1, SMT
<1>3. /\ sock[c].st = "backlog" /\ ~sock[c].replied
      /\ \A k \in DOMAIN Tail(backlog) : Tail(backlog)[k] # c
      /\ \A fd \in Index : peer[fd] # None => peer[fd] # c
  <2>1. sock[c].st = "backlog"
    BY <1>2 DEF LocalInv, LinkInv
  <2>2. ~sock[c].replied
    BY <2>1 DEF LocalInv, SockOK
  <2>3. \A k \in DOMAIN Tail(backlog) : Tail(backlog)[k] # c
    BY <1>2, SMT DEF LocalInv, LinkInv
  <2>4. \A fd \in Index : peer[fd] # None => peer[fd] # c
    BY <2>1, SMT DEF LocalInv, LinkInv
  <2> QED
    BY <2>1, <2>2, <2>3, <2>4
<1>4. /\ backlog' = Tail(backlog)
      /\ UNCHANGED <<vchan_port_notify_client, child>>
  BY DEF handle_new_client
<1>5. /\ \A k \in DOMAIN Tail(backlog) : sock[Tail(backlog)[k]].st = "backlog"
      /\ \A j, k \in DOMAIN Tail(backlog) : Tail(backlog)[j] = Tail(backlog)[k] => j = k
      /\ \A k \in DOMAIN Tail(backlog) : Tail(backlog)[k] \in Conn
  <2>1. \A k \in DOMAIN backlog : backlog[k] \in Conn
    BY <1>t, SMTT(30)
  <2> QED
    BY <1>2, <2>1, SMT DEF LocalInv, LinkInv
<1>6. CASE UNCHANGED <<clients, peer, sock>>
  BY <1>4, <1>5, <1>6, SMTT(30) DEF LocalInv, SockOK, ChildOK, LinkInv, RunningClientNotified
<1>7. ASSUME Only(c), SockOK(c)',
             sock'[c].st # "backlog", sock'[c].inq = sock[c].inq \/ sock'[c].inq = <<>>,
             sock'[c].replied = sock[c].replied
      PROVE  /\ \A d \in Conn : SockOK(d)'
             /\ \A p \in Pid : ChildOK(p)'
             /\ \A k \in DOMAIN backlog' : sock'[backlog'[k]].st = "backlog"
             /\ \A j, k \in DOMAIN backlog' : backlog'[j] = backlog'[k] => j = k
             /\ \A fd \in Index : peer[fd] # None => sock'[peer[fd]] = sock[peer[fd]]
  <2>1. \A d \in Conn : SockOK(d)'
    BY <1>7 DEF LocalInv, SockOK, Only
  <2>2. ASSUME NEW p \in Pid PROVE ChildOK(p)'
    <3>1. ChildOK(p) /\ p \in Conn
      BY DEF LocalInv, Conn
    <3>2. CASE p = c
      <4>1. child[p].stage \notin {"unborn", "policy"}
        BY <1>3, <3>1, <3>2, SMTT(30) DEF ChildOK
      <4> QED
        BY <1>4, <1>7, <3>1, <3>2, <4>1, ZenonT(30) DEF ChildOK
    <3>3. CASE p # c
      BY <1>4, <1>7, <3>1, <3>3 DEF ChildOK, Only
    <3> QED
      BY <3>2, <3>3
  <2>3. \A k \in DOMAIN Tail(backlog) : sock'[Tail(backlog)[k]] = sock[Tail(backlog)[k]]
    BY <1>3, <1>5, <1>7 DEF Only
  <2>4. \A fd \in Index : peer[fd] # None => sock'[peer[fd]] = sock[peer[fd]]
    BY <1>t, <1>3, <1>7 DEF Only
  <2> QED
    BY <1>4, <1>5, <2>1, <2>2, <2>3, <2>4
<1>8. CASE UNCHANGED <<clients, peer>> /\ sock' = [sock EXCEPT ![c] = Closed(@)]
  <2>1. /\ Only(c)
        /\ sock'[c].st = "gone" /\ sock'[c].inq = <<>> /\ sock'[c].replied = sock[c].replied
    BY <1>s, <1>8, SMT DEF Closed, Only, Socket
  <2>2. SockOK(c)'
    BY <2>1, SMT DEF SockOK, Queues
  <2>3. sock'[c].st # "backlog"
    BY <2>1
  <2>4. /\ \A d \in Conn : SockOK(d)'
        /\ \A p \in Pid : ChildOK(p)'
        /\ \A k \in DOMAIN backlog' : sock'[backlog'[k]].st = "backlog"
        /\ \A j, k \in DOMAIN backlog' : backlog'[j] = backlog'[k] => j = k
        /\ \A fd \in Index : peer[fd] # None => sock'[peer[fd]] = sock[peer[fd]]
    BY <1>7, <2>1, <2>2, <2>3
  <2>5. \A fd \in Index : clients[fd] # "INVALID" => sock'[peer[fd]] = sock[peer[fd]]
    BY <1>t, <2>4 DEF PeerInv
  <2>6. LinkInv'
    BY <1>8, <2>4, <2>5, SMTT(30) DEF LocalInv, LinkInv
  <2>7. RunningClientNotified'
    BY <1>4, <1>8, <2>5 DEF LocalInv, RunningClientNotified
  <2> QED
    BY <2>4, <2>6, <2>7 DEF LocalInv
<1>9. ASSUME NEW fd \in FreeFds,
             clients' = [clients EXCEPT ![fd] = "HELLO"],
             peer' = [peer EXCEPT ![fd] = c],
             sock' = [sock EXCEPT ![c].st = "open"]
      PROVE  LocalInv'
  <2>0. fd \in Index /\ peer[fd] = None
    BY DEF FreeFds
  <2>1. /\ Only(c)
        /\ sock'[c].st = "open" /\ sock'[c].inq = sock[c].inq /\ sock'[c].replied = sock[c].replied
    BY <1>s, <1>9, SMT DEF Only, Socket
  <2>2. SockOK(c)'
    BY <1>3, <2>1 DEF LocalInv, SockOK
  <2>3. sock'[c].st # "backlog"
    BY <2>1
  <2>4. /\ \A d \in Conn : SockOK(d)'
        /\ \A p \in Pid : ChildOK(p)'
        /\ \A k \in DOMAIN backlog' : sock'[backlog'[k]].st = "backlog"
        /\ \A j, k \in DOMAIN backlog' : backlog'[j] = backlog'[k] => j = k
        /\ \A g \in Index : peer[g] # None => sock'[peer[g]] = sock[peer[g]]
    BY <1>7, <2>1, <2>2, <2>3
  <2>5. /\ peer'[fd] = c /\ \A g \in Index \ {fd} : peer'[g] = peer[g]
        /\ clients'[fd] = "HELLO" /\ \A g \in Index \ {fd} : clients'[g] = clients[g]
    BY <1>t, <1>9, <2>0
  <2>6. \A g \in Index \ {fd} : clients'[g] # "INVALID" => sock'[peer'[g]] = sock[peer[g]]
    BY <1>t, <2>4, <2>5 DEF PeerInv
  <2>7. ~sock'[peer'[fd]].replied
    BY <1>3, <2>1, <2>5
  <2>8. LinkInv'
    <3>1. \A g \in Index : peer'[g] # None => sock'[peer'[g]].st = "open"
      BY <2>1, <2>4, <2>5, SMTT(30) DEF LocalInv, LinkInv
    <3>2. \A g, h \in Index : peer'[g] # None /\ peer'[g] = peer'[h] => g = h
      BY <1>3, <2>5, SMTT(30) DEF LocalInv, LinkInv
    <3>3. ASSUME NEW g \in Index, clients'[g] \in {"HELLO", "CMDLINE"}
          PROVE  ~sock'[peer'[g]].replied
      <4>1. CASE g = fd
        BY <2>7, <4>1
      <4>2. CASE g # fd
        <5>1. clients[g] \in {"HELLO", "CMDLINE"} /\ clients'[g] # "INVALID"
          BY <2>5, <3>3, <4>2
        <5> QED
          BY <2>6, <4>2, <5>1 DEF LocalInv, LinkInv
      <4> QED
        BY <4>1, <4>2
    <3> QED
      BY <2>4, <3>1, <3>2, <3>3 DEF LinkInv
  <2>9. RunningClientNotified'
    <3> SUFFICES ASSUME NEW g \in Index, clients'[g] = "RUNNING", sock'[peer'[g]].replied
                 PROVE  \E i \in Index : vchan_port_notify_client'[i] = g
      BY DEF RunningClientNotified
    <3>1. g # fd
      BY <2>7
    <3> QED
      BY <1>4, <2>5, <2>6, <3>1 DEF LocalInv, RunningClientNotified
  <2> QED
    BY <2>4, <2>8, <2>9 DEF LocalInv
<1> QED
  BY <1>1, <1>6, <1>8, <1>9 DEF handle_new_client, IsFirst

\* A message of a client is read: its connection stays, and it is told a port
\* only if the daemon will notify it.
LEMMA ServeLocal ==
  ASSUME TInv, LocalInv, NEW fd \in Index, NEW c \in Conn, c = peer[fd],
         UNCHANGED <<peer, backlog, child>>,
         clients[fd] # "INVALID",
         NEW s \in {"CMDLINE", "RUNNING"}, clients' = [clients EXCEPT ![fd] = s],
         Only(c), sock'[c].st = sock[c].st, SockOK(c)', sock[c].inq # <<>>,
         s = "CMDLINE" => ~sock'[c].replied,
         sock'[c].replied => \E i \in Index : vchan_port_notify_client'[i] = fd,
         \A g \in Index : (\E i \in Index : vchan_port_notify_client[i] = g) =>
                             (\E i \in Index : vchan_port_notify_client'[i] = g)
  PROVE  LocalInv'
<1>t. /\ peer \in [Index -> Conn \cup {None}]
      /\ clients \in [Index -> client_state]
      /\ PeerInv
  BY DEF TInv, TypeOK, ClientTypes
<1>b. \A k \in DOMAIN backlog : backlog[k] \in Conn
  BY SMT DEF TInv, TypeOK, ClientTypes
<1>1. c # None /\ \A g \in Index \ {fd} : peer[g] # c
  BY <1>t DEF PeerInv, LocalInv, LinkInv
<1>2. clients'[fd] = s /\ \A g \in Index \ {fd} : clients'[g] = clients[g]
  BY <1>t
<1>3. \A g \in Index \ {fd} : clients[g] # "INVALID" => sock'[peer[g]] = sock[peer[g]]
  BY <1>t, <1>1, ZenonT(30) DEF Only, PeerInv
<1>4. \A d \in Conn : sock'[d].st = sock[d].st
  BY DEF Only
<1>5. \A d \in Conn : SockOK(d)'
  BY ZenonT(30) DEF LocalInv, SockOK, Only
<1>6. ASSUME NEW p \in Pid PROVE ChildOK(p)'
  <2>1. ChildOK(p) /\ p \in Conn
    BY DEF LocalInv, Conn
  <2>2. CASE p = c
    <3>1. /\ child[p].stage \notin {"unborn", "policy", "connecting"}
          /\ ~(child[p].stage = "zombie" /\ child[p].status = "nonzero")
      BY <2>1, <2>2 DEF ChildOK
    <3> QED
      BY <3>1 DEF ChildOK
  <2>3. CASE p # c
    BY <2>1, <2>3 DEF ChildOK, Only
  <2> QED
    BY <2>2, <2>3
<1>7. LinkInv'
  <2>1. \A g \in Index : peer[g] # None => sock'[peer[g]].st = "open"
    BY <1>t, <1>4, SMT DEF LocalInv, LinkInv
  <2>2. \A k \in DOMAIN backlog : sock'[backlog[k]].st = "backlog"
    BY <1>b, <1>4 DEF LocalInv, LinkInv
  <2>3. ASSUME NEW g \in Index, clients'[g] \in {"HELLO", "CMDLINE"}
        PROVE  ~sock'[peer[g]].replied
    <3>1. CASE g = fd
      BY <1>2, <2>3, <3>1
    <3>2. CASE g # fd
      <4>1. clients[g] \in {"HELLO", "CMDLINE"} /\ clients[g] # "INVALID"
        BY <1>2, <2>3, <3>2
      <4> QED
        BY <1>3, <3>2, <4>1 DEF LocalInv, LinkInv
    <3> QED
      BY <3>1, <3>2
  <2> QED
    BY <2>1, <2>2, <2>3, ZenonT(30) DEF LocalInv, LinkInv
<1>8. RunningClientNotified'
  <2> SUFFICES ASSUME NEW g \in Index, clients'[g] = "RUNNING", sock'[peer'[g]].replied
               PROVE  \E i \in Index : vchan_port_notify_client'[i] = g
    BY DEF RunningClientNotified
  <2>1. CASE g = fd
    BY <2>1
  <2>2. CASE g # fd
    BY <1>2, <1>3, <2>2 DEF LocalInv, RunningClientNotified
  <2> QED
    BY <2>1, <2>2
<1> QED
  BY <1>5, <1>6, <1>7, <1>8 DEF LocalInv

\* The connection a client handler serves, and its queue.
LEMMA ServedQueue ==
  ASSUME TInv, LocalInv, NEW fd \in Index, clients[fd] # "INVALID", ~AtEOF(fd)
  PROVE  /\ peer[fd] \in Conn
         /\ sock[peer[fd]] \in Socket
         /\ sock[peer[fd]].st = "open"
         /\ sock[peer[fd]].inq # <<>> /\ sock[peer[fd]].inq \in Queues(peer[fd])
         /\ ~sock[peer[fd]].replied
<1>1. peer[fd] \in Conn /\ peer[fd] # None
  BY DEF TInv, TypeOK, ClientTypes, PeerInv
<1>2. sock[peer[fd]] \in Socket /\ SockOK(peer[fd])
  BY <1>1 DEF TInv, TypeOK, ClientTypes, LocalInv
<1>3. sock[peer[fd]].inq # <<>>
  BY DEF AtEOF
<1> QED
  BY <1>1, <1>2, <1>3 DEF LocalInv, LinkInv, SockOK

\* handle_client_hello()
LEMMA HelloLocal ==
  ASSUME TInv, LocalInv, NEW fd \in Index, handle_client_hello(fd)
  PROVE  LocalInv'
<1>1. clients[fd] # "INVALID" /\ ~AtEOF(fd)
  BY DEF handle_client_hello
<1>2. PICK c \in Conn : c = peer[fd]
  BY <1>1, ServedQueue
<1>3. /\ sock[c].st = "open" /\ sock[c].inq # <<>> /\ sock[c].inq \in Queues(c)
      /\ ~sock[c].replied
  BY <1>1, <1>2, ServedQueue
<1>4. Tail(sock[c].inq) \in Queues(c)
  BY <1>2, <1>3, QueueShapes DEF handle_client_hello, Message
<1>5. /\ sock' = [sock EXCEPT ![c].inq = Tail(sock[c].inq)]
      /\ clients' = [clients EXCEPT ![fd] = "CMDLINE"]
      /\ UNCHANGED <<peer, backlog, child, vchan_port_notify_client>>
  BY <1>2 DEF handle_client_hello
<1>6. sock \in [Conn -> Socket]
  BY DEF TInv, TypeOK, ClientTypes
<1>7. /\ Only(c) /\ sock'[c].st = sock[c].st /\ sock'[c].replied = sock[c].replied
      /\ sock'[c].inq = Tail(sock[c].inq)
  BY <1>5, <1>6 DEF Only, Socket
<1>8. SockOK(c)'
  <2>1. sock'[c].st = "open" /\ ~sock'[c].replied
    BY <1>3, <1>7
  <2> QED
    BY <1>4, <1>7, <2>1 DEF SockOK
<1>9. ~sock'[c].replied
  BY <1>3, <1>7
<1> QED
  BY <1>1, <1>2, <1>3, <1>5, <1>7, <1>8, <1>9, ServeLocal

\* A message that is not a HELLO is all its connection holds.
LEMMA RequestRead ==
  ASSUME TInv, LocalInv, NEW fd \in Index, clients[fd] # "INVALID", ~AtEOF(fd),
         Message(fd).type # "HELLO"
  PROVE  /\ Message(fd) \in Asks(peer[fd])
         /\ sock[peer[fd]].inq = <<Message(fd)>>
         /\ Tail(sock[peer[fd]].inq) = <<>>
<1>1. sock[peer[fd]].inq # <<>> /\ sock[peer[fd]].inq \in Queues(peer[fd])
  BY ServedQueue
<1> QED
  BY <1>1, QueueShapes DEF Message

\* The second half of handle_cmdline_body_from_client()
LEMMA ForwardLocal ==
  ASSUME TInv, NotifyConsistent, LocalInv, NEW fd \in Index, clients[fd] = "CMDLINE", ~AtEOF(fd),
         NEW m, m = Message(fd), m.type # "HELLO",
         ForwardToAgent(fd, m), UNCHANGED <<backlog, child>>
  PROVE  LocalInv'
<1>1. clients[fd] # "INVALID"
  OBVIOUS
<1>2. PICK c \in Conn : c = peer[fd]
  BY <1>1, ServedQueue
<1>3. /\ sock[c].st = "open" /\ sock[c].inq # <<>> /\ ~sock[c].replied
  BY <1>1, <1>2, ServedQueue
<1>4. Tail(sock[c].inq) = <<>>
  BY <1>1, <1>2, RequestRead
<1>6. sock \in [Conn -> Socket]
  BY DEF TInv, TypeOK, ClientTypes
<1>e. <<>> \in Queues(c)
  BY DEF Queues
<1>7. CASE terminate_client(fd)
  BY <1>1, <1>7, TerminateLocal
<1>8. ASSUME NEW i \in FreePorts(m.domain),
             vchan_port_notify_client' = [vchan_port_notify_client EXCEPT ![i] = fd],
             clients' = [clients EXCEPT ![fd] = "RUNNING"],
             sock' = [sock EXCEPT ![c].inq = Tail(@), ![c].replied = TRUE],
             UNCHANGED peer
      PROVE  LocalInv'
  <2>1. /\ Only(c) /\ sock'[c].st = sock[c].st /\ sock'[c].inq = <<>>
    BY <1>4, <1>6, <1>8 DEF Only, Socket
  <2>2. SockOK(c)'
    <3>1. sock'[c].st \notin {"none", "backlog"}
      BY <1>3, <2>1, SMT
    <3> QED
      BY <1>e, <2>1, <3>1 DEF SockOK
  <2>3. i \in Index /\ used_vchan_ports[i] = VCHAN_PORT_UNUSED
    BY DEF FreePorts, OwnPorts
  <2>4. vchan_port_notify_client[i] = VCHAN_PORT_UNUSED
    BY <2>3 DEF NotifyConsistent
  <2>5. vchan_port_notify_client \in [Index -> Index \cup {VCHAN_PORT_UNUSED}]
    BY DEF TInv, TypeOK, PortTypes
  <2>6. \A g \in Index : g # VCHAN_PORT_UNUSED
    BY SMT DEF Index, VCHAN_PORT_UNUSED
  <2>7. /\ vchan_port_notify_client'[i] = fd
        /\ \A j \in Index \ {i} : vchan_port_notify_client'[j] = vchan_port_notify_client[j]
    BY <1>8, <2>3, <2>5
  <2>8. \A g \in Index : (\E j \in Index : vchan_port_notify_client[j] = g) =>
                             (\E j \in Index : vchan_port_notify_client'[j] = g)
    BY <2>4, <2>6, <2>7
  <2> QED
    BY <1>1, <1>2, <1>3, <1>8, <2>1, <2>2, <2>3, <2>7, <2>8, ServeLocal
<1>9. ASSUME clients' = [clients EXCEPT ![fd] = "RUNNING"],
             sock' = [sock EXCEPT ![c].inq = Tail(@)],
             UNCHANGED <<vchan_port_notify_client, peer>>
      PROVE  LocalInv'
  <2>1. /\ Only(c) /\ sock'[c].st = sock[c].st /\ sock'[c].inq = <<>>
        /\ sock'[c].replied = sock[c].replied
    BY <1>4, <1>6, <1>9 DEF Only, Socket
  <2>2. ~sock'[c].replied
    BY <1>3, <2>1
  <2>3. SockOK(c)'
    BY <1>e, <2>1, <2>2 DEF SockOK
  <2> QED
    BY <1>1, <1>2, <1>3, <1>9, <2>1, <2>2, <2>3, ServeLocal
<1> QED
  BY <1>2, <1>7, <1>8, <1>9 DEF ForwardToAgent, IsFirst

\* handle_message_from_client() and handle_cmdline_message_from_client()
LEMMA ClientMessageLocal ==
  ASSUME TInv, NotifyConsistent, LocalInv, NEW fd \in Index,
         handle_message_from_client(fd) \/ handle_cmdline_message_from_client(fd)
  PROVE  LocalInv'
<1>1. CASE handle_message_from_client(fd)
  <2>1. UNCHANGED <<backlog, child>>
    BY <1>1 DEF handle_message_from_client
  <2>2. CASE UNCHANGED <<clients, peer, sock, vchan_port_notify_client>>
    BY <2>1, <2>2, QuietLocal
  <2>3. CASE clients[fd] # "INVALID" /\ terminate_client(fd)
    BY <2>1, <2>3, TerminateLocal
  <2> QED
    BY <1>1, <2>2, <2>3 DEF handle_message_from_client
<1>2. CASE handle_cmdline_message_from_client(fd)
  <2>1. UNCHANGED <<backlog, child>> /\ clients[fd] = "CMDLINE" /\ ~AtEOF(fd)
    BY <1>2 DEF handle_cmdline_message_from_client
  <2>2. CASE terminate_client(fd)
    BY <2>1, <2>2, TerminateLocal
  <2>3. CASE /\ Message(fd).type \in {"EXEC", "SERVICE_CONNECT"}
             /\ ForwardToAgent(fd, Message(fd))
    BY <2>1, <2>3, ForwardLocal
  <2> QED
    BY <1>2, <2>2, <2>3 DEF handle_cmdline_message_from_client
<1> QED
  BY <1>1, <1>2

\* handle_message_from_agent(): a child is forked, or a client is told that
\* its connection has ended.
LEMMA AgentMessageLocal ==
  ASSUME TInv, NotifyConsistent, LocalInv, handle_message_from_agent
  PROVE  LocalInv'
<1> DEFINE m == Head(from_agent)
<1>t. /\ child \in [Pid -> ChildProcess]
      /\ UNCHANGED backlog
      /\ from_agent \in Seq(FromAgentMsg) /\ from_agent # <<>>
  BY DEF handle_message_from_agent, TInv, TypeOK, PendingTypes, VchanTypes
<1>m. m \in FromAgentMsg
  BY <1>t, HeadTail
<1>1. CASE UNCHANGED <<clients, peer, sock, vchan_port_notify_client, child>>
  BY <1>1, <1>t, QuietLocal
<1>2. ASSUME NEW p \in Pid, child[p].stage = "unborn", m.type = "TRIGGER_SERVICE",
             child' = [child EXCEPT ![p].stage = "policy", ![p].ident = m.ident],
             UNCHANGED <<clients, peer, sock, vchan_port_notify_client>>
      PROVE  LocalInv'
  <2>1. m.ident \in Ident
    BY <1>m, <1>2 DEF FromAgentMsg
  <2>2. /\ \A r \in Pid \ {p} : child'[r] = child[r]
        /\ child'[p].stage = "policy" /\ child'[p].ident = m.ident
    BY <1>t, <1>2, SMT DEF ChildProcess
  <2> QED
    BY <1>t, <1>2, <2>1, <2>2, QuietLocal
<1>3. ASSUME m.type = "CONNECTION_TERMINATED", vchan_port_notify_client[m.port] # VCHAN_PORT_UNUSED,
             terminate_client(vchan_port_notify_client[m.port]), UNCHANGED child
      PROVE  LocalInv'
  <2>1. m.port \in Index
    BY <1>m, <1>3 DEF FromAgentMsg
  <2>2. vchan_port_notify_client[m.port] \in Index
    BY <1>3, <2>1 DEF TInv, TypeOK, PortTypes
  <2>3. clients[vchan_port_notify_client[m.port]] # "INVALID"
    BY <1>3, <2>1 DEF NotifyConsistent
  <2> QED
    BY <1>t, <1>3, <2>2, <2>3, TerminateLocal
<1> QED
  BY <1>1, <1>2, <1>3 DEF handle_message_from_agent, handle_execute_service, release_vchan_port

\* Every step keeps the connections, their queues and their descriptors in order.
LEMMA StepLocal == TInv /\ NotifyConsistent /\ LocalInv /\ [Next]_vars => LocalInv'
<1> SUFFICES ASSUME TInv, NotifyConsistent, LocalInv, [Next]_vars PROVE LocalInv'
  OBVIOUS
<1>1. CASE Daemon
  <2>1. CASE \/ loop_top \/ reap_children_done \/ ppoll_ready \/ ppoll_eintr
             \/ handle_agent_restart_failed \/ skip_phase
             \/ \E v \in AgentVersions : handle_agent_restart_reconnected(v)
    <3>1. UNCHANGED <<clients, peer, backlog, sock, vchan_port_notify_client, child>>
      BY <2>1 DEF loop_top, reap_children_done, ppoll_ready, ppoll_eintr, localVars,
         handle_agent_restart_reconnected, handle_agent_restart_failed, skip_phase
    <3> QED
      BY <3>1, QuietLocal
  <2>2. ASSUME NEW p \in Pid, reap_children(p) PROVE LocalInv'
    <3>1. /\ UNCHANGED <<clients, peer, backlog, sock, vchan_port_notify_client>>
          /\ child' = [child EXCEPT ![p].stage = "reaped"]
      BY <2>2 DEF reap_children
    <3>2. child \in [Pid -> ChildProcess]
      BY DEF TInv, TypeOK, PendingTypes
    <3>3. \A r \in Pid : child'[r] = child[r] \/ child'[r].stage = "reaped"
      BY <3>1, <3>2 DEF ChildProcess
    <3> QED
      BY <3>1, <3>3, QuietLocal
  <2>3. CASE handle_agent_restart
    BY <2>3, RestartLocal
  <2>4. CASE handle_new_client
    BY <2>4, NewClientLocal
  <2>5. CASE handle_message_from_agent
    BY <2>5, AgentMessageLocal
  <2>6. CASE \E fd \in Index : ClientHandler(fd)
    BY <2>6, ClientMessageLocal, HelloLocal DEF ClientHandler
  <2> QED
    BY <1>1, <2>1, <2>2, <2>3, <2>4, <2>5, <2>6 DEF Daemon, ClientHandler
<1>2. CASE signal_handler_sigterm \/ Exited \/ UNCHANGED vars \/ Agent
  <2>1. UNCHANGED <<clients, peer, backlog, sock, vchan_port_notify_client, child>>
    BY <1>2 DEF signal_handler_sigterm, Exited, vars, daemonVars, localVars, Agent, agent_trigger,
       agent_receive, agent_terminated, agent_crash, AgentStep
  <2> QED
    BY <2>1, QuietLocal
<1>3. CASE \E p \in Pid : Child(p) \/ child_killed(p)
  BY <1>3, ChildLocal
<1>4. CASE \E u \in User : LocalUser(u)
  BY <1>4, UserLocal
<1> QED
  BY <1>1, <1>2, <1>3, <1>4 DEF Next

\* A client that was given a port is the one to notify for a port as long as
\* its socket is open: handle_cmdline_body_from_client() records it when it
\* tells the port, and only terminate_client() forgets it.
THEOREM NotifiedCorrect == Spec => []RunningClientNotified
<1>1. Init => NotifyConsistent
  BY DEF Init, NotifyConsistent
<1>2. LocalInv => RunningClientNotified
  BY DEF LocalInv
<1> QED
  BY <1>1, <1>2, InitTInv, InitLocal, StepTInv, StepNotify, StepLocal, PTL DEF Spec

-----------------------------------------------------------------------------
(* Ports and the connections that use them *)

\* The positions of the elements of S in a queue; whether they are none, or
\* one whose domain is d.
Places(s, S) == {k \in DOMAIN s : s[k] \in S}
NoneIn(s, S) == Places(s, S) = {}
OneIn(s, S, d) == \E k \in DOMAIN s : Places(s, S) = {k} /\ s[k].domain = d

\* What becomes of them when a message is added to the queue.
LEMMA QueueAppend ==
  ASSUME NEW T, NEW s \in Seq(T), NEW m \in T, NEW S, NEW s2, s2 = Append(s, m)
  PROVE  /\ m \notin S => (NoneIn(s, S) => NoneIn(s2, S))
         /\ m \notin S => \A d : OneIn(s, S, d) => OneIn(s2, S, d)
         /\ m \in S => (NoneIn(s, S) => OneIn(s2, S, m.domain))
<1>1. /\ Len(s) \in Nat /\ DOMAIN s = 1 .. Len(s) /\ DOMAIN s2 = 1 .. Len(s) + 1
      /\ \A k \in DOMAIN s : s2[k] = s[k]
      /\ s2[Len(s) + 1] = m
  BY SMT
<1>2. /\ \A k \in DOMAIN s2 : k \in DOMAIN s \/ k = Len(s) + 1
      /\ \A k \in DOMAIN s : k \in DOMAIN s2
      /\ Len(s) + 1 \in DOMAIN s2 /\ Len(s) + 1 \notin DOMAIN s
  BY <1>1, SMT
<1>3. m \notin S => Places(s2, S) = Places(s, S)
  BY <1>1, <1>2 DEF Places
<1>4. m \in S => Places(s2, S) = Places(s, S) \cup {Len(s) + 1}
  BY <1>1, <1>2 DEF Places
<1>5. ASSUME m \in S, NoneIn(s, S) PROVE OneIn(s2, S, m.domain)
  <2>1. Places(s2, S) = {Len(s) + 1}
    BY <1>4, <1>5, SMT DEF NoneIn
  <2> QED
    BY <1>1, <1>2, <2>1 DEF OneIn
<1>6. ASSUME m \notin S, NEW d, OneIn(s, S, d) PROVE OneIn(s2, S, d)
  <2>1. PICK k \in DOMAIN s : Places(s, S) = {k} /\ s[k].domain = d
    BY <1>6 DEF OneIn
  <2> QED
    BY <1>1, <1>2, <1>3, <1>6, <2>1 DEF OneIn
<1>7. m \notin S => (NoneIn(s, S) => NoneIn(s2, S))
  BY <1>3 DEF NoneIn
<1> QED
  BY <1>5, <1>6, <1>7

\* What becomes of them when the first message is taken off the queue.
LEMMA QueueTail ==
  ASSUME NEW T, NEW s \in Seq(T), s # <<>>, NEW S, NEW s2, s2 = Tail(s)
  PROVE  /\ NoneIn(s, S) => NoneIn(s2, S) /\ Head(s) \notin S
         /\ Head(s) \notin S => \A d : OneIn(s, S, d) => OneIn(s2, S, d)
         /\ Head(s) \in S => \A d : OneIn(s, S, d) => d = Head(s).domain /\ NoneIn(s2, S)
<1>1. /\ Len(s) \in Nat /\ DOMAIN s = 1 .. Len(s) /\ DOMAIN s2 = 1 .. Len(s) - 1
      /\ \A k \in DOMAIN s2 : s2[k] = s[k + 1]
      /\ 1 \in DOMAIN s /\ Head(s) = s[1]
  BY SMT
<1>2. /\ \A k \in DOMAIN s2 : k \in Nat /\ k + 1 \in DOMAIN s /\ k + 1 # 1
      /\ \A k \in DOMAIN s : k = 1 \/ (k - 1 \in DOMAIN s2 /\ (k - 1) + 1 = k)
  BY <1>1, SMT
<1>3. ASSUME NoneIn(s, S) PROVE NoneIn(s2, S) /\ Head(s) \notin S
  BY <1>1, <1>2, <1>3, SMT DEF NoneIn, Places
<1>4. ASSUME NEW d, OneIn(s, S, d), Head(s) \notin S PROVE OneIn(s2, S, d)
  <2>1. PICK k \in DOMAIN s : Places(s, S) = {k} /\ s[k].domain = d
    BY <1>4 DEF OneIn
  <2>2. k # 1 /\ s[k] \in S
    BY <1>1, <1>4, <2>1 DEF Places
  <2>3. k - 1 \in DOMAIN s2 /\ s2[k - 1] = s[k]
    BY <1>1, <1>2, <2>2
  <2>4. \A j \in DOMAIN s2 : s2[j] \in S => j + 1 = k
    BY <1>1, <1>2, <2>1 DEF Places
  <2>5. \A j \in DOMAIN s2 : s2[j] \in S => j = k - 1
    BY <1>2, <2>4, SMT
  <2>6. Places(s2, S) = {k - 1}
    BY <2>2, <2>3, <2>5 DEF Places
  <2> QED
    BY <2>1, <2>3, <2>6 DEF OneIn
<1>5. ASSUME NEW d, OneIn(s, S, d), Head(s) \in S PROVE d = Head(s).domain /\ NoneIn(s2, S)
  <2>1. PICK k \in DOMAIN s : Places(s, S) = {k} /\ s[k].domain = d
    BY <1>5 DEF OneIn
  <2>2. k = 1
    BY <1>1, <1>5, <2>1 DEF Places
  <2>3. \A j \in DOMAIN s2 : s2[j] \notin S
    BY <1>1, <1>2, <2>1, <2>2 DEF Places
  <2> QED
    BY <1>1, <2>1, <2>2, <2>3 DEF NoneIn, Places
<1> QED
  BY <1>3, <1>4, <1>5

\* The messages about connections on port i that this daemon allocated.
Announcements(i) == {m \in ToAgentMsg : m.type # "SERVICE_REFUSED" /\ Own(m, i)}
Endings(i) == {m \in FromAgentMsg : m.type = "CONNECTION_TERMINATED" /\ Own(m, i)}
NoneOf(X) == X = {}
OneOf(X, d) == \E c \in X : X = {c} /\ c.domain = d

\* A free port has no connection, a reserved one has one, with the domain it
\* is reserved for.
PortFree(i) ==
    /\ used_vchan_ports[i] = VCHAN_PORT_UNUSED
    /\ NoneIn(to_agent, Announcements(i))
    /\ NoneOf(Held(i))
    /\ NoneIn(from_agent, Endings(i))
    /\ NoneOf(LeftBehind(i))
PortInUse(i) ==
    LET d == used_vchan_ports[i] IN
    /\ d # VCHAN_PORT_UNUSED
    /\ i \in OwnPorts(d)
    /\ \/ /\ OneIn(to_agent, Announcements(i), d)
          /\ NoneOf(Held(i)) /\ NoneIn(from_agent, Endings(i)) /\ NoneOf(LeftBehind(i))
       \/ /\ OneOf(Held(i), d)
          /\ NoneIn(to_agent, Announcements(i)) /\ NoneIn(from_agent, Endings(i)) /\ NoneOf(LeftBehind(i))
       \/ /\ OneIn(from_agent, Endings(i), d)
          /\ NoneIn(to_agent, Announcements(i)) /\ NoneOf(Held(i)) /\ NoneOf(LeftBehind(i))
       \/ /\ OneOf(LeftBehind(i), d)
          /\ NoneIn(to_agent, Announcements(i)) /\ NoneOf(Held(i)) /\ NoneIn(from_agent, Endings(i))
PortOK(i) == PortFree(i) \/ PortInUse(i)

\* An agent that is gone holds no connection, and nothing is on its way to it.
PortInv ==
    pc # "exited" =>
        /\ ~vchan_open => to_agent = <<>> /\ agent.conns = {}
        /\ \A i \in Index : PortOK(i)

\* A step moves no connection of port i.
PortSame(i) ==
    /\ used_vchan_ports'[i] = used_vchan_ports[i]
    /\ NoneIn(to_agent, Announcements(i)) => NoneIn(to_agent', Announcements(i))
    /\ NoneOf(Held(i)) => NoneOf(Held(i)')
    /\ NoneIn(from_agent, Endings(i)) => NoneIn(from_agent', Endings(i))
    /\ NoneOf(LeftBehind(i)) => NoneOf(LeftBehind(i)')
    /\ \A d : /\ OneIn(to_agent, Announcements(i), d) => OneIn(to_agent', Announcements(i), d)
              /\ OneOf(Held(i), d) => OneOf(Held(i)', d)
              /\ OneIn(from_agent, Endings(i), d) => OneIn(from_agent', Endings(i), d)
              /\ OneOf(LeftBehind(i), d) => OneOf(LeftBehind(i)', d)

\* Such a step keeps the port accounted for.
LEMMA PortKept ==
  ASSUME NEW i \in Index, PortOK(i), PortSame(i)
  PROVE  PortOK(i)'
<1>1. CASE PortFree(i)
  BY <1>1 DEF PortOK, PortFree, PortSame, NoneIn, NoneOf, Announcements, Endings
<1>2. CASE PortInUse(i)
  BY <1>2 DEF PortOK, PortInUse, PortSame
<1> QED
  BY <1>1, <1>2 DEF PortOK

\* Messages and connections that are not this daemon's leave a port alone.
LEMMA QueuesSame ==
  ASSUME TInv, NEW i \in Index,
         used_vchan_ports'[i] = used_vchan_ports[i],
         Held(i)' = Held(i), LeftBehind(i)' = LeftBehind(i),
         \/ UNCHANGED to_agent
         \/ \E m \in ToAgentMsg : /\ to_agent' = Append(to_agent, m)
                                  /\ m \notin Announcements(i)
         \/ /\ to_agent # <<>> /\ to_agent' = Tail(to_agent)
            /\ Head(to_agent) \notin Announcements(i),
         \/ UNCHANGED from_agent
         \/ \E m \in FromAgentMsg : /\ from_agent' = Append(from_agent, m)
                                    /\ m \notin Endings(i)
         \/ /\ from_agent # <<>> /\ from_agent' = Tail(from_agent)
            /\ Head(from_agent) \notin Endings(i)
  PROVE  PortSame(i)
<1>1. to_agent \in Seq(ToAgentMsg) /\ from_agent \in Seq(FromAgentMsg)
  BY DEF TInv, TypeOK, VchanTypes
<1>2. /\ NoneIn(to_agent, Announcements(i)) => NoneIn(to_agent', Announcements(i))
      /\ \A d : OneIn(to_agent, Announcements(i), d) => OneIn(to_agent', Announcements(i), d)
  <2>1. CASE UNCHANGED to_agent
    BY <2>1
  <2>2. ASSUME NEW m \in ToAgentMsg, to_agent' = Append(to_agent, m), m \notin Announcements(i)
        PROVE  /\ NoneIn(to_agent, Announcements(i)) => NoneIn(to_agent', Announcements(i))
               /\ \A d : OneIn(to_agent, Announcements(i), d) => OneIn(to_agent', Announcements(i), d)
    BY <1>1, <2>2, QueueAppend
  <2>3. CASE to_agent # <<>> /\ to_agent' = Tail(to_agent) /\ Head(to_agent) \notin Announcements(i)
    BY <1>1, <2>3, QueueTail
  <2> QED
    BY <2>1, <2>2, <2>3
<1>3. /\ NoneIn(from_agent, Endings(i)) => NoneIn(from_agent', Endings(i))
      /\ \A d : OneIn(from_agent, Endings(i), d) => OneIn(from_agent', Endings(i), d)
  <2>1. CASE UNCHANGED from_agent
    BY <2>1
  <2>2. ASSUME NEW m \in FromAgentMsg, from_agent' = Append(from_agent, m), m \notin Endings(i)
        PROVE  /\ NoneIn(from_agent, Endings(i)) => NoneIn(from_agent', Endings(i))
               /\ \A d : OneIn(from_agent, Endings(i), d) => OneIn(from_agent', Endings(i), d)
    BY <1>1, <2>2, QueueAppend
  <2>3. CASE from_agent # <<>> /\ from_agent' = Tail(from_agent) /\ Head(from_agent) \notin Endings(i)
    BY <1>1, <2>3, QueueTail
  <2> QED
    BY <2>1, <2>2, <2>3
<1> QED
  BY <1>2, <1>3 DEF PortSame

\* libvchan_send() of a message that is not about a port of this daemon.
LEMMA DeliverPorts ==
  ASSUME TInv, PortInv, pc # "exited", NEW m \in ToAgentMsg, NEW next,
         \A i \in Index : m \notin Announcements(i), Deliver(m, next),
         UNCHANGED <<vchan_open, used_vchan_ports, orphans, agent>>,
         \/ UNCHANGED from_agent
         \/ /\ from_agent # <<>> /\ from_agent' = Tail(from_agent)
            /\ \A i \in Index : Head(from_agent) \notin Endings(i)
  PROVE  PortInv'
<1> SUFFICES ASSUME pc' # "exited" PROVE PortInv'
  BY DEF PortInv
<1>1. vchan_open /\ to_agent' = Append(to_agent, m)
  BY DEF Deliver
<1>2. ASSUME NEW i \in Index PROVE PortOK(i)'
  <2>0. Held(i)' = Held(i) /\ LeftBehind(i)' = LeftBehind(i)
    BY DEF Held, LeftBehind
  <2>1. PortSame(i)
    BY <1>1, <2>0, QueuesSame
  <2>2. PortOK(i)
    BY DEF PortInv
  <2> QED
    BY <2>1, <2>2, PortKept
<1> QED
  BY <1>1, <1>2 DEF PortInv

\* A step that moves no message and no connection.
LEMMA QuietPorts ==
  ASSUME TInv, PortInv, pc' # "exited" => pc # "exited",
         UNCHANGED <<vchan_open, used_vchan_ports, orphans, to_agent>>, agent'.conns = agent.conns,
         \/ UNCHANGED from_agent
         \/ /\ from_agent # <<>> /\ from_agent' = Tail(from_agent)
            /\ \A i \in Index : Head(from_agent) \notin Endings(i)
  PROVE  PortInv'
<1>1. ASSUME NEW i \in Index, pc # "exited" PROVE PortOK(i)'
  <2>0. Held(i)' = Held(i) /\ LeftBehind(i)' = LeftBehind(i)
    BY DEF Held, LeftBehind
  <2>1. PortSame(i)
    BY <2>0, QueuesSame
  <2>2. PortOK(i)
    BY <1>1 DEF PortInv
  <2> QED
    BY <2>1, <2>2, PortKept
<1> QED
  BY <1>1 DEF PortInv

\* The ports that daemons give out never collide.
LEMMA PortsDisjoint ==
  ASSUME NEW d \in Domain, d # 0, NEW q \in OtherDaemonPorts(d)
  PROVE  q \notin OwnPorts(d)
<1>1. d \in Nat /\ d # remote_domain_id /\ remote_domain_id \in Nat
  BY DaemonAssumption DEF DaemonAssumption
<1> QED
  BY <1>1, SMT DEF OwnPorts, OtherDaemonPorts

\* The second half of handle_cmdline_body_from_client(): a new port is reserved
\* for the connection that is announced, and one of another daemon is not ours.
LEMMA ForwardPorts ==
  ASSUME TInv, LocalInv, PortInv, pc # "exited", NEW fd \in Index, NEW c \in Conn, NEW m \in Asks(c),
         ForwardToAgent(fd, m), UNCHANGED <<vchan_open, from_agent, agent, orphans>>
  PROVE  PortInv'
<1> DEFINE fwd(port) == [type |-> m.type, ident |-> m.ident, port |-> port, domain |-> m.domain]
<1>1. /\ m.domain \in Domain /\ m.type \in {"EXEC", "SERVICE_CONNECT"}
      /\ m.ident \in Ident \cup {None}
      /\ m.port # ANY_PORT => m.domain # 0 /\ m.port \in OtherDaemonPorts(m.domain)
  <2>1. m \in ClientMsg /\ m.type \in {"EXEC", "SERVICE_CONNECT"}
    BY DEF Asks
  <2>2. m.domain \in Domain /\ m.ident \in Ident \cup {None}
    BY <2>1, RequestFields
  <2>3. m.port # ANY_PORT => [port |-> m.port, domain |-> m.domain] \in Target
    BY DEF Asks
  <2>4. m.port # ANY_PORT => m.domain # 0 /\ m.port \in OtherDaemonPorts(m.domain)
    BY <2>3, SMT DEF Target
  <2> QED
    BY <2>1, <2>2, <2>4
<1>2. ASSUME NEW q \in Index
      PROVE  /\ fwd(q) \in ToAgentMsg
             /\ fwd(q).domain = m.domain
             /\ \A i \in Index : fwd(q) \in Announcements(i) <=> i = q /\ q \in OwnPorts(m.domain)
  <2>1. fwd(q) \in ToAgentMsg
    BY <1>1 DEF ToAgentMsg
  <2>2. fwd(q).type = m.type /\ fwd(q).port = q /\ fwd(q).domain = m.domain
    OBVIOUS
  <2> HIDE DEF fwd
  <2>3. m.type # "SERVICE_REFUSED"
    BY <1>1
  <2> QED
    BY <2>1, <2>2, <2>3 DEF Announcements, Own
<1> HIDE DEF fwd
<1>3. CASE UNCHANGED <<pc, to_agent, used_vchan_ports>>
  BY <1>3, QuietPorts
<1>4. CASE /\ m.port # ANY_PORT
           /\ Deliver(fwd(m.port), "clients")
           /\ UNCHANGED used_vchan_ports
  <2>1. m.port \in Index /\ m.port \notin OwnPorts(m.domain)
    BY <1>1, <1>4, PortsDisjoint DEF OtherDaemonPorts
  <2>2. fwd(m.port) \in ToAgentMsg /\ \A i \in Index : fwd(m.port) \notin Announcements(i)
    BY <1>2, <2>1
  <2> QED
    BY <1>4, <2>2, DeliverPorts
<1>5. ASSUME NEW q \in FreePorts(m.domain),
             used_vchan_ports' = [used_vchan_ports EXCEPT ![q] = m.domain],
             Deliver(fwd(q), "clients")
      PROVE  PortInv'
  <2> SUFFICES ASSUME pc' # "exited" PROVE PortInv'
    BY DEF PortInv
  <2>1. vchan_open /\ to_agent' = Append(to_agent, fwd(q))
    BY <1>5 DEF Deliver
  <2>2. /\ q \in Index /\ q \in OwnPorts(m.domain) /\ used_vchan_ports[q] = VCHAN_PORT_UNUSED
    BY DEF FreePorts, OwnPorts
  <2>3. m.domain # VCHAN_PORT_UNUSED
    BY <1>1, DaemonAssumption, SMT DEF DaemonAssumption, VCHAN_PORT_UNUSED
  <2>4. /\ used_vchan_ports'[q] = m.domain
        /\ \A i \in Index \ {q} : used_vchan_ports'[i] = used_vchan_ports[i]
    BY <1>5, <2>2 DEF TInv, TypeOK, PortTypes
  <2>5. ASSUME NEW i \in Index
        PROVE  PortOK(i) /\ Held(i)' = Held(i) /\ LeftBehind(i)' = LeftBehind(i)
    BY DEF PortInv, Held, LeftBehind
  <2>6. ASSUME NEW i \in Index, i # q PROVE PortOK(i)'
    <3>1. fwd(q) \in ToAgentMsg /\ fwd(q) \notin Announcements(i)
      BY <1>2, <2>2, <2>6
    <3>2. PortSame(i)
      BY <2>1, <2>4, <2>5, <2>6, <3>1, QueuesSame
    <3> QED
      BY <2>5, <3>2, PortKept
  <2>7. PortOK(q)'
    <3>1. PortFree(q)
      BY <2>2, <2>5 DEF PortOK, PortInUse
    <3>2. fwd(q) \in ToAgentMsg /\ fwd(q) \in Announcements(q) /\ fwd(q).domain = m.domain
      BY <1>2, <2>2
    <3>3. to_agent \in Seq(ToAgentMsg)
      BY DEF TInv, TypeOK, VchanTypes
    <3>4. OneIn(to_agent', Announcements(q), m.domain)
      BY <2>1, <3>1, <3>2, <3>3, QueueAppend DEF PortFree
    <3>5. PortInUse(q)'
      BY <2>2, <2>3, <2>4, <2>5, <3>1, <3>4 DEF PortInUse, PortFree
    <3> QED
      BY <3>5 DEF PortOK
  <2> QED
    BY <2>1, <2>6, <2>7 DEF PortInv
<1> QED
  BY <1>3, <1>4, <1>5 DEF ForwardToAgent, IsFirst, fwd

\* handle_message_from_agent(): the port of a connection that has ended is
\* released if it is ours.
LEMMA AgentMessagePorts ==
  ASSUME TInv, PortInv, handle_message_from_agent
  PROVE  PortInv'
<1>t. /\ from_agent \in Seq(FromAgentMsg) /\ from_agent # <<>>
      /\ from_agent' = Tail(from_agent)
      /\ UNCHANGED <<vchan_open, agent, orphans>>
      /\ pc # "exited"
  BY DEF handle_message_from_agent, TInv, TypeOK, VchanTypes, ghostVars
<1>0. Head(from_agent) \in FromAgentMsg
  BY <1>t, HeadTail
<1>m. PICK m \in FromAgentMsg : m = Head(from_agent)
  BY <1>0
<1>1. CASE m.type = "TRIGGER_SERVICE" \/ pc' = "exited"
  <2>1. CASE pc' = "exited"
    BY <2>1 DEF PortInv
  <2>2. CASE m.type = "TRIGGER_SERVICE" /\ pc' # "exited"
    <3>1. \A i \in Index : Head(from_agent) \notin Endings(i)
      BY <1>m, <2>2 DEF Endings
    <3>2. UNCHANGED used_vchan_ports
      BY <1>m, <2>2 DEF handle_message_from_agent
    <3>3. UNCHANGED to_agent \/ Deliver(Refused(m.ident), "agent")
      BY <1>m, <2>2 DEF handle_message_from_agent, handle_execute_service
    <3>4. Refused(m.ident) \in ToAgentMsg /\ \A i \in Index : Refused(m.ident) \notin Announcements(i)
      <4>1. m.ident \in Ident
        BY <2>2 DEF FromAgentMsg
      <4> QED
        BY <4>1 DEF ToAgentMsg, Announcements, Refused
    <3>5. CASE UNCHANGED to_agent
      BY <1>t, <3>1, <3>2, <3>5, QuietPorts
    <3>6. CASE Deliver(Refused(m.ident), "agent")
      BY <1>t, <3>1, <3>2, <3>4, <3>6, DeliverPorts
    <3> QED
      BY <3>3, <3>5, <3>6
  <2> QED
    BY <1>1, <2>1, <2>2
<1>2. CASE m.type = "CONNECTION_TERMINATED" /\ pc' # "exited"
  <2>1. m.port \in Index /\ m.domain \in Domain
    BY <1>2 DEF FromAgentMsg
  <2>2. release_vchan_port(m.port, m.domain) /\ UNCHANGED to_agent
    BY <1>2, <1>m DEF handle_message_from_agent
  <2>3. m.domain # VCHAN_PORT_UNUSED
    BY <2>1, DaemonAssumption, SMT DEF DaemonAssumption, VCHAN_PORT_UNUSED
  <2>4. ASSUME NEW i \in Index
        PROVE  PortOK(i) /\ Held(i)' = Held(i) /\ LeftBehind(i)' = LeftBehind(i)
    BY <1>t DEF PortInv, Held, LeftBehind
  <2>5. \A i \in Index : m \in Endings(i) <=> i = m.port /\ i \in OwnPorts(m.domain)
    BY <1>2 DEF Endings, Own
  <2>6. CASE m.port \in OwnPorts(m.domain)
    <3>1. m \in Endings(m.port)
      BY <2>1, <2>5, <2>6
    <3>2. /\ ~NoneIn(from_agent, Endings(m.port))
          /\ \A d : OneIn(from_agent, Endings(m.port), d) =>
                       d = m.domain /\ NoneIn(from_agent', Endings(m.port))
      BY <1>t, <1>m, <3>1, QueueTail
    <3>3. PortInUse(m.port)
      BY <2>1, <2>4, <3>2 DEF PortOK, PortFree
    <3>4. /\ used_vchan_ports[m.port] = m.domain
          /\ NoneIn(from_agent', Endings(m.port))
          /\ NoneIn(to_agent, Announcements(m.port)) /\ NoneOf(Held(m.port)) /\ NoneOf(LeftBehind(m.port))
      BY <3>2, <3>3 DEF PortInUse
    <3>5. used_vchan_ports' = [used_vchan_ports EXCEPT ![m.port] = VCHAN_PORT_UNUSED]
      BY <2>2, <3>4 DEF release_vchan_port
    <3>6. /\ used_vchan_ports'[m.port] = VCHAN_PORT_UNUSED
          /\ \A i \in Index \ {m.port} : used_vchan_ports'[i] = used_vchan_ports[i]
      BY <2>1, <3>5 DEF TInv, TypeOK, PortTypes
    <3>7. PortFree(m.port)'
      BY <2>1, <2>2, <2>4, <3>4, <3>6 DEF PortFree
    <3>8. ASSUME NEW i \in Index, i # m.port PROVE PortOK(i)'
      <4>1. PortSame(i)
        BY <1>t, <1>m, <2>2, <2>4, <2>5, <3>6, <3>8, QueuesSame
      <4> QED
        BY <2>4, <4>1, PortKept
    <3> QED
      BY <1>t, <2>2, <3>7, <3>8 DEF PortInv, PortOK
  <2>7. CASE m.port \notin OwnPorts(m.domain)
    <3>1. used_vchan_ports[m.port] # m.domain
      BY <2>1, <2>3, <2>4, <2>7 DEF PortOK, PortFree, PortInUse
    <3>2. UNCHANGED used_vchan_ports
      BY <2>2, <3>1 DEF release_vchan_port
    <3>3. \A i \in Index : Head(from_agent) \notin Endings(i)
      BY <1>m, <2>5, <2>7
    <3> QED
      BY <1>t, <2>2, <3>2, <3>3, QuietPorts
  <2> QED
    BY <2>6, <2>7
<1> QED
  BY <1>1, <1>2 DEF FromAgentMsg

\* agent_receive(), agent_terminated() and agent_trigger(): a connection goes
\* from the queue to the agent, and from the agent to the other queue.
LEMMA AgentPorts ==
  ASSUME TInv, PortInv,
         \/ \E id \in Ident, ok \in TriggerValid : agent_trigger(id, ok)
         \/ agent_receive
         \/ \E c \in agent.conns : agent_terminated(c)
  PROVE  PortInv'
<1>t. to_agent \in Seq(ToAgentMsg) /\ from_agent \in Seq(FromAgentMsg)
  BY DEF TInv, TypeOK, VchanTypes
<1>g. agent \in AgentState
  BY DEF TInv, TypeOK, VchanTypes
<1>f. /\ UNCHANGED <<pc, used_vchan_ports, vchan_open, orphans>>
      /\ pc # "exited" /\ vchan_open
  BY DEF agent_trigger, agent_receive, agent_terminated, AgentStep, daemonVars
<1>p. ASSUME NEW i \in Index
      PROVE  PortOK(i) /\ LeftBehind(i)' = LeftBehind(i)
  BY <1>f DEF PortInv, LeftBehind
<1>1. ASSUME NEW id \in Ident, NEW ok \in TriggerValid, agent_trigger(id, ok)
      PROVE  PortInv'
  <2> DEFINE m == [type |-> "TRIGGER_SERVICE", version |-> agent.version, ident |-> id, valid |-> ok]
  <2>1. m \in FromAgentMsg
    <3>1. ok \in BOOLEAN
      BY DaemonAssumption DEF DaemonAssumption
    <3> QED
      BY <1>g, <3>1 DEF FromAgentMsg, AgentState
  <2>2. m.type = "TRIGGER_SERVICE"
    OBVIOUS
  <2>3. from_agent' = Append(from_agent, m) /\ UNCHANGED to_agent
    BY <1>1 DEF agent_trigger
  <2> HIDE DEF m
  <2>4. agent'.conns = agent.conns
    BY <1>1, <1>g DEF agent_trigger, AgentState
  <2>5. ASSUME NEW i \in Index PROVE PortOK(i)'
    <3>1. m \notin Endings(i)
      BY <2>2 DEF Endings
    <3>2. Held(i)' = Held(i)
      BY <2>4 DEF Held
    <3>3. PortSame(i)
      BY <1>f, <1>p, <2>1, <2>3, <3>1, <3>2, QueuesSame
    <3> QED
      BY <1>p, <3>3, PortKept
  <2> QED
    BY <1>f, <2>5 DEF PortInv
<1>2. CASE agent_receive
  <2>0. to_agent # <<>> /\ to_agent' = Tail(to_agent) /\ UNCHANGED from_agent
    BY <1>2 DEF agent_receive
  <2>1. Head(to_agent) \in ToAgentMsg
    BY <1>t, <2>0, HeadTail
  <2>m. PICK m \in ToAgentMsg : m = Head(to_agent)
    BY <2>1
  <2>2. CASE m.type = "SERVICE_REFUSED"
    <3>1. agent' = [agent EXCEPT !.busy = @ \ {m.ident}]
      BY <1>2, <2>m, <2>2 DEF agent_receive
    <3>2. agent'.conns = agent.conns
      BY <1>g, <3>1 DEF AgentState
    <3>3. ASSUME NEW i \in Index PROVE PortOK(i)'
      <4>1. Head(to_agent) \notin Announcements(i)
        BY <2>m, <2>2 DEF Announcements
      <4>2. Held(i)' = Held(i)
        BY <3>2 DEF Held
      <4>3. PortSame(i)
        BY <1>f, <1>p, <2>0, <4>1, <4>2, QueuesSame
      <4> QED
        BY <1>p, <4>3, PortKept
    <3> QED
      BY <1>f, <3>3 DEF PortInv
  <2>3. CASE m.type # "SERVICE_REFUSED"
    <3>0. PICK c : c = [ident |-> m.ident, port |-> m.port, domain |-> m.domain]
      OBVIOUS
    <3>1. c.port = m.port /\ c.domain = m.domain
      BY <3>0
    <3>2. agent' = [agent EXCEPT !.conns = @ \cup {c}]
      BY <1>2, <2>m, <2>3, <3>0 DEF agent_receive
    <3>3. agent'.conns = agent.conns \cup {c}
      BY <1>g, <3>2 DEF AgentState
    <3>4. ASSUME NEW i \in Index PROVE PortOK(i)'
      <4>1. Own(c, i) <=> m \in Announcements(i)
        BY <2>3, <3>1 DEF Announcements, Own
      <4>2. CASE m \notin Announcements(i)
        <5>1. Held(i)' = Held(i)
          BY <3>3, <4>1, <4>2 DEF Held
        <5>2. PortSame(i)
          BY <1>f, <1>p, <2>0, <2>m, <4>2, <5>1, QueuesSame
        <5> QED
          BY <1>p, <5>2, PortKept
      <4>3. CASE m \in Announcements(i)
        <5>1. /\ ~NoneIn(to_agent, Announcements(i))
              /\ \A d : OneIn(to_agent, Announcements(i), d) =>
                           d = m.domain /\ NoneIn(to_agent', Announcements(i))
          BY <1>t, <2>0, <2>m, <4>3, QueueTail
        <5>2. PortInUse(i)
          BY <1>p, <5>1 DEF PortOK, PortFree
        <5>3. /\ used_vchan_ports[i] = m.domain
              /\ NoneIn(to_agent', Announcements(i))
              /\ NoneOf(Held(i)) /\ NoneIn(from_agent, Endings(i)) /\ NoneOf(LeftBehind(i))
          BY <5>1, <5>2 DEF PortInUse
        <5>4. Held(i)' = {c}
          BY <3>3, <4>1, <4>3, <5>3 DEF Held, NoneOf
        <5>5. OneOf(Held(i)', m.domain)
          BY <3>1, <5>4 DEF OneOf
        <5>6. PortInUse(i)'
          BY <1>f, <1>p, <2>0, <5>2, <5>3, <5>5 DEF PortInUse
        <5> QED
          BY <5>6 DEF PortOK
      <4> QED
        BY <4>2, <4>3
    <3> QED
      BY <1>f, <3>4 DEF PortInv
  <2> QED
    BY <2>2, <2>3
<1>3. ASSUME NEW c \in agent.conns, agent_terminated(c)
      PROVE  PortInv'
  <2> DEFINE m0 == [type |-> "CONNECTION_TERMINATED", port |-> c.port, domain |-> c.domain]
  <2>1. m0 \in FromAgentMsg
    BY <1>g DEF FromAgentMsg, Connection, AgentState
  <2>2. m0.type = "CONNECTION_TERMINATED" /\ m0.port = c.port /\ m0.domain = c.domain
    OBVIOUS
  <2>3. from_agent' = Append(from_agent, m0) /\ UNCHANGED to_agent
    BY <1>3 DEF agent_terminated
  <2> HIDE DEF m0
  <2>m. PICK m \in FromAgentMsg : m = m0
    BY <2>1
  <2>4. agent'.conns = agent.conns \ {c}
    BY <1>3, <1>g DEF agent_terminated, AgentState
  <2>5. ASSUME NEW i \in Index PROVE PortOK(i)'
    <3>1. m \in Endings(i) <=> Own(c, i)
      BY <2>2, <2>m DEF Endings, Own
    <3>2. CASE ~Own(c, i)
      <4>1. Held(i)' = Held(i)
        BY <2>4, <3>2 DEF Held
      <4>2. PortSame(i)
        BY <1>f, <1>p, <2>3, <2>m, <3>1, <3>2, <4>1, QueuesSame
      <4> QED
        BY <1>p, <4>2, PortKept
    <3>3. CASE Own(c, i)
      <4>1. c \in Held(i)
        BY <3>3 DEF Held
      <4>2. PortInUse(i) /\ ~NoneOf(Held(i))
        BY <1>p, <4>1 DEF PortOK, PortFree, NoneOf
      <4>3. /\ OneOf(Held(i), used_vchan_ports[i])
            /\ NoneIn(to_agent, Announcements(i)) /\ NoneIn(from_agent, Endings(i))
            /\ NoneOf(LeftBehind(i))
        BY <4>2 DEF PortInUse
      <4>4. Held(i) = {c} /\ c.domain = used_vchan_ports[i]
        BY <4>1, <4>3 DEF OneOf
      <4>5. Held(i)' = {}
        BY <2>4, <4>4 DEF Held
      <4>6. OneIn(from_agent', Endings(i), m.domain)
        BY <1>t, <2>3, <2>m, <3>1, <3>3, <4>3, QueueAppend
      <4>7. m.domain = used_vchan_ports[i]
        BY <2>2, <2>m, <4>4
      <4>8. PortInUse(i)'
        BY <1>f, <1>p, <2>3, <4>2, <4>3, <4>5, <4>6, <4>7 DEF PortInUse, NoneOf
      <4> QED
        BY <4>8 DEF PortOK
    <3> QED
      BY <3>2, <3>3
  <2> QED
    BY <1>f, <2>5 DEF PortInv
<1> QED
  BY <1>1, <1>2, <1>3

\* An empty queue holds nothing.
LEMMA NoneInEmpty == \A S : NoneIn(<<>>, S)
BY SMT DEF NoneIn, Places

\* What an agent that crashes leaves behind on port i: its connection there, or
\* the one it was about to be told of.
LEMMA CrashPorts ==
  ASSUME TInv, PortInv, agent_crash
  PROVE  PortInv'
<1>t. to_agent \in Seq(ToAgentMsg) /\ agent \in AgentState
  BY DEF TInv, TypeOK, VchanTypes
<1>f. /\ UNCHANGED <<pc, used_vchan_ports, from_agent>>
      /\ pc # "exited" /\ vchan_open' = FALSE
      /\ to_agent' = <<>>
  BY DEF agent_crash, AgentStep, daemonVars
<1>c. agent'.conns = {}
  BY <1>t DEF agent_crash, AgentState
<1>o. orphans' = orphans \cup
          {[port |-> c.port, domain |-> c.domain] :
              c \in agent.conns \cup
                    {to_agent[k] : k \in {k \in DOMAIN to_agent :
                                             to_agent[k].type # "SERVICE_REFUSED"}}}
  BY DEF agent_crash
<1>1. ASSUME NEW i \in Index PROVE PortOK(i)'
  <2>0. PortOK(i)
    BY <1>f DEF PortInv
  <2>1. NoneIn(to_agent', Announcements(i)) /\ NoneOf(Held(i)')
    <3>1. Held(i)' = {}
      BY <1>c DEF Held
    <3> QED
      BY <1>f, <3>1, NoneInEmpty DEF NoneOf
  <2>a. \A k \in DOMAIN to_agent : to_agent[k] \in ToAgentMsg
    BY <1>t, SMT
  <2>b. \A k \in DOMAIN to_agent :
           k \in Places(to_agent, Announcements(i)) <=>
              to_agent[k].type # "SERVICE_REFUSED" /\ Own(to_agent[k], i)
    BY <2>a DEF Places, Announcements
  <2>2. ASSUME NEW x
        PROVE  x \in LeftBehind(i)' <=>
                 \/ x \in LeftBehind(i)
                 \/ \E c \in Held(i) : x = [port |-> i, domain |-> c.domain]
                 \/ \E k \in Places(to_agent, Announcements(i)) :
                       x = [port |-> i, domain |-> to_agent[k].domain]
    <3> DEFINE rec(c) == [port |-> c.port, domain |-> c.domain]
    <3>1. \A c : Own(rec(c), i) <=> Own(c, i)
      BY DEF Own
    <3>2. \A c : Own(c, i) => rec(c) = [port |-> i, domain |-> c.domain]
      BY DEF Own
    <3>3. x \in orphans' <=> \/ x \in orphans
                             \/ \E c \in agent.conns : x = rec(c)
                             \/ \E k \in DOMAIN to_agent :
                                   to_agent[k].type # "SERVICE_REFUSED" /\ x = rec(to_agent[k])
      BY <1>o, SMT
    <3>4. x \in LeftBehind(i)' <=> x \in orphans' /\ Own(x, i)
      BY DEF LeftBehind
    <3>5. x \in LeftBehind(i) <=> x \in orphans /\ Own(x, i)
      BY DEF LeftBehind
    <3>6. \A c : c \in Held(i) <=> c \in agent.conns /\ Own(c, i)
      BY DEF Held
    <3>7. Places(to_agent, Announcements(i)) \subseteq DOMAIN to_agent
      BY DEF Places
    <3> HIDE DEF rec
    <3>8. (\E c \in agent.conns : x = rec(c)) /\ Own(x, i) <=>
             \E c \in Held(i) : x = [port |-> i, domain |-> c.domain]
      BY <3>1, <3>2, <3>6
    <3>9. (\E k \in DOMAIN to_agent : to_agent[k].type # "SERVICE_REFUSED" /\ x = rec(to_agent[k]))
             /\ Own(x, i) <=>
             \E k \in Places(to_agent, Announcements(i)) :
                x = [port |-> i, domain |-> to_agent[k].domain]
      BY <2>b, <3>1, <3>2, <3>7
    <3> QED
      BY <3>3, <3>4, <3>5, <3>8, <3>9
  <2>3. CASE PortFree(i)
    <3>1. LeftBehind(i)' = {}
      BY <2>2, <2>3 DEF PortFree, NoneIn, NoneOf
    <3>2. PortFree(i)'
      BY <1>f, <2>1, <2>3, <3>1 DEF PortFree, NoneOf
    <3> QED
      BY <3>2 DEF PortOK
  <2>4. ASSUME PortInUse(i), LeftBehind(i) = {}, NoneIn(from_agent, Endings(i)),
               NEW x, x = [port |-> i, domain |-> used_vchan_ports[i]], LeftBehind(i)' = {x}
        PROVE  PortOK(i)'
    <3>1. x.domain = used_vchan_ports[i]
      BY <2>4
    <3>2. OneOf(LeftBehind(i)', used_vchan_ports[i])
      BY <2>4, <3>1 DEF OneOf
    <3>3. PortInUse(i)'
      BY <1>f, <2>1, <2>4, <3>2 DEF PortInUse
    <3> QED
      BY <3>3 DEF PortOK
  <2>5. CASE PortInUse(i)
    <3>0. PICK d : d = used_vchan_ports[i]
      OBVIOUS
    <3>1. CASE /\ OneIn(to_agent, Announcements(i), d)
               /\ NoneOf(Held(i)) /\ NoneIn(from_agent, Endings(i)) /\ NoneOf(LeftBehind(i))
      <4>1. PICK k \in DOMAIN to_agent : Places(to_agent, Announcements(i)) = {k}
                                         /\ to_agent[k].domain = d
        BY <3>1 DEF OneIn
      <4>2. LeftBehind(i)' = {[port |-> i, domain |-> d]}
        BY <2>2, <3>1, <4>1, SMTT(30) DEF NoneOf
      <4> QED
        BY <2>4, <2>5, <3>0, <3>1, <4>2 DEF NoneOf
    <3>2. CASE /\ OneOf(Held(i), d)
               /\ NoneIn(to_agent, Announcements(i)) /\ NoneIn(from_agent, Endings(i))
               /\ NoneOf(LeftBehind(i))
      <4>1. PICK c \in Held(i) : Held(i) = {c} /\ c.domain = d
        BY <3>2 DEF OneOf
      <4>2. LeftBehind(i)' = {[port |-> i, domain |-> d]}
        <5>1. \A x : (\E e \in Held(i) : x = [port |-> i, domain |-> e.domain]) <=>
                       x = [port |-> i, domain |-> d]
          BY <4>1
        <5>2. \A x : x \in LeftBehind(i)' <=> x = [port |-> i, domain |-> d]
          BY <2>2, <3>2, <5>1 DEF NoneOf, NoneIn
        <5> QED
          BY <5>2
      <4> QED
        BY <2>4, <2>5, <3>0, <3>2, <4>2 DEF NoneOf
    <3>3. CASE NoneIn(to_agent, Announcements(i)) /\ NoneOf(Held(i))
      <4>1. LeftBehind(i)' = LeftBehind(i)
        BY <2>2, <3>3 DEF NoneOf, NoneIn
      <4>2. \A e : ~OneIn(to_agent, Announcements(i), e) /\ ~OneOf(Held(i), e)
        BY <3>3 DEF NoneIn, OneIn, NoneOf, OneOf
      <4>3. PortSame(i)
        BY <1>f, <2>1, <4>1, <4>2 DEF PortSame
      <4> QED
        BY <2>0, <4>3, PortKept
    <3> QED
      BY <2>5, <3>0, <3>1, <3>2, <3>3 DEF PortInUse
  <2> QED
    BY <2>0, <2>3, <2>5 DEF PortOK
<1> QED
  BY <1>f, <1>c, <1>1 DEF PortInv

\* handle_agent_restart() drops what the agent reported before it went: the
\* port stays reserved.
LEMMA RestartPorts ==
  ASSUME TInv, PortInv, handle_agent_restart
  PROVE  PortInv'
<1>t. from_agent \in Seq(FromAgentMsg)
  BY DEF TInv, TypeOK, VchanTypes
<1>f. /\ UNCHANGED <<used_vchan_ports, to_agent, agent, vchan_open>>
      /\ pc # "exited" /\ ~vchan_open
      /\ from_agent' = <<>>
      /\ orphans' = orphans \cup
          {[port |-> from_agent[k].port, domain |-> from_agent[k].domain] :
              k \in {k \in DOMAIN from_agent : from_agent[k].type = "CONNECTION_TERMINATED"}}
  BY DEF handle_agent_restart
<1>1. ASSUME NEW i \in Index PROVE PortOK(i)'
  <2>0. PortOK(i)
    BY <1>f DEF PortInv
  <2>1. NoneIn(from_agent', Endings(i)) /\ Held(i)' = Held(i)
    BY <1>f, NoneInEmpty DEF Held
  <2>a. \A k \in DOMAIN from_agent : from_agent[k] \in FromAgentMsg
    BY <1>t, SMT
  <2>b. \A k \in DOMAIN from_agent :
           k \in Places(from_agent, Endings(i)) <=>
              from_agent[k].type = "CONNECTION_TERMINATED" /\ Own(from_agent[k], i)
    BY <2>a DEF Places, Endings
  <2>2. ASSUME NEW x
        PROVE  x \in LeftBehind(i)' <=>
                 \/ x \in LeftBehind(i)
                 \/ \E k \in Places(from_agent, Endings(i)) :
                       x = [port |-> i, domain |-> from_agent[k].domain]
    <3> DEFINE rec(c) == [port |-> c.port, domain |-> c.domain]
    <3>1. \A c : Own(rec(c), i) <=> Own(c, i)
      BY DEF Own
    <3>2. \A c : Own(c, i) => rec(c) = [port |-> i, domain |-> c.domain]
      BY DEF Own
    <3>3. x \in orphans' <=> \/ x \in orphans
                             \/ \E k \in DOMAIN from_agent :
                                   /\ from_agent[k].type = "CONNECTION_TERMINATED"
                                   /\ x = rec(from_agent[k])
      BY <1>f, SMT
    <3>4. x \in LeftBehind(i)' <=> x \in orphans' /\ Own(x, i)
      BY DEF LeftBehind
    <3>5. x \in LeftBehind(i) <=> x \in orphans /\ Own(x, i)
      BY DEF LeftBehind
    <3>6. Places(from_agent, Endings(i)) \subseteq DOMAIN from_agent
      BY DEF Places
    <3> HIDE DEF rec
    <3>7. (\E k \in DOMAIN from_agent : /\ from_agent[k].type = "CONNECTION_TERMINATED"
                                        /\ x = rec(from_agent[k]))
             /\ Own(x, i) <=>
             \E k \in Places(from_agent, Endings(i)) :
                x = [port |-> i, domain |-> from_agent[k].domain]
      BY <2>b, <3>1, <3>2, <3>6
    <3> QED
      BY <3>3, <3>4, <3>5, <3>7, ZenonT(30)
  <2>3. CASE NoneIn(from_agent, Endings(i))
    <3>1. LeftBehind(i)' = LeftBehind(i)
      BY <2>2, <2>3 DEF NoneIn
    <3> QED
      <4>1. \A e : ~OneIn(from_agent, Endings(i), e)
        BY <2>3 DEF NoneIn, OneIn
      <4>2. PortSame(i)
        BY <1>f, <2>1, <2>3, <3>1, <4>1 DEF PortSame
      <4> QED
        BY <2>0, <4>2, PortKept
  <2>4. CASE ~NoneIn(from_agent, Endings(i))
    <3>0. PICK d : d = used_vchan_ports[i]
      OBVIOUS
    <3>1. PortInUse(i)
      BY <2>0, <2>4 DEF PortOK, PortFree
    <3>2. /\ OneIn(from_agent, Endings(i), d)
          /\ NoneIn(to_agent, Announcements(i)) /\ NoneOf(Held(i)) /\ NoneOf(LeftBehind(i))
      BY <2>4, <3>0, <3>1 DEF PortInUse
    <3>3. PICK k \in DOMAIN from_agent : Places(from_agent, Endings(i)) = {k}
                                         /\ from_agent[k].domain = d
      BY <3>2 DEF OneIn
    <3>4. PICK x : x = [port |-> i, domain |-> d]
      OBVIOUS
    <3>5. LeftBehind(i)' = {x}
      <4>1. \A y : (\E j \in Places(from_agent, Endings(i)) :
                       y = [port |-> i, domain |-> from_agent[j].domain]) <=> y = x
        BY <3>3, <3>4
      <4>2. \A y : y \in LeftBehind(i)' <=> y = x
        BY <2>2, <3>2, <4>1 DEF NoneOf
      <4> QED
        BY <4>2
    <3>6. x.domain = d
      BY <3>4
    <3>7. OneOf(LeftBehind(i)', d)
      BY <3>5, <3>6 DEF OneOf
    <3>8. PortInUse(i)'
      BY <1>f, <2>1, <3>0, <3>1, <3>2, <3>7 DEF PortInUse
    <3> QED
      BY <3>8 DEF PortOK
  <2> QED
    BY <2>3, <2>4
<1> QED
  BY <1>f, <1>1 DEF PortInv

\* Every step keeps the ports accounted for.
LEMMA StepPorts == TInv /\ LocalInv /\ PortInv /\ [Next]_vars => PortInv'
<1> SUFFICES ASSUME TInv, LocalInv, PortInv, [Next]_vars PROVE PortInv'
  OBVIOUS
<1>g. agent \in AgentState
  BY DEF TInv, TypeOK, VchanTypes
<1>1. CASE \/ loop_top \/ reap_children_done \/ ppoll_ready \/ ppoll_eintr
           \/ handle_agent_restart_failed \/ handle_new_client \/ skip_phase
           \/ signal_handler_sigterm \/ Exited \/ UNCHANGED vars
  <2>1. UNCHANGED <<vchan_open, used_vchan_ports, orphans, to_agent, from_agent, agent>>
    BY <1>1 DEF loop_top, reap_children_done, ppoll_ready, ppoll_eintr, vchanVars, ghostVars,
       handle_agent_restart_failed, handle_new_client, skip_phase, signal_handler_sigterm, Exited,
       vars, daemonVars
  <2>2. pc' # "exited" => pc # "exited"
    BY <1>1 DEF loop_top, reap_children_done, ppoll_ready, ppoll_eintr, vars, daemonVars,
       handle_agent_restart_failed, handle_new_client, skip_phase, signal_handler_sigterm, Exited
  <2> QED
    BY <2>1, <2>2, QuietPorts
<1>2. ASSUME NEW p \in Pid, reap_children(p) PROVE PortInv'
  <2>1. pc # "exited" /\ UNCHANGED <<vchan_open, used_vchan_ports, orphans, from_agent, agent>>
    BY <1>2 DEF reap_children
  <2>2. CASE UNCHANGED to_agent
    BY <2>1, <2>2, QuietPorts
  <2>3. ASSUME NEW i \in Index, Deliver(Refused(policy_pending[i].ident), "reap")
        PROVE  PortInv'
    <3>1. PICK m : m = Refused(policy_pending[i].ident)
      OBVIOUS
    <3>2. m \in ToAgentMsg
      BY <3>1 DEF TInv, TypeOK, PendingTypes, policy_pending_t, ToAgentMsg
    <3>3. m.type = "SERVICE_REFUSED"
      BY <3>1 DEF Refused
    <3>4. \A j \in Index : m \notin Announcements(j)
      BY <3>3 DEF Announcements
    <3> QED
      BY <2>1, <2>3, <3>1, <3>2, <3>4, DeliverPorts
  <2> QED
    BY <1>2, <2>2, <2>3 DEF reap_children, Slot
<1>3. CASE handle_agent_restart
  BY <1>3, RestartPorts
<1>4. ASSUME NEW v \in AgentVersions, handle_agent_restart_reconnected(v) PROVE PortInv'
  <2>1. /\ UNCHANGED <<used_vchan_ports, orphans, to_agent, from_agent>>
        /\ pc # "exited" /\ vchan_open' = TRUE
    BY <1>4 DEF handle_agent_restart_reconnected, ghostVars
  <2>2. agent'.conns = agent.conns
    BY <1>4, <1>g DEF handle_agent_restart_reconnected, AgentState
  <2>3. ASSUME NEW i \in Index PROVE PortOK(i)'
    <3>1. Held(i)' = Held(i) /\ LeftBehind(i)' = LeftBehind(i)
      BY <2>1, <2>2 DEF Held, LeftBehind
    <3>2. PortOK(i)
      BY <2>1 DEF PortInv
    <3>3. PortSame(i)
      BY <2>1, <3>1, QueuesSame
    <3> QED
      BY <3>2, <3>3, PortKept
  <2> QED
    BY <2>1, <2>3 DEF PortInv
<1>5. CASE handle_message_from_agent
  BY <1>5, AgentMessagePorts
<1>6. ASSUME NEW fd \in Index, ClientHandler(fd) PROVE PortInv'
  <2>1. /\ UNCHANGED <<vchan_open, orphans, from_agent, agent>>
        /\ pc # "exited"
    BY <1>6 DEF ClientHandler, handle_message_from_client, handle_client_hello, vchanVars, ghostVars,
       handle_cmdline_message_from_client, Serving
  <2>2. CASE UNCHANGED <<pc, to_agent, used_vchan_ports>>
    BY <2>1, <2>2, QuietPorts
  <2>3. CASE /\ handle_cmdline_message_from_client(fd)
             /\ Message(fd).type \in {"EXEC", "SERVICE_CONNECT"}
             /\ ForwardToAgent(fd, Message(fd))
    <3>1. clients[fd] # "INVALID" /\ ~AtEOF(fd) /\ Message(fd).type # "HELLO"
      BY <2>3 DEF handle_cmdline_message_from_client
    <3>2. peer[fd] \in Conn /\ Message(fd) \in Asks(peer[fd])
      BY <3>1, RequestRead, ServedQueue
    <3> QED
      BY <2>1, <2>3, <3>2, ForwardPorts
  <2> QED
    BY <1>6, <2>2, <2>3 DEF ClientHandler, handle_message_from_client, handle_client_hello, vchanVars,
       handle_cmdline_message_from_client
<1>7. ASSUME NEW p \in Pid, Child(p) \/ child_killed(p) PROVE PortInv'
  <2>1. UNCHANGED <<daemonVars, vchanVars, agent, ghostVars>>
    BY <1>7, ChildFrame
  <2>2. UNCHANGED <<pc, vchan_open, used_vchan_ports, orphans, to_agent, from_agent, agent>>
    BY <2>1 DEF daemonVars, vchanVars, ghostVars
  <2> QED
    BY <2>2, QuietPorts
<1>8. ASSUME NEW u \in User, LocalUser(u) PROVE PortInv'
  <2>1. UNCHANGED <<pc, vchan_open, used_vchan_ports, orphans, to_agent, from_agent, agent>>
    BY <1>8 DEF LocalUser, user_connect, negotiate_connection_params, user_close, UserStep,
       daemonVars, vchanVars, ghostVars
  <2> QED
    BY <2>1, QuietPorts
<1>9. CASE Agent
  BY <1>9, AgentPorts, CrashPorts DEF Agent
<1> QED
  BY <1>1, <1>2, <1>3, <1>4, <1>5, <1>6, <1>7, <1>8, <1>9 DEF Next, Daemon, ClientHandler

\* The sets counted by PortAccounted, in terms of the queues.
LEMMA PortSets ==
  ASSUME TInv, NEW i \in Index
  PROVE  /\ Announced(i) = Places(to_agent, Announcements(i))
         /\ Reported(i) = Places(from_agent, Endings(i))
<1>1. /\ \A k \in DOMAIN to_agent : to_agent[k] \in ToAgentMsg
      /\ \A k \in DOMAIN from_agent : from_agent[k] \in FromAgentMsg
  BY SMT DEF TInv, TypeOK, VchanTypes
<1> QED
  BY <1>1 DEF Announced, Reported, Places, Announcements, Endings

-----------------------------------------------------------------------------
(* Request identifiers and whoever is dealing with the request *)

\* One element of S is in the queue.
OnlyIn(s, S) == \E k \in DOMAIN s : Places(s, S) = {k}

\* Where the request an identifier names can be: in the trigger message, with
\* a policy child that has yet to ask for a connection or whose message has
\* not been read, in a slot that waits for that message, in the answer on its
\* way to the agent, or in a connection of the agent.
Triggers(id) == {m \in FromAgentMsg : m.type = "TRIGGER_SERVICE" /\ m.ident = id}
Requests(id) == {m \in ClientMsg : m.type = "SERVICE_CONNECT" /\ m.ident = id}
Answering(id) == {m \in ToAgentMsg : m.ident = id}
Asking(id) == {p \in Pid : \/ child[p].stage \in {"policy", "connecting"} /\ child[p].ident = id
                           \/ ~NoneIn(sock[p].inq, Requests(id))}
Waiting(id) == {i \in Index : /\ policy_pending[i].pid # None
                              /\ policy_pending[i].response_sent = "PENDING"
                              /\ policy_pending[i].ident = id}
Connected(id) == {c \in agent.conns : c.ident = id}

\* It is at one of these places, and only then can the identifier be unused;
\* the child that asks is the one the waiting slot is for.
IdentIdle(id) ==
    /\ NoneIn(from_agent, Triggers(id)) /\ NoneIn(to_agent, Answering(id))
    /\ Waiting(id) = {} /\ Asking(id) = {} /\ Connected(id) = {}
IdentRequested(id) ==
    /\ id \in agent.busy
    /\ OnlyIn(from_agent, Triggers(id)) /\ NoneIn(to_agent, Answering(id))
    /\ Waiting(id) = {} /\ Asking(id) = {} /\ Connected(id) = {}
IdentHandled(id) ==
    /\ id \in agent.busy
    /\ NoneIn(from_agent, Triggers(id)) /\ NoneIn(to_agent, Answering(id))
    /\ Connected(id) = {}
    /\ \A i, j \in Waiting(id) : i = j
    /\ \A i \in Waiting(id), p \in Asking(id) : policy_pending[i].pid = p
IdentAnswered(id) ==
    /\ id \in agent.busy
    /\ NoneIn(from_agent, Triggers(id)) /\ OnlyIn(to_agent, Answering(id))
    /\ Waiting(id) = {} /\ Asking(id) = {} /\ Connected(id) = {}
IdentConnected(id) ==
    /\ id \in agent.busy
    /\ NoneIn(from_agent, Triggers(id)) /\ NoneIn(to_agent, Answering(id))
    /\ Waiting(id) = {} /\ Asking(id) = {}
    /\ \A c, e \in Connected(id) : c = e
IdentOK(id) == \/ IdentIdle(id) \/ IdentRequested(id) \/ IdentHandled(id)
               \/ IdentAnswered(id) \/ IdentConnected(id)

\* A restarted agent uses identifiers again that children of its predecessor
\* still hold, so this is about the time before the agent first crashes.
IdentInv == agent.crashes = 0 =>
    /\ vchan_open
    /\ AnsweredByOwnChild
    /\ \A id \in Ident : IdentOK(id)

\* A queue that other messages join or leave.
LEMMA QueueKept ==
  ASSUME NEW T, NEW s \in Seq(T), NEW S, NEW s2,
         \/ s2 = s
         \/ \E m \in T : s2 = Append(s, m) /\ m \notin S
         \/ s # <<>> /\ s2 = Tail(s) /\ Head(s) \notin S
  PROVE  (NoneIn(s, S) => NoneIn(s2, S)) /\ (OnlyIn(s, S) => OnlyIn(s2, S))
<1>1. \A q : OnlyIn(q, S) <=> \E d : OneIn(q, S, d)
  BY DEF OnlyIn, OneIn
<1>2. CASE s2 = s
  BY <1>2
<1>3. ASSUME NEW m \in T, s2 = Append(s, m), m \notin S
      PROVE  (NoneIn(s, S) => NoneIn(s2, S)) /\ (OnlyIn(s, S) => OnlyIn(s2, S))
  <2>1. NoneIn(s, S) => NoneIn(s2, S)
    BY <1>3, QueueAppend
  <2>2. \A d : OneIn(s, S, d) => OneIn(s2, S, d)
    BY <1>3, QueueAppend
  <2> QED
    BY <1>1, <2>1, <2>2
<1>4. CASE s # <<>> /\ s2 = Tail(s) /\ Head(s) \notin S
  BY <1>1, <1>4, QueueTail
<1> QED
  BY <1>2, <1>3, <1>4

\* A queue that one message of S joins, or leaves.
LEMMA QueueMoved ==
  ASSUME NEW T, NEW s \in Seq(T), NEW S, NEW s2
  PROVE  /\ \A m \in T : s2 = Append(s, m) /\ m \in S /\ NoneIn(s, S) => OnlyIn(s2, S)
         /\ s # <<>> /\ s2 = Tail(s) /\ Head(s) \in S /\ OnlyIn(s, S) => NoneIn(s2, S)
         /\ s # <<>> /\ NoneIn(s, S) => Head(s) \notin S
         /\ ~(NoneIn(s, S) /\ OnlyIn(s, S))
<1>1. \A q : OnlyIn(q, S) <=> \E d : OneIn(q, S, d)
  BY DEF OnlyIn, OneIn
<1>2. ASSUME NEW m \in T, s2 = Append(s, m), m \in S, NoneIn(s, S) PROVE OnlyIn(s2, S)
  BY <1>1, <1>2, QueueAppend
<1>3. s # <<>> /\ s2 = Tail(s) /\ Head(s) \in S /\ OnlyIn(s, S) => NoneIn(s2, S)
  BY <1>1, QueueTail
<1>4. s # <<>> /\ NoneIn(s, S) => Head(s) \notin S
  <2>1. PICK t : t = Tail(s)
    OBVIOUS
  <2> QED
    BY <2>1, QueueTail
<1>5. ~(NoneIn(s, S) /\ OnlyIn(s, S))
  BY DEF NoneIn, OnlyIn
<1> QED
  BY <1>2, <1>3, <1>4, <1>5

\* A step that does not move the request of identifier id.
IdentSame(id) ==
    /\ id \in agent.busy => id \in agent'.busy
    /\ NoneIn(from_agent, Triggers(id)) => NoneIn(from_agent', Triggers(id))
    /\ OnlyIn(from_agent, Triggers(id)) => OnlyIn(from_agent', Triggers(id))
    /\ NoneIn(to_agent, Answering(id)) => NoneIn(to_agent', Answering(id))
    /\ OnlyIn(to_agent, Answering(id)) => OnlyIn(to_agent', Answering(id))
    /\ Connected(id)' = Connected(id)
    /\ Waiting(id)' \subseteq Waiting(id)
    /\ \A i \in Waiting(id)' : policy_pending'[i].pid = policy_pending[i].pid
    /\ Asking(id)' \subseteq Asking(id)

\* Such a step leaves the identifier with what it had.
LEMMA IdentKept ==
  ASSUME NEW id \in Ident, IdentOK(id), IdentSame(id)
  PROVE  IdentOK(id)'
<1>1. CASE IdentIdle(id)
  <2>1. IdentIdle(id)'
    BY <1>1 DEF IdentIdle, IdentSame
  <2> QED
    BY <2>1 DEF IdentOK
<1>2. CASE IdentRequested(id)
  <2>1. IdentRequested(id)'
    BY <1>2 DEF IdentRequested, IdentSame
  <2> QED
    BY <2>1 DEF IdentOK
<1>3. CASE IdentHandled(id)
  <2>1. \A i \in Waiting(id)' : i \in Waiting(id) /\ policy_pending'[i].pid = policy_pending[i].pid
    BY DEF IdentSame
  <2>2. \A p \in Asking(id)' : p \in Asking(id)
    BY DEF IdentSame
  <2>3. IdentHandled(id)'
    BY <1>3, <2>1, <2>2 DEF IdentHandled, IdentSame
  <2> QED
    BY <2>3 DEF IdentOK
<1>4. CASE IdentAnswered(id)
  <2>1. IdentAnswered(id)'
    BY <1>4 DEF IdentAnswered, IdentSame
  <2> QED
    BY <2>1 DEF IdentOK
<1>5. CASE IdentConnected(id)
  <2>1. \A c \in Connected(id)' : c \in Connected(id)
    BY DEF IdentSame
  <2>2. IdentConnected(id)'
    BY <1>5, <2>1 DEF IdentConnected, IdentSame
  <2> QED
    BY <2>2 DEF IdentOK
<1> QED
  BY <1>1, <1>2, <1>3, <1>4, <1>5 DEF IdentOK

\* A child that goes on to another stage, or whose message is read or thrown
\* away, asks for nothing new.
LEMMA AskingShrinks ==
  ASSUME TInv, NEW id \in Ident,
         \A p \in Pid : \/ child'[p] = child[p]
                        \/ child'[p].stage \notin {"policy", "connecting"}
                        \/ child[p].stage = "policy" /\ child'[p].ident = child[p].ident,
         \A p \in Pid : \/ sock'[p].inq = sock[p].inq \/ sock'[p].inq = <<>>
                        \/ sock[p].inq # <<>> /\ sock'[p].inq = Tail(sock[p].inq)
  PROVE  Asking(id)' \subseteq Asking(id)
<1> SUFFICES ASSUME NEW p \in Pid, p \in Asking(id)' PROVE p \in Asking(id)
  BY DEF Asking
<1>1. sock[p].inq \in Seq(ClientMsg)
  BY DEF TInv, TypeOK, ClientTypes, Socket, Conn
<1>2. CASE child'[p].stage \in {"policy", "connecting"} /\ child'[p].ident = id
  BY <1>2 DEF Asking
<1>3. CASE ~NoneIn(sock'[p].inq, Requests(id))
  <2>1. sock'[p].inq # <<>>
    BY <1>3, NoneInEmpty
  <2>2. ~NoneIn(sock[p].inq, Requests(id))
    BY <1>1, <1>3, <2>1, QueueTail
  <2> QED
    BY <2>2 DEF Asking
<1>4. p \in Asking(id)' <=> \/ child'[p].stage \in {"policy", "connecting"} /\ child'[p].ident = id
                            \/ ~NoneIn(sock'[p].inq, Requests(id))
  BY DEF Asking
<1> QED
  BY <1>2, <1>3, <1>4

\* A step in which no message is exchanged with the agent.
LEMMA QuietIdent ==
  ASSUME TInv, IdentInv, UNCHANGED <<vchan_open, to_agent, from_agent, policy_pending, answerer>>,
         agent'.busy = agent.busy, agent'.conns = agent.conns, agent'.crashes = agent.crashes,
         \A id \in Ident : Asking(id)' \subseteq Asking(id)
  PROVE  IdentInv'
<1> SUFFICES ASSUME agent.crashes = 0 PROVE IdentInv'
  BY DEF IdentInv
<1>1. ASSUME NEW id \in Ident PROVE IdentOK(id)'
  <2>1. Waiting(id)' = Waiting(id) /\ Connected(id)' = Connected(id)
    BY DEF Waiting, Connected
  <2>2. IdentSame(id)
    BY <2>1 DEF IdentSame
  <2>3. IdentOK(id)
    BY DEF IdentInv
  <2> QED
    BY <2>2, <2>3, IdentKept
<1> QED
  BY <1>1 DEF IdentInv, AnsweredByOwnChild

\* agent_trigger(): an identifier that is not in use is at none of the places.
\* agent_receive() and agent_terminated(): the answer is taken off the queue,
\* and the identifier is free again once its connection has ended.
LEMMA AgentIdent ==
  ASSUME TInv, IdentInv, Agent
  PROVE  IdentInv'
<1>t. to_agent \in Seq(ToAgentMsg) /\ from_agent \in Seq(FromAgentMsg)
  BY DEF TInv, TypeOK, VchanTypes
<1>g. agent \in AgentState
  BY DEF TInv, TypeOK, VchanTypes
<1>f. UNCHANGED <<policy_pending, child, sock, answerer>>
  BY DEF Agent, agent_trigger, agent_receive, agent_terminated, agent_crash, AgentStep, daemonVars,
     localVars
<1>k. ASSUME NEW id \in Ident PROVE Waiting(id)' = Waiting(id) /\ Asking(id)' = Asking(id)
  BY <1>f DEF Waiting, Asking
<1>1. CASE agent_crash
  <2>1. agent'.crashes = agent.crashes + 1
    BY <1>1, <1>g DEF agent_crash, AgentState
  <2>2. agent'.crashes # 0
    BY <1>g, <2>1, SMT DEF AgentState
  <2> QED
    BY <2>2 DEF IdentInv
<1>2. ASSUME NEW id \in Ident, NEW ok \in TriggerValid, agent_trigger(id, ok)
      PROVE  IdentInv'
  <2> DEFINE m == [type |-> "TRIGGER_SERVICE", version |-> agent.version, ident |-> id, valid |-> ok]
  <2>1. m \in FromAgentMsg
    <3>1. ok \in BOOLEAN
      BY DaemonAssumption DEF DaemonAssumption
    <3> QED
      BY <1>g, <3>1 DEF FromAgentMsg, AgentState
  <2>2. m.type = "TRIGGER_SERVICE" /\ m.ident = id
    OBVIOUS
  <2>3. /\ from_agent' = Append(from_agent, m) /\ id \notin agent.busy
        /\ UNCHANGED <<vchan_open, to_agent>>
    BY <1>2 DEF agent_trigger
  <2> HIDE DEF m
  <2>4. agent'.conns = agent.conns /\ agent'.crashes = agent.crashes
        /\ agent'.busy = agent.busy \cup {id}
    BY <1>2, <1>g DEF agent_trigger, AgentState
  <2> SUFFICES ASSUME agent.crashes = 0 PROVE IdentInv'
    BY <2>4 DEF IdentInv
  <2>5. ASSUME NEW x \in Ident PROVE IdentOK(x)'
    <3>0. IdentOK(x) /\ Connected(x)' = Connected(x)
      BY <2>4 DEF IdentInv, Connected
    <3>1. CASE x # id
      <4>1. m \notin Triggers(x)
        BY <2>2, <3>1 DEF Triggers
      <4>2. /\ NoneIn(from_agent, Triggers(x)) => NoneIn(from_agent', Triggers(x))
            /\ OnlyIn(from_agent, Triggers(x)) => OnlyIn(from_agent', Triggers(x))
        BY <1>t, <2>1, <2>3, <4>1, QueueKept
      <4>3. IdentSame(x)
        BY <1>f, <1>k, <2>3, <2>4, <3>0, <4>2 DEF IdentSame
      <4> QED
        BY <3>0, <4>3, IdentKept
    <3>2. CASE x = id
      <4>1. IdentIdle(x)
        BY <2>3, <3>0, <3>2 DEF IdentOK, IdentRequested, IdentHandled, IdentAnswered, IdentConnected
      <4>2. m \in Triggers(x)
        BY <2>1, <2>2, <3>2 DEF Triggers
      <4>3. OnlyIn(from_agent', Triggers(x))
        BY <1>t, <2>1, <2>3, <4>1, <4>2, QueueMoved DEF IdentIdle
      <4>4. IdentRequested(x)'
        BY <1>k, <2>3, <2>4, <3>0, <3>2, <4>1, <4>3 DEF IdentRequested, IdentIdle
      <4> QED
        BY <4>4 DEF IdentOK
    <3> QED
      BY <3>1, <3>2
  <2> QED
    BY <1>f, <2>3, <2>5 DEF IdentInv, AnsweredByOwnChild
<1>3. CASE agent_receive
  <2>0. /\ to_agent # <<>> /\ to_agent' = Tail(to_agent)
        /\ UNCHANGED <<vchan_open, from_agent>>
    BY <1>3 DEF agent_receive
  <2>1. Head(to_agent) \in ToAgentMsg
    BY <1>t, <2>0, HeadTail
  <2>m. PICK m \in ToAgentMsg : m = Head(to_agent)
    BY <2>1
  <2>c. PICK c : c = [ident |-> m.ident, port |-> m.port, domain |-> m.domain]
    OBVIOUS
  <2>2. c.ident = m.ident
    BY <2>c
  <2>3. \/ /\ m.type = "SERVICE_REFUSED"
           /\ agent' = [agent EXCEPT !.busy = @ \ {m.ident}]
        \/ /\ m.type # "SERVICE_REFUSED"
           /\ agent' = [agent EXCEPT !.conns = @ \cup {c}]
    BY <1>3, <2>m, <2>c DEF agent_receive
  <2>4. /\ agent'.crashes = agent.crashes
        /\ \/ agent'.busy = agent.busy \ {m.ident} /\ agent'.conns = agent.conns
           \/ agent'.busy = agent.busy /\ agent'.conns = agent.conns \cup {c}
    BY <1>g, <2>3 DEF AgentState
  <2> SUFFICES ASSUME agent.crashes = 0 PROVE IdentInv'
    BY <2>4 DEF IdentInv
  <2>5. ASSUME NEW x \in Ident PROVE IdentOK(x)'
    <3>0. IdentOK(x)
      BY DEF IdentInv
    <3>1. CASE x # m.ident
      <4>1. Head(to_agent) \notin Answering(x)
        BY <2>m, <3>1 DEF Answering
      <4>2. /\ NoneIn(to_agent, Answering(x)) => NoneIn(to_agent', Answering(x))
            /\ OnlyIn(to_agent, Answering(x)) => OnlyIn(to_agent', Answering(x))
        BY <1>t, <2>0, <4>1, QueueKept
      <4>3. Connected(x)' = Connected(x)
        BY <2>2, <2>4, <3>1 DEF Connected
      <4>4. x \in agent.busy => x \in agent'.busy
        BY <2>4, <3>1
      <4>5. IdentSame(x)
        BY <1>f, <1>k, <2>0, <4>2, <4>3, <4>4 DEF IdentSame
      <4> QED
        BY <3>0, <4>5, IdentKept
    <3>2. CASE x = m.ident
      <4>1. Head(to_agent) \in Answering(x)
        BY <2>m, <3>2 DEF Answering
      <4>2. IdentAnswered(x)
        BY <1>t, <2>0, <3>0, <4>1, QueueMoved
           DEF IdentOK, IdentIdle, IdentRequested, IdentHandled, IdentConnected
      <4>3. NoneIn(to_agent', Answering(x))
        BY <1>t, <2>0, <4>1, <4>2, QueueMoved DEF IdentAnswered
      <4>4. CASE agent'.conns = agent.conns
        <5>1. Connected(x)' = Connected(x)
          BY <4>4 DEF Connected
        <5>2. IdentIdle(x)'
          BY <1>k, <2>0, <4>2, <4>3, <5>1 DEF IdentIdle, IdentAnswered
        <5> QED
          BY <5>2 DEF IdentOK
      <4>5. CASE agent'.busy = agent.busy /\ agent'.conns = agent.conns \cup {c}
        <5>1. \A e \in Connected(x)' : e = c
          BY <4>2, <4>5 DEF Connected, IdentAnswered
        <5>2. IdentConnected(x)'
          BY <1>k, <2>0, <4>2, <4>3, <4>5, <5>1 DEF IdentConnected, IdentAnswered
        <5> QED
          BY <5>2 DEF IdentOK
      <4> QED
        BY <2>4, <4>4, <4>5
    <3> QED
      BY <3>1, <3>2
  <2> QED
    BY <1>f, <2>0, <2>5 DEF IdentInv, AnsweredByOwnChild
<1>4. ASSUME NEW c \in agent.conns, agent_terminated(c)
      PROVE  IdentInv'
  <2> DEFINE m0 == [type |-> "CONNECTION_TERMINATED", port |-> c.port, domain |-> c.domain]
  <2>1. m0 \in FromAgentMsg
    BY <1>g DEF FromAgentMsg, Connection, AgentState
  <2>2. m0.type = "CONNECTION_TERMINATED"
    OBVIOUS
  <2>3. from_agent' = Append(from_agent, m0) /\ UNCHANGED <<vchan_open, to_agent>>
    BY <1>4 DEF agent_terminated
  <2> HIDE DEF m0
  <2>4. /\ agent'.conns = agent.conns \ {c} /\ agent'.crashes = agent.crashes
        /\ agent'.busy = agent.busy \ {c.ident}
    BY <1>4, <1>g DEF agent_terminated, AgentState
  <2> SUFFICES ASSUME agent.crashes = 0 PROVE IdentInv'
    BY <2>4 DEF IdentInv
  <2>5. ASSUME NEW x \in Ident PROVE IdentOK(x)'
    <3>0. IdentOK(x)
      BY DEF IdentInv
    <3>1. m0 \notin Triggers(x)
      BY <2>2 DEF Triggers
    <3>2. /\ NoneIn(from_agent, Triggers(x)) => NoneIn(from_agent', Triggers(x))
          /\ OnlyIn(from_agent, Triggers(x)) => OnlyIn(from_agent', Triggers(x))
      BY <1>t, <2>1, <2>3, <3>1, QueueKept
    <3>3. CASE x # c.ident
      <4>1. Connected(x)' = Connected(x)
        BY <2>4, <3>3 DEF Connected
      <4>2. x \in agent.busy => x \in agent'.busy
        BY <2>4, <3>3
      <4>3. IdentSame(x)
        BY <1>f, <1>k, <2>3, <3>2, <4>1, <4>2 DEF IdentSame
      <4> QED
        BY <3>0, <4>3, IdentKept
    <3>4. CASE x = c.ident
      <4>1. c \in Connected(x)
        BY <3>4 DEF Connected
      <4>2. IdentConnected(x)
        BY <3>0, <4>1 DEF IdentOK, IdentIdle, IdentRequested, IdentHandled, IdentAnswered
      <4>3. Connected(x)' = {}
        BY <2>4, <4>1, <4>2 DEF Connected, IdentConnected
      <4>4. IdentIdle(x)'
        BY <1>k, <2>3, <3>2, <4>2, <4>3 DEF IdentIdle, IdentConnected
      <4> QED
        BY <4>4 DEF IdentOK
    <3> QED
      BY <3>3, <3>4
  <2> QED
    BY <1>f, <2>3, <2>5 DEF IdentInv, AnsweredByOwnChild
<1> QED
  BY <1>1, <1>2, <1>3, <1>4 DEF Agent

\* A policy child carries its request's identifier from stage to stage, and
\* from its own memory to the message it sends.
LEMMA ChildAsks ==
  ASSUME TInv, LocalInv, NEW p \in Pid, Child(p) \/ child_killed(p), NEW id \in Ident
  PROVE  Asking(id)' \subseteq Asking(id)
<1>t. /\ child \in [Pid -> ChildProcess] /\ sock \in [Conn -> Socket]
      /\ p \in Conn /\ Pid \subseteq Conn
  BY DEF TInv, TypeOK, PendingTypes, ClientTypes, Conn
<1>s. sock[p] \in Socket /\ child[p] \in ChildProcess
  BY <1>t
<1>1. CASE \/ child_refused(p) \/ child_disconnected(p) \/ child_exit(p) \/ child_killed(p)
  <2>1. PICK status \in ExitStatus : ChildExits(p, status)
    BY <1>1 DEF child_refused, child_disconnected, child_exit, child_killed, ExitStatus
  <2>2. child' = [child EXCEPT ![p] = [Unborn EXCEPT !.stage = "zombie", !.status = status]]
    BY <2>1 DEF ChildExits
  <2>3. child'[p].stage = "zombie" /\ \A q \in Pid \ {p} : child'[q] = child[q]
    BY <1>t, <2>2, SMT DEF Unborn
  <2>4. \A q \in Pid : sock'[q].inq = sock[q].inq
    <3>1. sock' = sock \/ sock' = [sock EXCEPT ![p].eof = TRUE]
      BY <1>1 DEF child_refused, child_disconnected, child_exit, child_killed
    <3>2. CASE sock' = [sock EXCEPT ![p].eof = TRUE]
      BY <1>t, <1>s, <3>2, SMT DEF Socket
    <3> QED
      BY <3>1, <3>2
  <2> QED
    BY <2>3, <2>4, AskingShrinks
<1>2. ASSUME NEW d, NEW q, child_connect(p, d, q) PROVE Asking(id)' \subseteq Asking(id)
  <2>1. /\ child[p].stage = "policy" /\ child'[p].ident = child[p].ident
        /\ \A r \in Pid \ {p} : child'[r] = child[r]
    BY <1>t, <1>s, <1>2, SMT DEF child_connect, ChildProcess
  <2>2. \A r \in Pid : sock'[r].inq = sock[r].inq
    BY <1>t, <1>s, <1>2, SMT DEF child_connect, Socket
  <2> QED
    BY <2>1, <2>2, AskingShrinks
<1>3. CASE send_service_connect(p)
  <2> DEFINE m == [type |-> "SERVICE_CONNECT", ident |-> child[p].ident,
                   port |-> child[p].port, domain |-> child[p].dest]
  <2>1. /\ child[p].stage = "connecting" /\ child'[p].stage = "sent"
        /\ \A r \in Pid \ {p} : child'[r] = child[r]
    BY <1>t, <1>s, <1>3, SMT DEF send_service_connect, ChildProcess
  <2>2. /\ sock'[p].inq = <<Hello, m>>
        /\ \A r \in Pid \ {p} : sock'[r] = sock[r]
    BY <1>t, <1>s, <1>3, SMT DEF send_service_connect, Socket
  <2>3. m.ident = child[p].ident /\ Hello.type = "HELLO"
    BY DEF Hello
  <2> HIDE DEF m
  <2>4. Hello \notin Requests(id) /\ (m \in Requests(id) => child[p].ident = id)
    BY <2>3 DEF Requests
  <2>5. m \notin Requests(id) => NoneIn(<<Hello, m>>, Requests(id))
    BY <2>4, SMT DEF NoneIn, Places
  <2>6. ASSUME NEW r \in Pid, r \in Asking(id)' PROVE r \in Asking(id)
    <3>1. CASE r = p
      <4>1. ~NoneIn(sock'[p].inq, Requests(id))
        BY <2>1, <2>6, <3>1 DEF Asking
      <4>2. child[p].ident = id
        BY <2>2, <2>4, <2>5, <4>1
      <4> QED
        BY <2>1, <3>1, <4>2 DEF Asking
    <3>2. CASE r # p
      BY <2>1, <2>2, <2>6, <3>2 DEF Asking
    <3> QED
      BY <3>1, <3>2
  <2> QED
    BY <2>6 DEF Asking
<1> QED
  BY <1>1, <1>2, <1>3 DEF Child

\* Closing a connection throws away what was sent on it.
LEMMA TerminateAsks ==
  ASSUME TInv, NEW fd \in Index, terminate_client(fd), NEW p \in Pid
  PROVE  sock'[p].inq = sock[p].inq \/ sock'[p].inq = <<>>
<1>1. sock \in [Conn -> Socket] /\ p \in Conn
  BY DEF TInv, TypeOK, ClientTypes, Conn
<1>2. sock[p] \in Socket
  BY <1>1
<1> QED
  BY <1>1, <1>2, SMT DEF terminate_client, Closed, Socket

\* Steps of the daemon that serve no request, and steps of other clients.
LEMMA OtherIdent ==
  ASSUME TInv, LocalInv, IdentInv,
         \/ loop_top \/ reap_children_done \/ ppoll_ready \/ ppoll_eintr
         \/ \E v \in AgentVersions : handle_agent_restart_reconnected(v)
         \/ handle_agent_restart_failed \/ handle_new_client \/ skip_phase
         \/ signal_handler_sigterm
         \/ \E p \in Pid : Child(p) \/ child_killed(p)
         \/ \E u \in User : LocalUser(u)
         \/ UNCHANGED vars
  PROVE  IdentInv'
<1>t. sock \in [Conn -> Socket] /\ Pid \subseteq Conn /\ User \subseteq Conn
  BY DEF TInv, TypeOK, ClientTypes, Conn
<1>g. agent \in AgentState
  BY DEF TInv, TypeOK, VchanTypes
<1>1. CASE \/ loop_top \/ reap_children_done \/ ppoll_ready \/ ppoll_eintr
           \/ handle_agent_restart_failed \/ skip_phase \/ signal_handler_sigterm
           \/ UNCHANGED vars
  <2>1. UNCHANGED <<vchan_open, to_agent, from_agent, policy_pending, answerer, agent, child, sock>>
    BY <1>1 DEF loop_top, reap_children_done, ppoll_ready, ppoll_eintr, vchanVars, ghostVars, localVars,
       handle_agent_restart_failed, skip_phase, signal_handler_sigterm, vars, daemonVars
  <2>2. \A id \in Ident : Asking(id)' \subseteq Asking(id)
    BY <2>1 DEF Asking
  <2> QED
    BY <2>1, <2>2, QuietIdent
<1>2. ASSUME NEW v \in AgentVersions, handle_agent_restart_reconnected(v) PROVE IdentInv'
  <2>1. UNCHANGED <<to_agent, from_agent, policy_pending, answerer, child, sock>> /\ vchan_open' = TRUE
    BY <1>2 DEF handle_agent_restart_reconnected, localVars, ghostVars
  <2>2. agent'.busy = agent.busy /\ agent'.conns = agent.conns /\ agent'.crashes = agent.crashes
    BY <1>2, <1>g DEF handle_agent_restart_reconnected, AgentState
  <2>3. \A id \in Ident : Asking(id)' \subseteq Asking(id)
    BY <2>1 DEF Asking
  <2>4. CASE vchan_open
    BY <2>1, <2>2, <2>3, <2>4, QuietIdent DEF TInv, TypeOK, VchanTypes
  <2>5. CASE ~vchan_open
    BY <2>2, <2>5 DEF IdentInv
  <2> QED
    BY <2>4, <2>5
<1>3. CASE handle_new_client
  <2>1. UNCHANGED <<vchan_open, to_agent, from_agent, policy_pending, answerer, agent, child>>
    BY <1>3 DEF handle_new_client, vchanVars, ghostVars
  <2>c. PICK c : c = Head(backlog)
    OBVIOUS
  <2>2. \/ sock' = sock
        \/ sock' = [sock EXCEPT ![c] = Closed(@)]
        \/ sock' = [sock EXCEPT ![c].st = "open"]
    BY <1>3, <2>c DEF handle_new_client
  <2>3. ASSUME NEW p \in Pid PROVE sock'[p].inq = sock[p].inq \/ sock'[p].inq = <<>>
    <3>1. p \in Conn /\ sock[p] \in Socket
      BY <1>t
    <3>2. CASE sock' = [sock EXCEPT ![c] = Closed(@)]
      BY <1>t, <3>1, <3>2, SMT DEF Closed, Socket
    <3>3. CASE sock' = [sock EXCEPT ![c].st = "open"]
      BY <1>t, <3>1, <3>3, SMT DEF Socket
    <3> QED
      BY <2>2, <3>2, <3>3
  <2>4. \A id \in Ident : Asking(id)' \subseteq Asking(id)
    BY <2>1, <2>3, AskingShrinks
  <2> QED
    BY <2>1, <2>4, QuietIdent
<1>4. ASSUME NEW p \in Pid, Child(p) \/ child_killed(p) PROVE IdentInv'
  <2>1. UNCHANGED <<daemonVars, vchanVars, agent, ghostVars>>
    BY <1>4, ChildFrame
  <2>2. UNCHANGED <<vchan_open, to_agent, from_agent, policy_pending, answerer, agent>>
    BY <2>1 DEF daemonVars, vchanVars, ghostVars
  <2>3. \A id \in Ident : Asking(id)' \subseteq Asking(id)
    BY <1>4, ChildAsks
  <2> QED
    BY <2>2, <2>3, QuietIdent
<1>5. ASSUME NEW u \in User, LocalUser(u) PROVE IdentInv'
  <2>1. UNCHANGED <<vchan_open, to_agent, from_agent, policy_pending, answerer, agent, child>>
    BY <1>5 DEF LocalUser, user_connect, negotiate_connection_params, user_close, UserStep,
       daemonVars, vchanVars, ghostVars
  <2>2. \A p \in Pid : p # u
    BY DaemonAssumption DEF DaemonAssumption
  <2>3. \A p \in Pid : sock'[p] = sock[p]
    BY <1>t, <1>5, <2>2, SMT DEF LocalUser, user_connect, negotiate_connection_params, user_close
  <2>4. \A id \in Ident : Asking(id)' \subseteq Asking(id)
    BY <2>1, <2>3, AskingShrinks
  <2> QED
    BY <2>1, <2>4, QuietIdent
<1> QED
  BY <1>1, <1>2, <1>3, <1>4, <1>5

\* reap_children(): the child that failed asks no more, so the refusal is the
\* only answer its request gets.
LEMMA ReapIdent ==
  ASSUME TInv, LocalInv, IdentInv, NEW p \in Pid, reap_children(p)
  PROVE  IdentInv'
<1>t. /\ child \in [Pid -> ChildProcess] /\ policy_pending \in [Index -> policy_pending_t]
      /\ to_agent \in Seq(ToAgentMsg)
  BY DEF TInv, TypeOK, PendingTypes, VchanTypes
<1>f. UNCHANGED <<vchan_open, from_agent, agent, sock, answerer>>
  BY DEF reap_children
<1>1. /\ child[p].stage = "zombie" /\ child'[p].stage = "reaped"
      /\ \A q \in Pid \ {p} : child'[q] = child[q]
  BY <1>t, SMT DEF reap_children, Zombies, ChildProcess
<1>2. ASSUME NEW id \in Ident PROVE Asking(id)' \subseteq Asking(id) /\ Connected(id)' = Connected(id)
  BY <1>f, <1>1, AskingShrinks DEF Connected
<1> SUFFICES ASSUME agent.crashes = 0 PROVE IdentInv'
  BY <1>f DEF IdentInv
<1>3. CASE UNCHANGED <<policy_pending, to_agent>>
  BY <1>f, <1>2, <1>3, QuietIdent
<1>4. ASSUME NEW i \in Slot(p), FreePending(i),
             \/ UNCHANGED to_agent
             \/ NeedsRefusal(p, i) /\ Deliver(Refused(policy_pending[i].ident), "reap")
      PROVE  IdentInv'
  <2>1. /\ i \in Index /\ policy_pending[i].pid = p /\ p # None
        /\ policy_pending[i].ident \in Ident \cup {None}
    BY <1>t, DaemonAssumption DEF Slot, DaemonAssumption, policy_pending_t
  <2>2. policy_pending'[i] = FreeSlot /\ \A j \in Index \ {i} : policy_pending'[j] = policy_pending[j]
    BY <1>t, <1>4, <2>1 DEF FreePending
  <2>3. FreeSlot.pid = None
    BY DEF FreeSlot
  <2>4. ASSUME NEW x \in Ident
        PROVE  /\ \A j \in Waiting(x)' : j # i /\ j \in Waiting(x)
               /\ \A j \in Waiting(x)' : policy_pending'[j].pid = policy_pending[j].pid
    BY <2>2, <2>3 DEF Waiting
  <2>5. PICK id : id = policy_pending[i].ident
    OBVIOUS
  <2>6. CASE UNCHANGED to_agent
    <3>1. ASSUME NEW x \in Ident PROVE IdentOK(x)'
      <4>1. IdentSame(x)
        BY <1>f, <1>2, <2>4, <2>6 DEF IdentSame
      <4> QED
        BY <4>1, IdentKept DEF IdentInv
    <3> QED
      BY <1>f, <3>1 DEF IdentInv, AnsweredByOwnChild
  <2>7. CASE NeedsRefusal(p, i) /\ Deliver(Refused(id), "reap")
    <3>1. to_agent' = Append(to_agent, Refused(id))
      BY <2>7 DEF Deliver, IdentInv
    <3>2. Refused(id) \in ToAgentMsg /\ Refused(id).ident = id
      BY <2>1, <2>5 DEF ToAgentMsg, Refused
    <3>3. sock[p].inq = <<>> /\ policy_pending[i].response_sent = "PENDING"
      BY <1>1, <2>7 DEF NeedsRefusal, LocalInv, ChildOK
    <3>4. ASSUME NEW x \in Ident, x # id PROVE IdentOK(x)'
      <4>1. Refused(id) \notin Answering(x)
        BY <3>2, <3>4 DEF Answering
      <4>2. /\ NoneIn(to_agent, Answering(x)) => NoneIn(to_agent', Answering(x))
            /\ OnlyIn(to_agent, Answering(x)) => OnlyIn(to_agent', Answering(x))
        BY <1>t, <3>1, <3>2, <4>1, QueueKept
      <4>3. IdentSame(x)
        BY <1>f, <1>2, <2>4, <4>2 DEF IdentSame
      <4> QED
        BY <4>3, IdentKept DEF IdentInv
    <3>5. ASSUME id \in Ident PROVE IdentOK(id)'
      <4>1. i \in Waiting(id)
        BY <2>1, <2>5, <3>3 DEF Waiting
      <4>2. IdentHandled(id)
        BY <3>5, <4>1
           DEF IdentInv, IdentOK, IdentIdle, IdentRequested, IdentAnswered, IdentConnected
      <4>3. Waiting(id)' = {}
        BY <2>4, <3>5, <4>1, <4>2 DEF IdentHandled
      <4>4. p \notin Asking(id)
        BY <1>1, <3>3, NoneInEmpty DEF Asking
      <4>5. Asking(id)' = {}
        BY <1>2, <2>1, <3>5, <4>1, <4>2, <4>4 DEF IdentHandled
      <4>6. OnlyIn(to_agent', Answering(id))
        <5>1. Refused(id) \in Answering(id)
          BY <3>2 DEF Answering
        <5> QED
          BY <1>t, <3>1, <3>2, <4>2, <5>1, QueueMoved, ZenonT(30) DEF IdentHandled
      <4>7. IdentAnswered(id)'
        BY <1>f, <1>2, <3>5, <4>2, <4>3, <4>5, <4>6 DEF IdentAnswered, IdentHandled
      <4> QED
        BY <4>7 DEF IdentOK
    <3> QED
      BY <1>f, <3>4, <3>5 DEF IdentInv, AnsweredByOwnChild
  <2> QED
    BY <1>4, <2>5, <2>6, <2>7
<1> QED
  BY <1>3, <1>4 DEF reap_children

\* The second half of handle_cmdline_body_from_client(), as far as the
\* client's queue and the one to the agent go.
LEMMA ForwardQueues ==
  ASSUME TInv, LocalInv, vchan_open, NEW fd \in Index, clients[fd] # "INVALID", ~AtEOF(fd),
         NEW m, m = Message(fd), m.type # "HELLO", ForwardToAgent(fd, m)
  PROVE  /\ \A p \in Pid : sock'[p].inq = sock[p].inq \/ sock'[p].inq = <<>>
         /\ sock'[peer[fd]].inq = <<>>
         /\ \/ UNCHANGED to_agent
            \/ \E f \in ToAgentMsg : f.ident = m.ident /\ to_agent' = Append(to_agent, f)
<1>0. PICK c \in Conn : c = peer[fd]
  BY ServedQueue
<1>1. sock \in [Conn -> Socket] /\ Pid \subseteq Conn
  BY DEF TInv, TypeOK, ClientTypes, Conn
<1>2. sock[c] \in Socket /\ Tail(sock[c].inq) = <<>>
  BY <1>0, <1>1, RequestRead
<1>3. \/ sock' = [sock EXCEPT ![c] = Closed(@)]
      \/ sock' = [sock EXCEPT ![c].inq = Tail(@), ![c].replied = TRUE]
      \/ sock' = [sock EXCEPT ![c].inq = Tail(@)]
  BY <1>0 DEF ForwardToAgent, terminate_client
<1>4. sock'[c].inq = <<>> /\ \A d \in Conn \ {c} : sock'[d] = sock[d]
  <2>1. CASE sock' = [sock EXCEPT ![c] = Closed(@)]
    BY <1>1, <1>2, <2>1, SMTT(30) DEF Closed, Socket
  <2>2. CASE sock' = [sock EXCEPT ![c].inq = Tail(@), ![c].replied = TRUE]
    BY <1>1, <1>2, <2>2, SMT DEF Socket
  <2>3. CASE sock' = [sock EXCEPT ![c].inq = Tail(@)]
    BY <1>1, <1>2, <2>3, SMT DEF Socket
  <2> QED
    BY <1>3, <2>1, <2>2, <2>3
<1>5. \A p \in Pid : sock'[p].inq = sock[p].inq \/ sock'[p].inq = <<>>
  BY <1>1, <1>4
<1> DEFINE fwd(port) == [type |-> m.type, ident |-> m.ident, port |-> port, domain |-> m.domain]
<1>6. m \in ClientMsg /\ m.type \in {"EXEC", "SERVICE_CONNECT"}
  BY RequestRead DEF Asks
<1>7. ASSUME NEW q \in Index PROVE fwd(q) \in ToAgentMsg /\ fwd(q).ident = m.ident
  <2>1. m.domain \in Domain /\ m.ident \in Ident \cup {None}
    BY <1>6, RequestFields
  <2> QED
    BY <1>6, <2>1 DEF ToAgentMsg
<1>8. m.port # ANY_PORT => m.port \in Index
  BY <1>6, RequestFields
<1>9. UNCHANGED to_agent \/ \E q \in Index : Deliver(fwd(q), "clients")
  BY <1>8 DEF ForwardToAgent
<1> HIDE DEF fwd
<1>10. \/ UNCHANGED to_agent
       \/ \E f \in ToAgentMsg : f.ident = m.ident /\ to_agent' = Append(to_agent, f)
  BY <1>7, <1>9 DEF Deliver
<1> QED
  BY <1>0, <1>4, <1>5, <1>10

\* handle_message_from_client() and handle_client_hello(): nothing new is asked.
LEMMA ServeIdent ==
  ASSUME TInv, LocalInv, IdentInv, NEW fd \in Index,
         handle_message_from_client(fd) \/ handle_client_hello(fd)
  PROVE  IdentInv'
<1>1. UNCHANGED <<vchan_open, to_agent, from_agent, policy_pending, answerer, agent, child>>
  BY DEF handle_message_from_client, handle_client_hello, vchanVars, ghostVars
<1>2. ASSUME NEW p \in Pid
      PROVE  \/ sock'[p].inq = sock[p].inq \/ sock'[p].inq = <<>>
             \/ sock[p].inq # <<>> /\ sock'[p].inq = Tail(sock[p].inq)
  <2>1. CASE handle_message_from_client(fd)
    BY <2>1, TerminateAsks DEF handle_message_from_client
  <2>2. CASE handle_client_hello(fd)
    <3>1. clients[fd] # "INVALID" /\ ~AtEOF(fd)
      BY <2>2 DEF handle_client_hello
    <3>2. PICK c \in Conn : c = peer[fd] /\ sock[c].inq # <<>>
      BY <3>1, ServedQueue
    <3>3. sock' = [sock EXCEPT ![c].inq = Tail(@)]
      BY <2>2, <3>2 DEF handle_client_hello
    <3>4. sock \in [Conn -> Socket] /\ p \in Conn
      BY DEF TInv, TypeOK, ClientTypes, Conn
    <3>5. sock[c] \in Socket
      BY <3>4
    <3> QED
      BY <3>2, <3>3, <3>4, <3>5, SMT DEF Socket
  <2> QED
    BY <2>1, <2>2
<1>3. \A id \in Ident : Asking(id)' \subseteq Asking(id)
  BY <1>1, <1>2, AskingShrinks
<1> QED
  BY <1>1, <1>3, QuietIdent

\* handle_cmdline_body_from_client(): the slot found by its identifier is the
\* one of the child that sent the message, and the answer is the only one.
LEMMA ConnectIdent ==
  ASSUME TInv, LocalInv, IdentInv, NEW fd \in Index, handle_cmdline_message_from_client(fd)
  PROVE  IdentInv'
<1>t. /\ policy_pending \in [Index -> policy_pending_t] /\ to_agent \in Seq(ToAgentMsg)
      /\ answerer \in [Pid -> Conn \cup {None}]
  BY DEF TInv, TypeOK, PendingTypes, VchanTypes
<1>f. /\ UNCHANGED <<vchan_open, from_agent, agent, child>>
      /\ clients[fd] # "INVALID" /\ ~AtEOF(fd)
  BY DEF handle_cmdline_message_from_client
<1> SUFFICES ASSUME agent.crashes = 0 PROVE IdentInv'
  BY <1>f DEF IdentInv
<1>i. vchan_open /\ \A x \in Ident : IdentOK(x)
  BY DEF IdentInv
<1>m. PICK m : m = Message(fd)
  OBVIOUS
<1>k. ASSUME NEW x \in Ident PROVE Connected(x)' = Connected(x)
  BY <1>f DEF Connected
<1>1. CASE terminate_client(fd) /\ UNCHANGED <<to_agent, policy_pending, answerer>>
  <2>1. \A x \in Ident : Asking(x)' \subseteq Asking(x)
    BY <1>f, <1>1, TerminateAsks, AskingShrinks
  <2> QED
    BY <1>f, <1>1, <2>1, QuietIdent
<1>2. ASSUME m.type \in {"EXEC", "SERVICE_CONNECT"}, ForwardToAgent(fd, m)
      PROVE  /\ m.type # "HELLO"
             /\ m \in Asks(peer[fd]) /\ peer[fd] \in Conn /\ sock[peer[fd]].inq = <<m>>
             /\ sock'[peer[fd]].inq = <<>>
             /\ \A x \in Ident : Asking(x)' \subseteq Asking(x)
             /\ \/ UNCHANGED to_agent
                \/ \E f \in ToAgentMsg : f.ident = m.ident /\ to_agent' = Append(to_agent, f)
  <2>1. m.type # "HELLO"
    BY <1>2
  <2>2. m \in Asks(peer[fd]) /\ peer[fd] \in Conn /\ sock[peer[fd]].inq = <<m>>
    BY <1>f, <1>m, <2>1, RequestRead, ServedQueue
  <2>3. /\ \A p \in Pid : sock'[p].inq = sock[p].inq \/ sock'[p].inq = <<>>
        /\ sock'[peer[fd]].inq = <<>>
        /\ \/ UNCHANGED to_agent
           \/ \E f \in ToAgentMsg : f.ident = m.ident /\ to_agent' = Append(to_agent, f)
    BY <1>f, <1>i, <1>m, <1>2, <2>1, ForwardQueues
  <2>4. \A x \in Ident : Asking(x)' \subseteq Asking(x)
    BY <1>f, <2>3, AskingShrinks
  <2> QED
    BY <2>1, <2>2, <2>3, <2>4
<1>3. ASSUME NEW x \in Ident, x # m.ident,
             \/ UNCHANGED to_agent
             \/ \E f \in ToAgentMsg : f.ident = m.ident /\ to_agent' = Append(to_agent, f)
      PROVE  /\ NoneIn(to_agent, Answering(x)) => NoneIn(to_agent', Answering(x))
             /\ OnlyIn(to_agent, Answering(x)) => OnlyIn(to_agent', Answering(x))
  <2>1. \A f : f.ident = m.ident => f \notin Answering(x)
    BY <1>3 DEF Answering
  <2> QED
    BY <1>t, <1>3, <2>1, QueueKept
<1>4. CASE /\ m.type = "EXEC" /\ ForwardToAgent(fd, m)
           /\ UNCHANGED <<policy_pending, answerer>>
  <2>1. m.ident \notin Ident
    BY <1>2, <1>4, DaemonAssumption DEF Asks, DaemonAssumption
  <2>2. ASSUME NEW x \in Ident PROVE IdentOK(x)'
    <3>1. Waiting(x)' = Waiting(x)
      BY <1>4 DEF Waiting
    <3>2. x # m.ident
      BY <2>1
    <3>3. /\ NoneIn(to_agent, Answering(x)) => NoneIn(to_agent', Answering(x))
          /\ OnlyIn(to_agent, Answering(x)) => OnlyIn(to_agent', Answering(x))
      BY <1>2, <1>3, <1>4, <3>2
    <3>4. IdentSame(x)
      BY <1>f, <1>k, <1>2, <1>4, <3>1, <3>3 DEF IdentSame
    <3> QED
      BY <1>i, <3>4, IdentKept
  <2> QED
    BY <1>f, <1>4, <2>2 DEF IdentInv, AnsweredByOwnChild
<1>5. ASSUME NEW i \in Index, m.type = "SERVICE_CONNECT", i \in Matching(m.ident),
             policy_pending' = [policy_pending EXCEPT ![i].response_sent = "ALLOW"],
             ForwardToAgent(fd, m),
             answerer' = [answerer EXCEPT ![policy_pending[i].pid] = IF Forwarded THEN peer[fd] ELSE @]
      PROVE  IdentInv'
  <2>0. PICK c \in Conn : c = peer[fd]
    BY <1>2, <1>5
  <2>1. c \in Pid /\ m \in ClientMsg /\ m.ident \in Ident
    BY <1>2, <1>5, <2>0 DEF Asks
  <2>2. PICK id \in Ident : id = m.ident
    BY <2>1
  <2>3. sock[c].inq = <<m>> /\ sock'[c].inq = <<>> /\ sock[c].inq # <<>>
    <3>1. sock[c].inq = <<m>> /\ sock'[c].inq = <<>>
      BY <1>2, <1>5, <2>0
    <3>2. <<m>> # <<>>
      BY SMT
    <3> QED
      BY <3>1, <3>2
  <2>4. c \in Asking(id) /\ i \in Waiting(id)
    <3>1. m \in Requests(id)
      BY <1>5, <2>1, <2>2 DEF Requests
    <3>2. ~NoneIn(<<m>>, Requests(id))
      <4>1. 1 \in DOMAIN <<m>> /\ <<m>>[1] = m
        BY SMT
      <4> QED
        BY <3>1, <4>1 DEF NoneIn, Places
    <3> QED
      BY <1>5, <2>1, <2>2, <2>3, <3>2 DEF Asking, Waiting, Matching
  <2>5. IdentHandled(id)
    BY <1>i, <2>4 DEF IdentOK, IdentIdle, IdentRequested, IdentAnswered, IdentConnected
  <2>6. /\ policy_pending[i].pid = c
        /\ \A j \in Waiting(id) : j = i
        /\ \A p \in Asking(id) : p = c
    BY <2>4, <2>5 DEF IdentHandled
  <2>7. AnsweredByOwnChild'
    <3>1. AnsweredByOwnChild
      BY DEF IdentInv
    <3>2. answerer'[c] \in {answerer[c], c} /\ \A p \in Pid \ {c} : answerer'[p] = answerer[p]
      BY <1>t, <1>5, <2>0, <2>1, <2>6
    <3> QED
      BY <2>1, <3>1, <3>2 DEF AnsweredByOwnChild
  <2>8. /\ policy_pending'[i].response_sent = "ALLOW"
        /\ \A j \in Index \ {i} : policy_pending'[j] = policy_pending[j]
    BY <1>t, <1>5 DEF policy_pending_t
  <2>9. ASSUME NEW x \in Ident
        PROVE  /\ \A j \in Waiting(x)' : j # i /\ j \in Waiting(x)
               /\ \A j \in Waiting(x)' : policy_pending'[j].pid = policy_pending[j].pid
    BY <2>8 DEF Waiting
  <2>10. ASSUME NEW x \in Ident, x # id \/ UNCHANGED to_agent PROVE IdentOK(x)'
    <3>1. /\ NoneIn(to_agent, Answering(x)) => NoneIn(to_agent', Answering(x))
          /\ OnlyIn(to_agent, Answering(x)) => OnlyIn(to_agent', Answering(x))
      BY <1>2, <1>3, <1>5, <2>2, <2>10
    <3>2. IdentSame(x)
      BY <1>f, <1>k, <1>2, <1>5, <2>9, <3>1 DEF IdentSame
    <3> QED
      BY <1>i, <3>2, IdentKept
  <2>11. ASSUME NEW f \in ToAgentMsg, f.ident = id, to_agent' = Append(to_agent, f)
         PROVE  IdentOK(id)'
    <3>1. Waiting(id)' = {}
      BY <2>6, <2>9
    <3>2. c \notin Asking(id)'
      <4>1. child[c].stage \notin {"policy", "connecting"}
        BY <2>1, <2>3 DEF LocalInv, ChildOK
      <4>2. NoneIn(sock'[c].inq, Requests(id))
        BY <2>3, NoneInEmpty
      <4> QED
        BY <1>f, <4>1, <4>2 DEF Asking
    <3>3. Asking(id)' = {}
      BY <1>2, <1>5, <2>6, <3>2
    <3>4. OnlyIn(to_agent', Answering(id))
      <4>1. f \in Answering(id)
        BY <2>11 DEF Answering
      <4> QED
        BY <1>t, <2>5, <2>11, <4>1, QueueMoved DEF IdentHandled
    <3>5. IdentAnswered(id)'
      BY <1>f, <1>k, <2>5, <3>1, <3>3, <3>4 DEF IdentAnswered, IdentHandled
    <3> QED
      BY <3>5 DEF IdentOK
  <2> QED
    BY <1>f, <1>i, <1>2, <1>5, <2>2, <2>7, <2>10, <2>11 DEF IdentInv
<1> QED
  BY <1>1, <1>4, <1>5, <1>m DEF handle_cmdline_message_from_client, IsFirst

\* handle_message_from_agent(): a trigger becomes a pending request with a
\* child of its own, or is refused at once.
LEMMA AgentMessageIdent ==
  ASSUME TInv, LocalInv, IdentInv, handle_message_from_agent
  PROVE  IdentInv'
<1>t. /\ policy_pending \in [Index -> policy_pending_t] /\ child \in [Pid -> ChildProcess]
      /\ to_agent \in Seq(ToAgentMsg) /\ from_agent \in Seq(FromAgentMsg)
  BY DEF TInv, TypeOK, PendingTypes, VchanTypes
<1>f. /\ UNCHANGED <<vchan_open, agent, answerer>>
      /\ from_agent # <<>> /\ from_agent' = Tail(from_agent)
  BY DEF handle_message_from_agent, ghostVars
<1> SUFFICES ASSUME agent.crashes = 0 PROVE IdentInv'
  BY <1>f DEF IdentInv
<1>i. vchan_open /\ \A x \in Ident : IdentOK(x)
  BY DEF IdentInv
<1>0. Head(from_agent) \in FromAgentMsg
  BY <1>t, <1>f, HeadTail
<1>m. PICK m \in FromAgentMsg : m = Head(from_agent)
  BY <1>0
<1>k. ASSUME NEW x \in Ident PROVE Connected(x)' = Connected(x)
  BY <1>f DEF Connected
<1>1. ASSUME NEW x \in Ident, m \notin Triggers(x)
      PROVE  /\ NoneIn(from_agent, Triggers(x)) => NoneIn(from_agent', Triggers(x))
             /\ OnlyIn(from_agent, Triggers(x)) => OnlyIn(from_agent', Triggers(x))
  BY <1>t, <1>f, <1>m, <1>1, QueueKept
<1>2. ASSUME NEW x \in Ident, m \in Triggers(x)
      PROVE  IdentRequested(x) /\ NoneIn(from_agent', Triggers(x))
  <2>1. ~NoneIn(from_agent, Triggers(x))
    BY <1>t, <1>f, <1>m, <1>2, QueueMoved
  <2>2. IdentRequested(x)
    BY <1>i, <2>1 DEF IdentOK, IdentIdle, IdentHandled, IdentAnswered, IdentConnected
  <2>3. NoneIn(from_agent', Triggers(x))
    BY <1>t, <1>f, <1>m, <1>2, <2>2, QueueMoved, ZenonT(30) DEF IdentRequested
  <2> QED
    BY <2>2, <2>3
<1>3. CASE /\ UNCHANGED <<policy_pending, child, to_agent>>
           /\ \A p \in Pid : sock'[p].inq = sock[p].inq \/ sock'[p].inq = <<>>
  <2>1. ASSUME NEW x \in Ident PROVE IdentOK(x)'
    <3>1. Waiting(x)' = Waiting(x) /\ Asking(x)' \subseteq Asking(x)
      BY <1>3, AskingShrinks DEF Waiting
    <3>2. CASE m \notin Triggers(x)
      <4>1. IdentSame(x)
        BY <1>f, <1>k, <1>1, <1>3, <3>1, <3>2 DEF IdentSame
      <4> QED
        BY <1>i, <4>1, IdentKept
    <3>3. CASE m \in Triggers(x)
      <4>1. IdentIdle(x)'
        BY <1>k, <1>2, <1>3, <3>1, <3>3 DEF IdentIdle, IdentRequested
      <4> QED
        BY <4>1 DEF IdentOK
    <3> QED
      BY <3>2, <3>3
  <2> QED
    BY <1>f, <2>1 DEF IdentInv, AnsweredByOwnChild
<1>4. CASE /\ m.type = "TRIGGER_SERVICE" /\ Deliver(Refused(m.ident), "agent")
           /\ UNCHANGED <<policy_pending, child, sock>>
  <2>1. to_agent' = Append(to_agent, Refused(m.ident))
    BY <1>i, <1>4 DEF Deliver
  <2>2. m.ident \in Ident
    BY <1>4 DEF FromAgentMsg
  <2>3. Refused(m.ident) \in ToAgentMsg /\ Refused(m.ident).ident = m.ident
    BY <2>2 DEF ToAgentMsg, Refused
  <2>4. ASSUME NEW x \in Ident PROVE IdentOK(x)'
    <3>1. Waiting(x)' = Waiting(x) /\ Asking(x)' = Asking(x)
      BY <1>4 DEF Waiting, Asking
    <3>2. CASE x # m.ident
      <4>1. m \notin Triggers(x) /\ Refused(m.ident) \notin Answering(x)
        BY <2>3, <3>2 DEF Triggers, Answering
      <4>2. /\ NoneIn(to_agent, Answering(x)) => NoneIn(to_agent', Answering(x))
            /\ OnlyIn(to_agent, Answering(x)) => OnlyIn(to_agent', Answering(x))
        BY <1>t, <2>1, <2>3, <4>1, QueueKept, ZenonT(30)
      <4>3. IdentSame(x)
        BY <1>f, <1>k, <1>1, <1>4, <3>1, <4>1, <4>2 DEF IdentSame
      <4> QED
        BY <1>i, <4>3, IdentKept
    <3>3. CASE x = m.ident
      <4>1. m \in Triggers(x) /\ Refused(m.ident) \in Answering(x)
        BY <1>4, <2>3, <3>3 DEF Triggers, Answering
      <4>2. OnlyIn(to_agent', Answering(x))
        <5>1. NoneIn(to_agent, Answering(x))
          BY <1>2, <4>1 DEF IdentRequested
        <5>2. PICK r \in ToAgentMsg : r \in Answering(x) /\ to_agent' = Append(to_agent, r)
          BY <2>1, <2>3, <4>1
        <5> QED
          BY <1>t, <5>1, <5>2, QueueMoved
      <4>3. IdentAnswered(x)'
        BY <1>f, <1>k, <1>2, <3>1, <4>1, <4>2 DEF IdentAnswered, IdentRequested
      <4> QED
        BY <4>3 DEF IdentOK
    <3> QED
      BY <3>2, <3>3
  <2> QED
    BY <1>f, <2>4 DEF IdentInv, AnsweredByOwnChild
<1>5. ASSUME m.type = "TRIGGER_SERVICE", NEW i \in Index, NEW p \in Pid,
             policy_pending[i].pid = None,
             policy_pending' = [policy_pending EXCEPT ![i] =
                [pid |-> p, ident |-> m.ident, response_sent |-> "PENDING"]],
             child' = [child EXCEPT ![p].stage = "policy", ![p].ident = m.ident],
             UNCHANGED <<to_agent, sock>>
      PROVE  IdentInv'
  <2>1. /\ policy_pending'[i].pid = p /\ policy_pending'[i].ident = m.ident
        /\ \A j \in Index \ {i} : policy_pending'[j] = policy_pending[j]
    BY <1>t, <1>5, SMT
  <2>2. child'[p].ident = m.ident /\ \A q \in Pid \ {p} : child'[q] = child[q]
    BY <1>t, <1>5, SMT DEF ChildProcess
  <2>3. ASSUME NEW x \in Ident PROVE IdentOK(x)'
    <3>1. CASE x # m.ident
      <4>1. m \notin Triggers(x)
        BY <3>1 DEF Triggers
      <4>2. /\ Waiting(x)' \subseteq Waiting(x)
            /\ \A j \in Waiting(x)' : policy_pending'[j].pid = policy_pending[j].pid
        BY <2>1, <3>1 DEF Waiting
      <4>3. Asking(x)' \subseteq Asking(x)
        BY <1>5, <2>2, <3>1 DEF Asking
      <4>4. IdentSame(x)
        BY <1>f, <1>k, <1>1, <1>5, <4>1, <4>2, <4>3 DEF IdentSame
      <4> QED
        BY <1>i, <4>4, IdentKept
    <3>2. CASE x = m.ident
      <4>1. m \in Triggers(x)
        BY <1>5, <3>2 DEF Triggers
      <4>2. \A j \in Waiting(x)' : j = i
        BY <1>2, <2>1, <4>1 DEF Waiting, IdentRequested
      <4>3. \A q \in Asking(x)' : q = p
        BY <1>2, <1>5, <2>2, <4>1, ZenonT(30) DEF Asking, IdentRequested
      <4>4. IdentHandled(x)'
        BY <1>f, <1>k, <1>2, <1>5, <2>1, <4>1, <4>2, <4>3 DEF IdentHandled, IdentRequested
      <4> QED
        BY <4>4 DEF IdentOK
    <3> QED
      BY <3>1, <3>2
  <2> QED
    BY <1>f, <2>3 DEF IdentInv, AnsweredByOwnChild
<1>6. CASE ~Sane(m)
  <2>1. CASE UNCHANGED <<policy_pending, child, to_agent, sock>>
    BY <1>3, <2>1
  <2>2. CASE m.type = "CONNECTION_TERMINATED"
    BY <1>6, <2>2 DEF Sane
  <2> QED
    BY <1>6, <1>m, <2>1, <2>2 DEF handle_message_from_agent
<1>7. CASE m.type = "CONNECTION_TERMINATED" /\ release_vchan_port(m.port, m.domain)
           /\ UNCHANGED <<policy_pending, child, to_agent>>
  <2>1. m.port \in Index
    BY <1>7 DEF FromAgentMsg
  <2>2. \/ UNCHANGED sock
        \/ /\ vchan_port_notify_client[m.port] # VCHAN_PORT_UNUSED
           /\ terminate_client(vchan_port_notify_client[m.port])
    BY <1>7 DEF release_vchan_port
  <2>3. vchan_port_notify_client[m.port] \in Index \cup {VCHAN_PORT_UNUSED}
    BY <2>1 DEF TInv, TypeOK, PortTypes
  <2>4. \A p \in Pid : sock'[p].inq = sock[p].inq \/ sock'[p].inq = <<>>
    BY <2>2, <2>3, TerminateAsks
  <2> QED
    BY <1>3, <1>7, <2>4
<1>8. CASE Sane(m) /\ m.type = "TRIGGER_SERVICE"
  <2>1. /\ UNCHANGED sock
        /\ \/ handle_execute_service(m)
           \/ Deliver(Refused(m.ident), "agent") /\ UNCHANGED <<policy_pending, child>>
    BY <1>8, <1>m DEF handle_message_from_agent
  <2>2. CASE handle_execute_service(m)
    <3>1. CASE UNCHANGED <<policy_pending, child, to_agent>>
      BY <1>3, <2>1, <3>1
    <3>2. CASE Deliver(Refused(m.ident), "agent") /\ UNCHANGED <<policy_pending, child>>
      BY <1>4, <1>8, <2>1, <3>2
    <3> QED
      BY <1>5, <1>8, <2>1, <2>2, <3>1, <3>2 DEF handle_execute_service, IsFirst, FreeSlots
  <2> QED
    BY <1>4, <1>8, <2>1, <2>2
<1> QED
  BY <1>6, <1>7, <1>8, <1>m DEF handle_message_from_agent

\* Every step moves each request to the next of its places, if at all.
LEMMA StepIdent == TInv /\ LocalInv /\ IdentInv /\ [Next]_vars => IdentInv'
<1> SUFFICES ASSUME TInv, LocalInv, IdentInv, [Next]_vars PROVE IdentInv'
  OBVIOUS
<1>1. CASE handle_agent_restart
  <2>1. ~vchan_open /\ UNCHANGED agent
    BY <1>1 DEF handle_agent_restart
  <2> QED
    BY <2>1 DEF IdentInv
<1>2. CASE Exited
  BY <1>2, OtherIdent DEF Exited
<1> QED
  BY <1>1, <1>2, OtherIdent, ReapIdent, AgentMessageIdent, ServeIdent, ConnectIdent, AgentIdent
     DEF Next, Daemon

\* handle_cmdline_body_from_client() looks the pending request up by the
\* identifier in a message of the child: as long as the agent has not crashed,
\* the one it finds is that child's own.  (A crashed agent forgets which
\* identifiers children still hold, so nothing is claimed after that.)
THEOREM AnswererCorrect == Spec => [](agent.crashes = 0 => AnsweredByOwnChild)
<1>1. Init => NotifyConsistent
  BY DEF Init, NotifyConsistent
<1>2. Init => IdentInv
  <2> SUFFICES ASSUME Init PROVE IdentInv
    OBVIOUS
  <2>0. /\ to_agent = <<>> /\ from_agent = <<>> /\ agent.conns = {} /\ vchan_open
        /\ policy_pending = [i \in Index |-> FreeSlot] /\ sock = [c \in Conn |-> NoSock]
        /\ child = [p \in Pid |-> Unborn] /\ answerer = [p \in Pid |-> None]
    BY SMT DEF Init
  <2>1. ASSUME NEW id \in Ident PROVE IdentIdle(id)
    <3>1. Connected(id) = {} /\ Waiting(id) = {}
      BY <2>0 DEF Connected, Waiting, FreeSlot
    <3>2. Asking(id) = {}
      BY <2>0, NoneInEmpty DEF Asking, Unborn, NoSock, Conn
    <3> QED
      BY <2>0, <3>1, <3>2, NoneInEmpty DEF IdentIdle
  <2>2. AnsweredByOwnChild
    BY <2>0 DEF AnsweredByOwnChild
  <2> QED
    BY <2>0, <2>1, <2>2, ZenonT(30) DEF IdentInv, IdentOK
<1>3. IdentInv => (agent.crashes = 0 => AnsweredByOwnChild)
  BY DEF IdentInv
<1> QED
  BY <1>1, <1>2, <1>3, InitTInv, InitLocal, StepTInv, StepNotify, StepLocal, StepIdent, PTL DEF Spec

-----------------------------------------------------------------------------
(* From the places of a port's connection to their number *)

INSTANCE FiniteSetTheorems

\* allocate_vchan_port() gives a port to one connection at a time and
\* release_vchan_port() frees it when that connection has ended, for any number
\* of connections, of other daemons' ports, and of crashes of the agent.
THEOREM PortsCorrect == Spec => []PortAccounted
<1>1. Init => NotifyConsistent
  BY DEF Init, NotifyConsistent
<1>2. Init => PortInv
  <2> SUFFICES ASSUME Init PROVE PortInv
    OBVIOUS
  <2>0. /\ to_agent = <<>> /\ from_agent = <<>> /\ agent.conns = {} /\ orphans = {} /\ vchan_open
        /\ \A i \in Index : used_vchan_ports[i] = VCHAN_PORT_UNUSED
    BY SMT DEF Init
  <2>1. ASSUME NEW i \in Index PROVE PortFree(i)
    <3>1. Held(i) = {} /\ LeftBehind(i) = {}
      BY <2>0 DEF Held, LeftBehind
    <3> QED
      BY <2>0, <3>1, NoneInEmpty DEF PortFree, NoneOf
  <2> QED
    BY <2>0, <2>1 DEF PortInv, PortOK
<1>3. TInv /\ PortInv => PortAccounted
  <2> SUFFICES ASSUME TInv, PortInv, pc # "exited", NEW i \in Index
               PROVE  LiveOn(i) = IF used_vchan_ports[i] = VCHAN_PORT_UNUSED THEN 0 ELSE 1
    BY DEF PortAccounted
  <2>1. PortOK(i)
    BY DEF PortInv
  <2>2. Cardinality({}) = 0
    BY FS_EmptySet
  <2>3. \A x : Cardinality({x}) = 1
    BY FS_Singleton
  <2>4. /\ NoneIn(to_agent, Announcements(i)) => Cardinality(Announced(i)) = 0
        /\ NoneIn(from_agent, Endings(i)) => Cardinality(Reported(i)) = 0
        /\ NoneOf(Held(i)) => Cardinality(Held(i)) = 0
        /\ NoneOf(LeftBehind(i)) => Cardinality(LeftBehind(i)) = 0
    BY <2>2, PortSets DEF NoneIn, NoneOf
  <2>5. \A d : /\ OneIn(to_agent, Announcements(i), d) => Cardinality(Announced(i)) = 1
               /\ OneIn(from_agent, Endings(i), d) => Cardinality(Reported(i)) = 1
               /\ OneOf(Held(i), d) => Cardinality(Held(i)) = 1
               /\ OneOf(LeftBehind(i), d) => Cardinality(LeftBehind(i)) = 1
    BY <2>3, PortSets DEF OneIn, OneOf
  <2>6. CASE PortFree(i)
    BY <2>4, <2>6, SMT DEF PortFree, LiveOn
  <2>7. CASE PortInUse(i)
    BY <2>4, <2>5, <2>7, SMT DEF PortInUse, LiveOn
  <2> QED
    BY <2>1, <2>6, <2>7 DEF PortOK
<1> QED
  BY <1>1, <1>2, <1>3, InitTInv, InitLocal, StepTInv, StepNotify, StepLocal, StepPorts, PTL DEF Spec
=============================================================================
