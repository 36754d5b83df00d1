---------------------------- MODULE QrexecDaemon ----------------------------
(***************************************************************************)
(* qrexec-daemon: the dom0 process that serves one VM.                     *)
(*                                                                         *)
(* The daemon owns three tables of MAX_CLIENTS entries: the local clients  *)
(* (indexed by file descriptor), the service requests whose policy child   *)
(* is running (policy_pending) and the data vchan ports.  It talks to the  *)
(* VM's agent over the control vchan and to local clients over a unix      *)
(* socket.  Its main loop is modelled phase by phase, one action per       *)
(* handler; the policy children it forks and the local clients are         *)
(* processes that interleave with it, and so is the agent, of which only   *)
(* what the daemon can observe is kept (module QrexecAgent has the rest).  *)
(***************************************************************************)
EXTENDS Integers, Sequences, FiniteSets

CONSTANTS
    MAX_CLIENTS,       \* size of the clients, policy_pending and port tables
    remote_domain_id,  \* id of the VM this daemon serves
    Domain,            \* ids of the other ends of a connection, 0 is dom0
    Pid,               \* processes the daemon may fork
    User,              \* local clients that are not children of the daemon
    Ident,             \* request identifiers ("SOCKET<fd>") the agent uses
    None,              \* no process
    AgentVersions,     \* protocol versions an agent may announce
    VCHAN_SPACE,       \* messages the control vchan holds in each direction
    TriggerValid,      \* whether requests may fail the daemon's validation
    MaxCrashes,        \* bound: crashes of the agent
    MaxKills,          \* bound: policy children killed by a signal
    MayTerminate       \* whether SIGTERM may be sent to the daemon

ASSUME DaemonAssumption ==
    /\ MAX_CLIENTS \in Nat \ {0}
    /\ remote_domain_id \in Nat \ {0}
    /\ Domain \subseteq Nat \ {remote_domain_id}
    /\ Pid \cap User = {}
    /\ None \notin Pid \cup User
    /\ None \notin Ident
    /\ AgentVersions \subseteq Nat
    /\ VCHAN_SPACE \in Nat \ {0}
    /\ TriggerValid \subseteq BOOLEAN
    /\ MaxCrashes \in Nat
    /\ MaxKills \in Nat
    /\ MayTerminate \in BOOLEAN

VARIABLES
    pc,                        \* phase of the main loop
    fds,                       \* what ppoll() reported and is yet to be handled
    clients,                   \* clients[fd].state
    max_client_fd,
    policy_pending,
    policy_pending_max,
    used_vchan_ports,
    vchan_port_notify_client,
    child_exited,
    terminate_requested,
    protocol_version,
    vchan_open,                \* control vchan: is it open,
    to_agent,                  \*   messages in flight to the agent
    from_agent,                \*   and from it
    backlog,                   \* connections waiting for accept()
    sock,                      \* local connections, one per process
    peer,                      \* the connection behind each client fd
    child,                     \* policy children
    agent,                     \* what the agent knows
    answers,                   \* history: answers sent for each request
    answerer,                  \* history: whose message made it connect
    orphans                    \* history: connections no agent will report

daemonVars == <<pc, fds, clients, max_client_fd, policy_pending,
                policy_pending_max, used_vchan_ports, vchan_port_notify_client,
                child_exited, terminate_requested, protocol_version, peer>>
vchanVars  == <<vchan_open, to_agent, from_agent>>
localVars  == <<backlog, sock, child>>
ghostVars  == <<answers, answerer, orphans>>
vars == <<daemonVars, vchanVars, localVars, agent, ghostVars>>

-----------------------------------------------------------------------------
(* Constants and types of the source *)

QREXEC_PROTOCOL_VERSION == 3
QREXEC_MIN_VERSION == 2
VCHAN_PORT_UNUSED == -1
ANY_PORT == -1                 \* connect_port = 0: "allocate one for me"

Index == 0 .. MAX_CLIENTS - 1  \* fds, slots, and ports less the base port
Conn == Pid \cup User          \* a process makes one connection

client_state == {"INVALID", "HELLO", "CMDLINE", "RUNNING"}
policy_response == {"PENDING", "ALLOW"}   \* DENY is only ever set on a freed slot

Phase == {"top", "reap", "poll", "accept", "agent", "clients",
          "reconnect", "exited"}

\* Messages of local processes.  They all run the handshake first, and give
\* up without an answer on a version mismatch, so a HELLO carries nothing.
\* MSG_EXEC_CMDLINE and MSG_JUST_EXEC are one kind: the daemon treats them alike.
Hello == [type |-> "HELLO"]
ClientMsg == {Hello} \cup
             [type : {"EXEC", "SERVICE_CONNECT"}, ident : Ident \cup {None},
              port : Index \cup {ANY_PORT}, domain : Domain]

Refused(id) == [type |-> "SERVICE_REFUSED", ident |-> id]
ToAgentMsg == {Refused(id) : id \in Ident \cup {None}} \cup
              [type : {"EXEC", "SERVICE_CONNECT"}, ident : Ident \cup {None},
               port : Index, domain : Domain]

\* A trigger carries the protocol the agent speaks (it selects between
\* MSG_TRIGGER_SERVICE and MSG_TRIGGER_SERVICE3) and whether the request
\* identifier and the service name pass the daemon's validation.
FromAgentMsg ==
    [type : {"TRIGGER_SERVICE"}, version : Nat, ident : Ident, valid : BOOLEAN] \cup
    [type : {"CONNECTION_TERMINATED"}, port : Index, domain : Domain]

\* The agent: identifiers in use, connections it was told to make, protocol.
Connection == [ident : Ident \cup {None}, port : Index, domain : Domain]
AgentState == [busy : SUBSET Ident, conns : SUBSET Connection, version : Nat, crashes : Nat]

policy_pending_t == [pid : Pid \cup {None}, ident : Ident \cup {None},
                     response_sent : policy_response]

\* A local connection: what the daemon has yet to read from it, whether the
\* process closed its end, and whether the daemon has told it a port.
Socket == [st : {"none", "backlog", "open", "gone"}, inq : Seq(ClientMsg),
           eof : BOOLEAN, replied : BOOLEAN]

ChildStage == {"unborn", "policy", "connecting", "sent", "zombie", "reaped"}
ExitStatus == {"none", "zero", "nonzero", "signal"}
ChildProcess == [stage : ChildStage, ident : Ident \cup {None}, dest : Domain \cup {None},
                 port : Index \cup {ANY_PORT}, status : ExitStatus]

IsFirst(i, S) == i \in S /\ \A j \in S : i <= j

FreeSlot == [pid |-> None, ident |-> None, response_sent |-> "PENDING"]
NoSock == [st |-> "none", inq |-> <<>>, eof |-> FALSE, replied |-> FALSE]
Unborn == [stage |-> "unborn", ident |-> None, dest |-> None, port |-> ANY_PORT,
           status |-> "none"]

Min2(a, b) == IF a < b THEN a ELSE b
Max2(a, b) == IF a > b THEN a ELSE b

\* handle_agent_hello(): the version both ends can speak
negotiated(v) == Min2(v, QREXEC_PROTOCOL_VERSION)

\* allocate_vchan_port(): the ports this daemon may give to a connection with
\* domain d, and those the daemon of d may give to a connection with our VM
OwnPorts(d) ==
    IF d = 0 THEN Index
    ELSE {i \in Index : i % 2 = IF d > remote_domain_id THEN 1 ELSE 0}
OtherDaemonPorts(d) ==
    {i \in Index : i % 2 = IF remote_domain_id > d THEN 1 ELSE 0}
FreePorts(d) == {i \in OwnPorts(d) : used_vchan_ports[i] = VCHAN_PORT_UNUSED}

Init ==
    /\ pc = "top"
    /\ fds = [listen |-> FALSE, ready |-> {}]
    /\ clients = [fd \in Index |-> "INVALID"]
    /\ max_client_fd = -1
    /\ policy_pending = [i \in Index |-> FreeSlot]
    /\ policy_pending_max = -1
    /\ used_vchan_ports = [i \in Index |-> VCHAN_PORT_UNUSED]
    /\ vchan_port_notify_client = [i \in Index |-> VCHAN_PORT_UNUSED]
    /\ child_exited = FALSE
    /\ terminate_requested = FALSE
    /\ vchan_open = TRUE
    /\ to_agent = <<>>
    /\ from_agent = <<>>
    /\ backlog = <<>>
    /\ sock = [c \in Conn |-> NoSock]
    /\ peer = [fd \in Index |-> None]
    /\ child = [p \in Pid |-> Unborn]
    /\ \E v \in AgentVersions :
          /\ negotiated(v) >= QREXEC_MIN_VERSION
          /\ protocol_version = negotiated(v)
          /\ agent = [busy |-> {}, conns |-> {}, version |-> negotiated(v), crashes |-> 0]
    /\ answers = [p \in Pid |-> 0]
    /\ answerer = [p \in Pid |-> None]
    /\ orphans = {}

-----------------------------------------------------------------------------
(* Pieces several handlers share *)

\* libvchan_send() blocks while the ring is full and fails once the agent is
\* gone, on which the daemon exits; otherwise it goes on with phase `next'.
Deliver(m, next) ==
    \/ /\ vchan_open
       /\ Len(to_agent) < VCHAN_SPACE
       /\ to_agent' = Append(to_agent, m)
       /\ pc' = next
    \/ /\ ~vchan_open
       /\ pc' = "exited"
       /\ UNCHANGED to_agent

Closed(s) == [s EXCEPT !.st = "gone", !.inq = <<>>, !.eof = TRUE]

terminate_client_still_notified(fd) ==
    /\ clients' = [clients EXCEPT ![fd] = "INVALID"]
    /\ peer' = [peer EXCEPT ![fd] = None]
    /\ sock' = [sock EXCEPT ![peer[fd]] = Closed(@)]
    /\ UNCHANGED vchan_port_notify_client
terminate_client(fd) ==
    /\ clients' = [clients EXCEPT ![fd] = "INVALID"]
    /\ peer' = [peer EXCEPT ![fd] = None]
    /\ sock' = [sock EXCEPT ![peer[fd]] = Closed(@)]
    /\ vchan_port_notify_client' =
          [i \in Index |-> IF vchan_port_notify_client[i] = fd
                           THEN VCHAN_PORT_UNUSED ELSE vchan_port_notify_client[i]]

release_vchan_port_if_notified(port, expected_remote_id) ==
    IF /\ used_vchan_ports[port] = expected_remote_id
       /\ vchan_port_notify_client[port] # VCHAN_PORT_UNUSED
    THEN /\ used_vchan_ports' = [used_vchan_ports EXCEPT ![port] = VCHAN_PORT_UNUSED]
         /\ terminate_client(vchan_port_notify_client[port])
    ELSE UNCHANGED <<used_vchan_ports, clients, peer, sock, vchan_port_notify_client>>
release_vchan_port_silently(port, expected_remote_id) ==
    /\ IF used_vchan_ports[port] = expected_remote_id
       THEN /\ used_vchan_ports' = [used_vchan_ports EXCEPT ![port] = VCHAN_PORT_UNUSED]
            /\ vchan_port_notify_client' =
                  [vchan_port_notify_client EXCEPT ![port] = VCHAN_PORT_UNUSED]
       ELSE UNCHANGED <<used_vchan_ports, vchan_port_notify_client>>
    /\ UNCHANGED <<clients, peer, sock>>
release_vchan_port(port, expected_remote_id) ==
    IF used_vchan_ports[port] = expected_remote_id
    THEN /\ used_vchan_ports' = [used_vchan_ports EXCEPT ![port] = VCHAN_PORT_UNUSED]
         /\ IF vchan_port_notify_client[port] # VCHAN_PORT_UNUSED
            THEN terminate_client(vchan_port_notify_client[port])
            ELSE UNCHANGED <<clients, peer, sock, vchan_port_notify_client>>
    ELSE UNCHANGED <<used_vchan_ports, clients, peer, sock, vchan_port_notify_client>>

-----------------------------------------------------------------------------
(* Main loop *)

\* The order in which one iteration serves its sources.
After_agent_first == [poll |-> "agent", agent |-> "accept", accept |-> "clients", clients |-> "top"]
After == [poll |-> "accept", accept |-> "agent", agent |-> "clients", clients |-> "top"]

loop_top ==
    /\ pc = "top"
    /\ pc' = IF terminate_requested THEN "exited"
             ELSE IF child_exited THEN "reap" ELSE "poll"
    /\ UNCHANGED <<fds, clients, max_client_fd, policy_pending, policy_pending_max,
                   used_vchan_ports, vchan_port_notify_client, child_exited,
                   terminate_requested, protocol_version, peer,
                   vchanVars, localVars, agent, ghostVars>>

Zombies == {p \in Pid : child[p].stage = "zombie"}
Slot(p) == {i \in Index : i <= policy_pending_max /\ policy_pending[i].pid = p}

Shrunk_by_one(pending, m) == m = Max2(policy_pending_max - 1, 0)
\* policy_pending_max after slot i was freed: trailing free slots are dropped,
\* slot 0 excepted.
Shrunk(pending, m) ==
    /\ m \in 0 .. policy_pending_max
    /\ m = 0 \/ pending[m].pid # None
    /\ \A j \in Index : m < j /\ j <= policy_pending_max => pending[j].pid = None

\* The entry's pid becomes 0, after which nothing else in it is ever read.
FreePending(i) ==
    /\ policy_pending' = [policy_pending EXCEPT ![i] = FreeSlot]
    /\ policy_pending_max' \in {m \in Index : Shrunk(policy_pending', m)}

NeedsRefusal_spurious(p, i) == child[p].status = "nonzero"
NeedsRefusal(p, i) == /\ child[p].status = "nonzero"
                      /\ policy_pending[i].response_sent = "PENDING"

\* One turn of the waitpid() loop.
reap_children(p) ==
    /\ pc = "reap"
    /\ p \in Zombies
    /\ child' = [child EXCEPT ![p].stage = "reaped"]
    /\ \/ /\ Slot(p) = {} \/ child[p].status = "signal"
          /\ UNCHANGED <<pc, to_agent, policy_pending, policy_pending_max, answers>>
       \/ /\ child[p].status # "signal"
          /\ \E i \in Slot(p) :
                /\ FreePending(i)
                /\ IF NeedsRefusal(p, i)
                   THEN /\ Deliver(Refused(policy_pending[i].ident), "reap")
                        /\ answers' = [answers EXCEPT ![p] = @ + 1]
                   ELSE UNCHANGED <<pc, to_agent, answers>>
    /\ UNCHANGED <<fds, clients, max_client_fd, used_vchan_ports,
                   vchan_port_notify_client, child_exited, terminate_requested,
                   protocol_version, peer, vchan_open, from_agent, backlog, sock,
                   agent, answerer, orphans>>

reap_children_done ==
    /\ pc = "reap"
    /\ Zombies = {}
    /\ child_exited' = FALSE
    /\ pc' = "poll"
    /\ UNCHANGED <<fds, clients, max_client_fd, policy_pending, policy_pending_max,
                   used_vchan_ports, vchan_port_notify_client, terminate_requested,
                   protocol_version, peer, vchanVars, localVars, agent, ghostVars>>

\* Local sources are polled only while the control vchan has room.
HaveSpace == Len(to_agent) < VCHAN_SPACE
Readable(fd) == sock[peer[fd]].inq # <<>> \/ sock[peer[fd]].eof
ReadyFds == {fd \in Index : /\ HaveSpace
                            /\ fd <= max_client_fd
                            /\ clients[fd] # "INVALID"
                            /\ Readable(fd)}
ListenReady == HaveSpace /\ backlog # <<>>
LocalReady == ListenReady \/ ReadyFds # {}

ppoll_eintr_unnoticed ==
    /\ pc = "poll"
    /\ vchan_open
    /\ ~LocalReady
    /\ Zombies # {}
    /\ pc' = "top"
    /\ UNCHANGED <<fds, clients, max_client_fd, policy_pending, policy_pending_max,
                   used_vchan_ports, vchan_port_notify_client, child_exited,
                   terminate_requested, protocol_version, peer,
                   vchanVars, localVars, agent, ghostVars>>
\* ppoll() reports the ready descriptors; signals stay blocked if there is one.
\* With none, a pending SIGCHLD interrupts it, and else it times out.  Data in
\* the vchan need not make its descriptor ready: a libvchan_send() that had to
\* wait for room has consumed the event.
ppoll_ready ==
    /\ pc = "poll"
    /\ vchan_open
    /\ LocalReady \/ from_agent # <<>> \/ Zombies = {}
    /\ fds' = [listen |-> ListenReady, ready |-> {<<fd, peer[fd]>> : fd \in ReadyFds}]
    /\ pc' = After["poll"]
    /\ UNCHANGED <<clients, max_client_fd, policy_pending, policy_pending_max,
                   used_vchan_ports, vchan_port_notify_client, child_exited,
                   terminate_requested, protocol_version, peer,
                   vchanVars, localVars, agent, ghostVars>>

ppoll_eintr ==
    /\ pc = "poll"
    /\ vchan_open
    /\ ~LocalReady
    /\ Zombies # {}
    /\ child_exited' = TRUE                        \* signal_handler(SIGCHLD)
    /\ pc' = "top"
    /\ UNCHANGED <<fds, clients, max_client_fd, policy_pending, policy_pending_max,
                   used_vchan_ports, vchan_port_notify_client, terminate_requested,
                   protocol_version, peer, vchanVars, localVars, agent, ghostVars>>

signal_handler_sigterm ==
    /\ MayTerminate
    /\ pc \notin {"reconnect", "exited"}           \* default action while reconnecting
    /\ terminate_requested' = TRUE
    /\ UNCHANGED <<pc, fds, clients, max_client_fd, policy_pending, policy_pending_max,
                   used_vchan_ports, vchan_port_notify_client, child_exited,
                   protocol_version, peer, vchanVars, localVars, agent, ghostVars>>

handle_agent_restart_forgets_ports ==
    /\ pc = "poll"
    /\ ~vchan_open
    /\ clients' = [fd \in Index |-> "INVALID"]
    /\ peer' = [fd \in Index |-> None]
    /\ vchan_port_notify_client' = [i \in Index |-> VCHAN_PORT_UNUSED]
    /\ sock' = [c \in Conn |-> IF sock[c].st \in {"open", "backlog"}
                               THEN Closed(sock[c]) ELSE sock[c]]
    /\ backlog' = <<>>
    /\ policy_pending' = [i \in Index |-> FreeSlot]
    /\ policy_pending_max' = -1
    /\ pc' = IF terminate_requested THEN "exited" ELSE "reconnect"
    /\ from_agent' = <<>>
    /\ orphans' = orphans \cup
          {[port |-> from_agent[k].port, domain |-> from_agent[k].domain] :
              k \in {k \in DOMAIN from_agent : from_agent[k].type = "CONNECTION_TERMINATED"}}
    /\ used_vchan_ports' = [i \in Index |-> VCHAN_PORT_UNUSED]
    /\ UNCHANGED <<fds, max_client_fd, child_exited,
                   terminate_requested, protocol_version, vchan_open, to_agent,
                   child, agent, answers, answerer>>
\* handle_agent_restart(), up to the blocking libvchan_client_init(): every
\* local connection is closed, pending requests are forgotten, ports are kept.
handle_agent_restart ==
    /\ pc = "poll"
    /\ ~vchan_open
    /\ clients' = [fd \in Index |-> "INVALID"]
    /\ peer' = [fd \in Index |-> None]
    /\ vchan_port_notify_client' = [i \in Index |-> VCHAN_PORT_UNUSED]
    /\ sock' = [c \in Conn |-> IF sock[c].st \in {"open", "backlog"}
                               THEN Closed(sock[c]) ELSE sock[c]]
    /\ backlog' = <<>>
    /\ policy_pending' = [i \in Index |-> FreeSlot]
    /\ policy_pending_max' = -1
    /\ pc' = IF terminate_requested THEN "exited" ELSE "reconnect"
    /\ from_agent' = <<>>
    /\ orphans' = orphans \cup
          {[port |-> from_agent[k].port, domain |-> from_agent[k].domain] :
              k \in {k \in DOMAIN from_agent : from_agent[k].type = "CONNECTION_TERMINATED"}}
    /\ UNCHANGED <<fds, max_client_fd, used_vchan_ports, child_exited,
                   terminate_requested, protocol_version, vchan_open, to_agent,
                   child, agent, answers, answerer>>

\* The rest of it: an agent of version v is there, or the domain is dead.
handle_agent_restart_reconnected(v) ==
    /\ pc = "reconnect"
    /\ negotiated(v) >= QREXEC_MIN_VERSION
    /\ pc' = "top"
    /\ vchan_open' = TRUE
    /\ agent' = [agent EXCEPT !.version = negotiated(v)]
    /\ UNCHANGED <<fds, clients, max_client_fd, policy_pending, policy_pending_max,
                   used_vchan_ports, vchan_port_notify_client, child_exited,
                   terminate_requested, protocol_version, peer, to_agent, from_agent,
                   localVars, ghostVars>>

handle_agent_restart_failed ==
    /\ pc = "reconnect"
    /\ pc' = "exited"
    /\ UNCHANGED <<fds, clients, max_client_fd, policy_pending, policy_pending_max,
                   used_vchan_ports, vchan_port_notify_client, child_exited,
                   terminate_requested, protocol_version, peer,
                   vchanVars, localVars, agent, ghostVars>>

FreeFds == {fd \in Index : peer[fd] = None}

handle_new_client ==
    /\ pc = "accept"
    /\ fds.listen
    /\ LET c == Head(backlog) IN
       /\ backlog' = Tail(backlog)
       /\ fds' = [fds EXCEPT !.listen = FALSE]
       /\ \/ /\ FreeFds = {}                       \* "too many clients ?"
             /\ pc' = "exited"
             /\ UNCHANGED <<clients, max_client_fd, peer, sock>>
          \/ /\ FreeFds # {}
             /\ sock[c].eof                        \* send_client_hello() failed
             /\ sock' = [sock EXCEPT ![c] = Closed(@)]
             /\ pc' = After["accept"]
             /\ UNCHANGED <<clients, max_client_fd, peer>>
          \/ /\ ~sock[c].eof
             /\ \E fd \in Index :
                   /\ IsFirst(fd, FreeFds)
                   /\ clients' = [clients EXCEPT ![fd] = "HELLO"]
                   /\ peer' = [peer EXCEPT ![fd] = c]
                   /\ max_client_fd' = Max2(max_client_fd, fd)
             /\ sock' = [sock EXCEPT ![c].st = "open"]
             /\ pc' = After["accept"]
    /\ UNCHANGED <<policy_pending, policy_pending_max, used_vchan_ports,
                   vchan_port_notify_client, child_exited, terminate_requested,
                   protocol_version, vchanVars, child, agent, ghostVars>>

skip_phase ==
    /\ \/ pc = "accept" /\ ~fds.listen
       \/ pc = "agent" /\ from_agent = <<>>
       \/ pc = "clients" /\ fds.ready = {}
    /\ pc' = After[pc]
    /\ UNCHANGED <<fds, clients, max_client_fd, policy_pending, policy_pending_max,
                   used_vchan_ports, vchan_port_notify_client, child_exited,
                   terminate_requested, protocol_version, peer,
                   vchanVars, localVars, agent, ghostVars>>

-----------------------------------------------------------------------------
(* Messages from the agent *)

\* sanitize_message_from_agent(): each protocol has its own trigger message
Sane(m) == m.type = "TRIGGER_SERVICE" =>
              (m.version < QREXEC_PROTOCOL_VERSION <=> protocol_version < QREXEC_PROTOCOL_VERSION)

FreeSlots == {i \in Index : policy_pending[i].pid = None}

\* find_policy_pending_slot()
PendingMark(i) == Max2(policy_pending_max, i)

\* handle_execute_service(): fork a policy child for the request, or refuse
\* it when the table is full.  The daemon exits when it cannot fork.
handle_execute_service(m) ==
    \/ /\ FreeSlots = {}
       /\ Deliver(Refused(m.ident), "agent")
       /\ UNCHANGED <<policy_pending, policy_pending_max, child>>
    \/ \E i \in Index, p \in Pid :
          /\ IsFirst(i, FreeSlots)
          /\ child[p].stage = "unborn"
          /\ policy_pending' = [policy_pending EXCEPT ![i] =
                [pid |-> p, ident |-> m.ident, response_sent |-> "PENDING"]]
          /\ policy_pending_max' = PendingMark(i)
          /\ child' = [child EXCEPT ![p].stage = "policy", ![p].ident = m.ident]
          /\ pc' = "agent"
          /\ UNCHANGED to_agent
    \/ /\ FreeSlots # {}                            \* fork() failed
       /\ pc' = "exited"
       /\ UNCHANGED <<policy_pending, policy_pending_max, child, to_agent>>

handle_message_from_agent ==
    /\ pc = "agent"
    /\ from_agent # <<>>
    /\ from_agent' = Tail(from_agent)
    /\ LET m == Head(from_agent) IN
       \/ /\ ~Sane(m)
          /\ pc' = "exited"
          /\ UNCHANGED <<clients, peer, sock, vchan_port_notify_client, used_vchan_ports,
                         policy_pending, policy_pending_max, child, to_agent>>
       \/ /\ Sane(m)
          /\ m.type = "TRIGGER_SERVICE"
          /\ \/ m.valid /\ handle_execute_service(m)
             \/ /\ ~m.valid
                /\ Deliver(Refused(m.ident), "agent")
                /\ UNCHANGED <<policy_pending, policy_pending_max, child>>
          /\ UNCHANGED <<clients, peer, sock, vchan_port_notify_client, used_vchan_ports>>
       \/ /\ m.type = "CONNECTION_TERMINATED"
          /\ release_vchan_port(m.port, m.domain)
          /\ UNCHANGED <<pc, policy_pending, policy_pending_max, child, to_agent>>
    /\ UNCHANGED <<fds, max_client_fd, child_exited, terminate_requested,
                   protocol_version, vchan_open, backlog, agent, ghostVars>>

-----------------------------------------------------------------------------
(* Messages from local clients *)

\* The descriptor to serve next, with the message its connection holds first.
Serving(fd) == /\ pc = "clients"
               /\ IsFirst(fd, {r[1] : r \in fds.ready})
               /\ fds' = [fds EXCEPT !.ready = {r \in @ : r[1] # fd}]
Message(fd) == Head(sock[peer[fd]].inq)
AtEOF(fd) == sock[peer[fd]].inq = <<>>

\* CLIENT_INVALID: the descriptor was closed earlier in this iteration;
\* CLIENT_RUNNING: whatever arrives ends the connection; EOF in any state does.
handle_message_from_client(fd) ==
    /\ Serving(fd)
    /\ \/ /\ clients[fd] = "INVALID"
          /\ UNCHANGED <<clients, peer, sock, vchan_port_notify_client>>
       \/ /\ clients[fd] = "RUNNING" \/ (clients[fd] # "INVALID" /\ AtEOF(fd))
          /\ terminate_client(fd)
    /\ UNCHANGED <<pc, max_client_fd, policy_pending, policy_pending_max, used_vchan_ports,
                   child_exited, terminate_requested, protocol_version, vchanVars, backlog,
                   child, agent, ghostVars>>

handle_client_hello(fd) ==
    /\ Serving(fd)
    /\ clients[fd] = "HELLO"
    /\ ~AtEOF(fd)
    /\ Message(fd).type = "HELLO"
    /\ clients' = [clients EXCEPT ![fd] = "CMDLINE"]
    /\ sock' = [sock EXCEPT ![peer[fd]].inq = Tail(@)]
    /\ UNCHANGED <<pc, max_client_fd, policy_pending, policy_pending_max, used_vchan_ports,
                   vchan_port_notify_client, child_exited, terminate_requested,
                   protocol_version, peer, vchanVars, backlog, child, agent, ghostVars>>

\* Requests that a MSG_SERVICE_CONNECT for ident may answer.
Matching_any_ident(id) == {i \in Index : /\ i <= policy_pending_max
                                         /\ policy_pending[i].pid # None
                                         /\ policy_pending[i].response_sent = "PENDING"}
Matching(id) == {i \in Index : /\ i <= policy_pending_max
                               /\ policy_pending[i].pid # None
                               /\ policy_pending[i].response_sent = "PENDING"
                               /\ policy_pending[i].ident = id}

\* Second half of handle_cmdline_body_from_client(): find the port, tell the
\* client about a new one, forward the message.
ForwardToAgent(fd, m) ==
    LET c == peer[fd]
        fwd(port) == [type |-> m.type, ident |-> m.ident, port |-> port, domain |-> m.domain]
    IN
    \/ /\ m.port = ANY_PORT
       /\ FreePorts(m.domain) = {} \/ sock[c].eof  \* no port; or the reply failed, on
       /\ terminate_client(fd)                     \* which the new port is released
       /\ UNCHANGED <<pc, to_agent, used_vchan_ports>>
    \/ /\ m.port = ANY_PORT
       /\ ~sock[c].eof
       /\ \E i \in Index :
             /\ IsFirst(i, FreePorts(m.domain))
             /\ used_vchan_ports' = [used_vchan_ports EXCEPT ![i] = m.domain]
             /\ vchan_port_notify_client' = [vchan_port_notify_client EXCEPT ![i] = fd]
             /\ Deliver(fwd(i), "clients")
       /\ clients' = [clients EXCEPT ![fd] = "RUNNING"]
       /\ sock' = [sock EXCEPT ![c].inq = Tail(@), ![c].replied = TRUE]
       /\ UNCHANGED peer
    \/ /\ m.port # ANY_PORT
       /\ Deliver(fwd(m.port), "clients")
       /\ clients' = [clients EXCEPT ![fd] = "RUNNING"]
       /\ sock' = [sock EXCEPT ![c].inq = Tail(@)]
       /\ UNCHANGED <<used_vchan_ports, vchan_port_notify_client, peer>>

Forwarded == to_agent' # to_agent

handle_cmdline_message_from_client(fd) ==
    /\ Serving(fd)
    /\ clients[fd] = "CMDLINE"
    /\ ~AtEOF(fd)
    /\ LET m == Message(fd) IN
       \/ /\ m.type = "EXEC"
          /\ ForwardToAgent(fd, m)
          /\ UNCHANGED <<policy_pending, answers, answerer>>
       \/ /\ m.type = "SERVICE_CONNECT"
          /\ Matching(m.ident) = {}                \* not requested or already handled
          /\ terminate_client(fd)
          /\ UNCHANGED <<pc, to_agent, used_vchan_ports, policy_pending, answers, answerer>>
       \/ /\ m.type = "SERVICE_CONNECT"
          /\ \E i \in Index :
                /\ IsFirst(i, Matching(m.ident))
                /\ policy_pending' = [policy_pending EXCEPT ![i].response_sent = "ALLOW"]
                /\ ForwardToAgent(fd, m)
                /\ LET p == policy_pending[i].pid IN
                   /\ answers' = [answers EXCEPT ![p] = IF Forwarded THEN @ + 1 ELSE @]
                   /\ answerer' = [answerer EXCEPT ![p] = IF Forwarded THEN peer[fd] ELSE @]
    /\ UNCHANGED <<max_client_fd, policy_pending_max, child_exited, terminate_requested,
                   protocol_version, vchan_open, from_agent, backlog, child, agent, orphans>>

-----------------------------------------------------------------------------
(* Policy children: handle_execute_service_child() and what it calls *)

Listening == pc \notin {"reconnect", "exited"}

ChildExits(p, status) ==
    /\ pc # "exited"
    /\ child' = [child EXCEPT ![p] = [Unborn EXCEPT !.stage = "zombie", !.status = status]]
    /\ UNCHANGED <<daemonVars, vchanVars, agent, ghostVars>>

\* Denied, or any failure before the child connects to this daemon.
child_refused(p) ==
    /\ child[p].stage = "policy"
    /\ ChildExits(p, "nonzero")
    /\ UNCHANGED <<backlog, sock>>

\* Allowed: to dom0 (run_qrexec_to_dom0) or to a VM whose daemon gave out
\* port q (qrexec_execute_vm).
child_connect(p, d, q) ==
    /\ child[p].stage = "policy"
    /\ Listening
    /\ child' = [child EXCEPT ![p].stage = "connecting", ![p].dest = d, ![p].port = q]
    /\ backlog' = Append(backlog, p)
    /\ sock' = [sock EXCEPT ![p].st = "backlog"]
    /\ UNCHANGED <<daemonVars, vchanVars, agent, ghostVars>>

\* The daemon's HELLO has arrived: answer it and ask for the connection.  A
\* call to a VM needs no reply, so the child closes the socket at once.
send_service_connect(p) ==
    /\ pc # "exited"
    /\ child[p].stage = "connecting"
    /\ sock[p].st = "open"
    /\ sock' = [sock EXCEPT
          ![p].inq = <<Hello, [type |-> "SERVICE_CONNECT", ident |-> child[p].ident,
                               port |-> child[p].port, domain |-> child[p].dest]>>,
          ![p].eof = child[p].dest # 0]
    /\ child' = [child EXCEPT ![p].stage = "sent"]
    /\ UNCHANGED <<daemonVars, vchanVars, backlog, agent, ghostVars>>

AwaitsDaemon(p) == \/ child[p].stage = "connecting"
                   \/ child[p].stage = "sent" /\ child[p].dest = 0 /\ ~sock[p].replied

child_disconnected(p) ==
    /\ AwaitsDaemon(p)
    /\ sock[p].st = "gone"
    /\ ChildExits(p, "nonzero")
    /\ UNCHANGED <<backlog, sock>>

child_exit(p) ==
    /\ child[p].stage = "sent"
    /\ ~AwaitsDaemon(p)
    /\ sock' = [sock EXCEPT ![p].eof = TRUE]
    /\ \E status \in {"zero", "nonzero"} :
          /\ child[p].dest # 0 => status = "zero"
          /\ ChildExits(p, status)
    /\ UNCHANGED backlog

child_killed(p) ==
    /\ child[p].stage \in {"policy", "connecting", "sent"}
    /\ Cardinality({k \in Pid : child[k].status = "signal"}) < MaxKills
    /\ sock' = [sock EXCEPT ![p].eof = TRUE]
    /\ ChildExits(p, "signal")
    /\ UNCHANGED backlog

-----------------------------------------------------------------------------
(* Local clients: qrexec-client, and policy children of other daemons that   *)
(* ask this one to start a service in its VM                                 *)

UserStep == pc # "exited" /\ UNCHANGED <<daemonVars, vchanVars, child, agent, ghostVars>>

user_connect(u) ==
    /\ Listening
    /\ sock[u].st = "none"
    /\ backlog' = Append(backlog, u)
    /\ sock' = [sock EXCEPT ![u].st = "backlog"]
    /\ UserStep

negotiate_connection_params(u, d) ==
    /\ \E fd \in Index : peer[fd] = u /\ clients[fd] = "HELLO"
    /\ sock[u].inq = <<>>
    /\ ~sock[u].eof
    /\ sock' = [sock EXCEPT ![u].inq = <<Hello, [type |-> "EXEC", ident |-> None,
                                                port |-> ANY_PORT, domain |-> d]>>]
    /\ UNCHANGED backlog
    /\ UserStep

user_close(u) ==
    /\ sock[u].st \in {"backlog", "open"}
    /\ ~sock[u].eof
    /\ sock' = [sock EXCEPT ![u].eof = TRUE]
    /\ UNCHANGED backlog
    /\ UserStep

-----------------------------------------------------------------------------
(* The agent, as far as this daemon can tell: see module QrexecAgent *)

AgentStep == pc # "exited" /\ UNCHANGED <<daemonVars, localVars, answers, answerer>>

\* An identifier names an open socket of the agent: it is not used again
\* before the request was refused or its connection has ended.
agent_trigger(id, ok) ==
    /\ vchan_open
    /\ id \notin agent.busy
    /\ Len(from_agent) < VCHAN_SPACE
    /\ Cardinality({k \in DOMAIN from_agent : from_agent[k].type = "TRIGGER_SERVICE"})
          < Cardinality({p \in Pid : child[p].stage = "unborn"})
    /\ from_agent' = Append(from_agent, [type |-> "TRIGGER_SERVICE", version |-> agent.version,
                                          ident |-> id, valid |-> ok])
    /\ agent' = [agent EXCEPT !.busy = @ \cup {id}]
    /\ UNCHANGED <<vchan_open, to_agent, orphans>>
    /\ AgentStep

agent_receive ==
    /\ vchan_open
    /\ to_agent # <<>>
    /\ to_agent' = Tail(to_agent)
    /\ LET m == Head(to_agent) IN
       agent' = IF m.type = "SERVICE_REFUSED"
                THEN [agent EXCEPT !.busy = @ \ {m.ident}]
                ELSE [agent EXCEPT !.conns = @ \cup
                        {[ident |-> m.ident, port |-> m.port, domain |-> m.domain]}]
    /\ UNCHANGED <<vchan_open, from_agent, orphans>>
    /\ AgentStep

agent_terminated(c) ==
    /\ vchan_open
    /\ c \in agent.conns
    /\ Len(from_agent) < VCHAN_SPACE
    /\ from_agent' = Append(from_agent, [type |-> "CONNECTION_TERMINATED",
                                          port |-> c.port, domain |-> c.domain])
    /\ agent' = [agent EXCEPT !.conns = @ \ {c}, !.busy = @ \ {c.ident}]
    /\ UNCHANGED <<vchan_open, to_agent, orphans>>
    /\ AgentStep

\* The connections an agent had, or was about to be told of, outlive it.
agent_crash ==
    /\ vchan_open
    /\ agent.crashes < MaxCrashes
    /\ vchan_open' = FALSE
    /\ orphans' = orphans \cup
          {[port |-> c.port, domain |-> c.domain] :
              c \in agent.conns \cup
                    {to_agent[k] : k \in {k \in DOMAIN to_agent :
                                             to_agent[k].type # "SERVICE_REFUSED"}}}
    /\ to_agent' = <<>>
    /\ agent' = [agent EXCEPT !.busy = {}, !.conns = {}, !.crashes = @ + 1]
    /\ UNCHANGED from_agent
    /\ AgentStep

-----------------------------------------------------------------------------

Daemon ==
    \/ loop_top
    \/ \E p \in Pid : reap_children(p)
    \/ reap_children_done
    \/ ppoll_ready
    \/ ppoll_eintr
    \/ handle_agent_restart
    \/ \E v \in AgentVersions : handle_agent_restart_reconnected(v)
    \/ handle_agent_restart_failed
    \/ handle_new_client
    \/ skip_phase
    \/ handle_message_from_agent
    \/ \E fd \in Index : \/ handle_message_from_client(fd)
                         \/ handle_client_hello(fd)
                         \/ handle_cmdline_message_from_client(fd)

Child(p) ==
    \/ child_refused(p)
    \/ \E d \in Domain :
          \/ d = 0 /\ child_connect(p, d, ANY_PORT)
          \/ d # 0 /\ \E q \in OtherDaemonPorts(d) : child_connect(p, d, q)
    \/ send_service_connect(p)
    \/ child_disconnected(p)
    \/ child_exit(p)

LocalUser(u) ==
    \/ user_connect(u)
    \/ \E d \in Domain : negotiate_connection_params(u, d)
    \/ user_close(u)

Agent ==
    \/ \E id \in Ident, ok \in TriggerValid : agent_trigger(id, ok)
    \/ agent_receive
    \/ \E c \in agent.conns : agent_terminated(c)
    \/ agent_crash

\* Nothing is said about the rest of the system once the daemon has exited.
Exited == pc = "exited" /\ UNCHANGED vars

Next ==
    \/ Daemon
    \/ signal_handler_sigterm
    \/ \E p \in Pid : Child(p) \/ child_killed(p)
    \/ \E u \in User : LocalUser(u)
    \/ Agent
    \/ Exited

Spec == Init /\ [][Next]_vars

\* The daemon's loop and its children are running programs, and a live agent
\* keeps draining its vchan; clients, signals and crashes are under no duty.
Fairness ==
    /\ WF_vars(Daemon)
    /\ \A p \in Pid : WF_vars(Child(p))
    /\ WF_vars(agent_receive)

FairSpec == Spec /\ Fairness

-----------------------------------------------------------------------------
(* Properties *)

LoopTypes ==
    /\ pc \in Phase
    /\ fds \in [listen : BOOLEAN, ready : SUBSET (Index \X Conn)]
    /\ child_exited \in BOOLEAN
    /\ terminate_requested \in BOOLEAN
    /\ protocol_version \in Nat
ClientTypes ==
    /\ clients \in [Index -> client_state]
    /\ max_client_fd \in Index \cup {-1}
    /\ peer \in [Index -> Conn \cup {None}]
    /\ backlog \in Seq(Conn)
    /\ sock \in [Conn -> Socket]
PendingTypes ==
    /\ policy_pending \in [Index -> policy_pending_t]
    /\ policy_pending_max \in Index \cup {-1}
    /\ child \in [Pid -> ChildProcess]
    /\ answers \in [Pid -> Nat]
    /\ answerer \in [Pid -> Conn \cup {None}]
PortTypes ==
    /\ used_vchan_ports \in [Index -> Domain \cup {VCHAN_PORT_UNUSED}]
    /\ vchan_port_notify_client \in [Index -> Index \cup {VCHAN_PORT_UNUSED}]
    /\ orphans \in SUBSET [port : Index, domain : Domain]
VchanTypes ==
    /\ vchan_open \in BOOLEAN
    /\ to_agent \in Seq(ToAgentMsg)
    /\ from_agent \in Seq(FromAgentMsg)
    /\ agent \in AgentState

\* The tables, queues and processes hold values of their types.
TypeOK == LoopTypes /\ ClientTypes /\ PendingTypes /\ PortTypes /\ VchanTypes

\* handle_cmdline_body_from_client() and reap_children() never answer one
\* service request twice, whatever the order of the child's message, its exit
\* and other children with the same identifier.
AnsweredAtMostOnce == \A p \in Pid : answers[p] <= 1

\* The scans that stop at policy_pending_max and max_client_fd miss no entry:
\* every request in the table and every live client lies below the mark.
MarksCoverTables ==
    \A i \in Index : /\ policy_pending[i].pid # None => i <= policy_pending_max
                     /\ clients[i] # "INVALID" => i <= max_client_fd

\* terminate_client() and release_vchan_port() keep ports and clients in step:
\* the client to notify is running, waits for one port only, and its port is
\* reserved.
NotifyConsistent ==
    \A i \in Index :
        LET fd == vchan_port_notify_client[i] IN
        fd # VCHAN_PORT_UNUSED =>
            /\ clients[fd] = "RUNNING"
            /\ used_vchan_ports[i] # VCHAN_PORT_UNUSED
            /\ \A j \in Index : vchan_port_notify_client[j] = fd => j = i

\* A client that was given a port is told when its connection ends: until the
\* daemon closes its socket, it is the one to notify for a port.
RunningClientNotified ==
    \A fd \in Index :
        /\ clients[fd] = "RUNNING"
        /\ sock[peer[fd]].replied
        => \E i \in Index : vchan_port_notify_client[i] = fd

\* The client loop serves a descriptor only for the connection that ppoll()
\* reported: closing one in the agent phase cannot let a connection accepted
\* later in the same iteration be read in its place (and block the daemon).
NoStaleDescriptor ==
    \A r \in fds.ready : clients[r[1]] = "INVALID" \/ peer[r[1]] = r[2]

\* The connections on port i that this daemon allocated and whose end it has
\* not been told of: announced to the agent, held by it, reported by it, or
\* left behind by an agent that crashed.
Own(c, i) == c.port = i /\ i \in OwnPorts(c.domain)
Announced(i) == {k \in DOMAIN to_agent : /\ to_agent[k].type # "SERVICE_REFUSED"
                                         /\ Own(to_agent[k], i)}
Held(i) == {c \in agent.conns : Own(c, i)}
Reported(i) == {k \in DOMAIN from_agent : /\ from_agent[k].type = "CONNECTION_TERMINATED"
                                          /\ Own(from_agent[k], i)}
LeftBehind(i) == {c \in orphans : Own(c, i)}
LiveOn(i) == Cardinality(Announced(i)) + Cardinality(Held(i))
             + Cardinality(Reported(i)) + Cardinality(LeftBehind(i))

\* allocate_vchan_port() and release_vchan_port(), also across restarts of the
\* agent: a port is never given to a second connection while the first may
\* still use it, and none is lost - a reserved port belongs to one connection,
\* a free one to none.
PortAccounted ==
    pc # "exited" =>
        \A i \in Index : LiveOn(i) = IF used_vchan_ports[i] = VCHAN_PORT_UNUSED THEN 0 ELSE 1

\* "in case of allowed calls, we will do the rest in MSG_SERVICE_CONNECT from
\* client handler": a request whose child reported success was connected.
AllowedCallConnected ==
    \A p \in Pid : child[p].stage = "reaped" /\ child[p].status = "zero" => answers[p] = 1

\* handle_cmdline_body_from_client() finds the request by its identifier: the
\* one it connects is the one whose own child asked for it.
AnsweredByOwnChild == \A p \in Pid : answerer[p] \in {None, p}

\* The requests the daemon leaves without an answer: the child succeeded and
\* was reaped before its message was read (AllowedCallConnected is about that);
\* the child was killed by a signal, on which reap_children() does nothing; the
\* request was marked RESPONSE_ALLOW and then no port was free for it, so that
\* the child's failure is no reason to refuse it any more; the agent that made
\* the request has crashed.  A daemon that has exited answers nothing either.
LeftUnanswered(p) ==
    \/ child[p].stage = "reaped" /\ child[p].status = "zero"
    \/ child[p].status = "signal"
    \/ /\ FreePorts(0) = {}
       /\ \E i \in Slot(p) : policy_pending[i].response_sent = "ALLOW"
    \/ agent.crashes > 0
    \/ pc = "exited"

\* From some time on the agent makes no requests.
AgentPauses == <>[][\A id \in Ident, ok \in TriggerValid : ~agent_trigger(id, ok)]_vars

\* Every request for which a policy child was forked is connected or refused,
\* but for the cases above.  The daemon serves its agent for as long as there
\* are messages, and only then its clients; SIGCHLD is blocked while any
\* descriptor is ready: an agent that never pauses keeps it from both.
RequestAnswered ==
    AgentPauses =>
        \A p \in Pid : child[p].stage = "policy" ~> answers[p] = 1 \/ LeftUnanswered(p)

=============================================================================
