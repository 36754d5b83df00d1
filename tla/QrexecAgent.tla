---------------------------- MODULE QrexecAgent ----------------------------
(***************************************************************************)
(* agent/qrexec-agent.c: the agent of a VM.  It passes the requests of     *)
(* qrexec-client-vm processes (clients) to the daemon, starts what the     *)
(* daemon asks for, and reports the end of every connection with           *)
(* MSG_CONNECTION_TERMINATED.  One step of the agent is one handler of its *)
(* main loop, or one round of a loop in a handler that writes to the       *)
(* control vchan, as such a write can block.  The daemon here is any       *)
(* daemon that answers a request once (see QrexecDaemon).                  *)
(***************************************************************************)
EXTENDS Integers, Sequences, FiniteSets

CONSTANTS
    MAX_FDS,                   \* size of both tables
    MAX_OPEN,                  \* descriptors the agent may open (RLIMIT_NOFILE)
    Client,                    \* qrexec-client-vm processes
    Conn,                      \* connections the daemon can name: <domain, port>
    Pid,                       \* process ids; fork() fails when all are taken
    None,
    VCHAN_SPACE,               \* messages each ring of the control vchan holds
    MayTerminate               \* whether SIGTERM is ever sent

ASSUME AgentAssumption ==
    /\ MAX_FDS \in Nat \ {0}
    /\ MAX_OPEN \in Nat \ {0}
    /\ VCHAN_SPACE \in Nat \ {0}
    /\ MayTerminate \in BOOLEAN
    /\ None \notin Client \cup Conn \cup Pid
    /\ None \notin Int
    /\ Client \cap Conn = {}
    /\ Pid \cap (Client \cup Conn) = {}
    /\ {0, -1} \cap (Pid \cup Client \cup Conn) = {}

VARIABLES
    pc,                        \* where the agent is in its main loop
    connection_info, requests_waiting_for_session, wait_for_session_pid,
    child_exited, terminate_requested,
    fds,                       \* fds[1].revents, and what is left of fds[2..]
    scan,                      \* next index of the loop over connection_info
    fdt,                       \* who is behind each open descriptor
    backlog,                   \* connections waiting for accept()
    client,                    \* the qrexec-client-vm processes
    fork_server,               \* processes the fork server runs, by connection
    proc,                      \* children of the agent
    to_agent, to_daemon,       \* the rings of the control vchan
    asked,                     \* the daemon: requests not answered
    used,                      \* the daemon: connections it holds a port for
    requester                  \* history: whose request an identifier stands for

tables == <<connection_info, requests_waiting_for_session, wait_for_session_pid>>
flags  == <<child_exited, terminate_requested>>
polled == <<fds, scan>>
peers  == <<fdt, backlog, client, fork_server, proc>>
daemon == <<asked, used>>
vars == <<pc, tables, flags, polled, peers, to_agent, to_daemon, daemon, requester>>

-----------------------------------------------------------------------------
(* State *)

Fd == 1 .. MAX_OPEN
Slot == 1 .. MAX_FDS
Phase == {"top", "reap", "flush", "poll", "scan", "cmds", "trigger", "exited", "aborted"}

\* pid is 0 in a free slot and -1 in one that is watched by its descriptor
connection_info_t == [pid : Pid \cup {0, -1}, fd : Fd \cup {-1}, conn : Conn \cup {None}]
FreeSlot == [pid |-> 0, fd |-> -1, conn |-> None]

pollfd == [fd : Fd, revents : BOOLEAN]

\* A client connects to the trigger socket, writes its request, is told its
\* connection, and closes; it may be killed, and so close, at any time, and
\* then does not see the connection that is written to its socket.
ClientState == [st : {"idle", "connected", "sent", "closed"}, conn : Conn \cup {None}]
Idle == [st |-> "idle", conn |-> None]

\* A child serves a connection, or waits for the session (conn = None)
Process == [st : {"none", "running", "zombie"}, conn : Conn \cup {None}]
NoProc == [st |-> "none", conn |-> None]

\* MSG_EXEC_CMDLINE and MSG_JUST_EXEC are one kind: the agent treats them alike.
\* The identifier "SOCKET<fd>" of a request is the descriptor.
ToAgentMsg ==
    [type : {"EXEC"}, conn : Conn]
        \cup [type : {"SERVICE_CONNECT"}, fd : Fd, conn : Conn]
        \cup [type : {"SERVICE_REFUSED"}, fd : Fd]
ToDaemonMsg ==
    [type : {"TRIGGER_SERVICE"}, fd : Fd]
        \cup [type : {"CONNECTION_TERMINATED"}, conn : Conn]

Init ==
    /\ pc = "top"
    /\ connection_info = [i \in Slot |-> FreeSlot]
    /\ requests_waiting_for_session = <<>>
    /\ wait_for_session_pid = -1
    /\ child_exited = FALSE
    /\ terminate_requested = FALSE
    /\ fds = [trigger |-> FALSE, rest |-> <<>>]
    /\ scan = 1
    /\ fdt = [f \in Fd |-> None]
    /\ backlog = <<>>
    /\ client = [c \in Client |-> Idle]
    /\ fork_server = [k \in Conn |-> "none"]
    /\ proc = [p \in Pid |-> NoProc]
    /\ to_agent = <<>>
    /\ to_daemon = <<>>
    /\ asked = {}
    /\ used = {}
    /\ requester = [f \in Fd |-> None]

-----------------------------------------------------------------------------
(* Pieces several handlers share *)

Lowest(S) == {i \in S : \A j \in S : i <= j}

FreeFds == {f \in Fd : fdt[f] = None}
FreePids == {p \in Pid : proc[p].st = "none"}
Zombies == {p \in Pid : proc[p].st = "zombie"}

\* libvchan_send() blocks while the ring is full
Send(m) ==
    /\ Len(to_daemon) < VCHAN_SPACE
    /\ to_daemon' = Append(to_daemon, m)

FreeSlots == {i \in Slot : connection_info[i].pid = 0}
\* A connection that finds no free slot is only logged.
register_vchan_connection(pid, fd, conn) ==
    \/ FreeSlots = {} /\ UNCHANGED connection_info
    \/ \E i \in Lowest(FreeSlots) :
          connection_info' = [connection_info EXCEPT ![i] = [pid |-> pid, fd |-> fd, conn |-> conn]]

terminate_connection(conn) == Send([type |-> "CONNECTION_TERMINATED", conn |-> conn])

release_connection_slot_kept(i) ==
    /\ terminate_connection(connection_info[i].conn)
    /\ UNCHANGED connection_info
release_connection(i) ==
    /\ terminate_connection(connection_info[i].conn)
    /\ connection_info' = [connection_info EXCEPT ![i] = FreeSlot]

\* close(): a client that waits for its connection reads EOF and ends, and
\* what had closed its own end is gone; what serves a connection goes on.
Gone(x) == client[x].st = "closed" \/ client[x].conn = None
Close(f) ==
    /\ fdt' = [fdt EXCEPT ![f] = None]
    /\ client' = IF fdt[f] \in Client /\ Gone(fdt[f]) THEN [client EXCEPT ![fdt[f]] = Idle]
                 ELSE client
    /\ fork_server' = IF fdt[f] \in Conn /\ fork_server[fdt[f]] = "closed"
                      THEN [fork_server EXCEPT ![fdt[f]] = "none"]
                      ELSE fork_server

try_fork_server_closed(conn) ==
    /\ \E s \in Lowest(FreeFds) : register_vchan_connection(-1, s, conn)
    /\ fork_server' = [fork_server EXCEPT ![conn] = "running"]
    /\ UNCHANGED <<fdt, proc>>
\* A request the fork server takes, or else a child process does.
try_fork_server(conn) ==
    /\ \E s \in Lowest(FreeFds) :
       /\ fdt' = [fdt EXCEPT ![s] = conn]
       /\ register_vchan_connection(-1, s, conn)
    /\ fork_server' = [fork_server EXCEPT ![conn] = "running"]
    /\ UNCHANGED proc
handle_new_process(conn) ==
    /\ \/ \E p \in FreePids :
             /\ proc' = [proc EXCEPT ![p] = [st |-> "running", conn |-> conn]]
             /\ register_vchan_connection(p, -1, conn)
       \/ /\ FreePids = {}                         \* fork() fails
          /\ register_vchan_connection(-1, -1, conn)
          /\ UNCHANGED proc
    /\ UNCHANGED <<fdt, fork_server>>

\* handle_server_exec_request_do(), for a command and for MSG_SERVICE_CONNECT.
handle_server_exec_request_do(conn) ==
    /\ try_fork_server(conn) \/ handle_new_process(conn)
    /\ UNCHANGED client
service_connect_do(f, conn) ==
    /\ IF fdt[f] = None                            \* EBADF: ignored
       THEN UNCHANGED <<client, connection_info>>
       ELSE /\ client' = IF fdt[f] \in Client      \* EPIPE: ignored
                         THEN [client EXCEPT ![fdt[f]].conn = conn]
                         ELSE client
            /\ register_vchan_connection(-1, f, conn)
    /\ UNCHANGED <<fdt, fork_server, proc>>

-----------------------------------------------------------------------------
(* The main loop *)

loop_top ==
    /\ pc = "top"
    /\ pc' = IF terminate_requested THEN "exited"
             ELSE IF child_exited THEN "reap" ELSE "poll"
    /\ UNCHANGED <<tables, flags, polled, peers, to_agent, to_daemon, daemon, requester>>

SlotsOf_any(p) == {i \in Slot : connection_info[i].pid # 0}
\* find_connection()
SlotsOf(p) == {i \in Slot : connection_info[i].pid = p}

\* reap_children(): one round of the waitpid() loop
reap_children(p) ==
    /\ pc = "reap"
    /\ p \in Zombies
    /\ proc' = [proc EXCEPT ![p] = NoProc]
    /\ IF p = wait_for_session_pid
       THEN pc' = "flush" /\ UNCHANGED <<connection_info, to_daemon>>
       ELSE /\ pc' = "reap"
            /\ IF SlotsOf(p) = {} THEN UNCHANGED <<connection_info, to_daemon>>
               ELSE \E i \in Lowest(SlotsOf(p)) : release_connection(i)
    /\ UNCHANGED <<requests_waiting_for_session, wait_for_session_pid, flags, polled, fdt,
                   backlog, client, fork_server, to_agent, daemon, requester>>

reap_children_session_over ==
    /\ pc = "flush"
    /\ wait_for_session_pid' = -1
    /\ pc' = "reap"
    /\ UNCHANGED <<connection_info, requests_waiting_for_session, flags, polled, peers,
                   to_agent, to_daemon, daemon, requester>>
\* ... the session has started: the requests that waited for it are served
reap_children_session ==
    /\ pc = "flush"
    /\ IF requests_waiting_for_session = <<>>
       THEN /\ wait_for_session_pid' = -1
            /\ pc' = "reap"
            /\ UNCHANGED <<connection_info, requests_waiting_for_session, client, fdt,
                           fork_server, proc>>
       ELSE /\ handle_server_exec_request_do(Head(requests_waiting_for_session))
            /\ requests_waiting_for_session' = Tail(requests_waiting_for_session)
            /\ UNCHANGED <<pc, wait_for_session_pid>>
    /\ UNCHANGED <<flags, polled, backlog, to_agent, to_daemon, daemon, requester>>

reap_children_done ==
    /\ pc = "reap"
    /\ Zombies = {}
    /\ child_exited' = FALSE
    /\ pc' = "poll"
    /\ UNCHANGED <<tables, terminate_requested, polled, peers, to_agent, to_daemon, daemon,
                   requester>>

\* Local sources are polled only while the control vchan has room.
HaveSpace == Len(to_daemon) < VCHAN_SPACE
Watched == {i \in Slot : connection_info[i].pid # 0 /\ connection_info[i].fd # -1}
\* A watched descriptor gets ready by being closed only: neither a client nor the
\* fork server writes on it any more.
Hup(f) == \/ fdt[f] = None                         \* POLLNVAL
          \/ fdt[f] \in Client /\ client[fdt[f]].st = "closed"
          \/ fdt[f] \in Conn /\ fork_server[fdt[f]] = "closed"
\* fds[2..]: the watched descriptors in the order of their slots
ToPoll == IF HaveSpace THEN Watched ELSE {}
Ordered(S) == {g \in UNION {[1 .. n -> S] : n \in 0 .. MAX_FDS} :
                  /\ \A m, n \in DOMAIN g : m < n => g[m] < g[n]
                  /\ \A i \in S : \E n \in DOMAIN g : g[n] = i}
PollSet(g) == [n \in DOMAIN g |-> [fd |-> connection_info[g[n]].fd,
                                  revents |-> Hup(connection_info[g[n]].fd)]]
LocalReady == HaveSpace /\ (backlog # <<>> \/ \E i \in Watched : Hup(connection_info[i].fd))

\* ppoll() reports what is ready; with no ready descriptor a pending signal
\* interrupts it, and else it times out.  Data in the vchan need not make its
\* descriptor ready: a libvchan_send() that waited has consumed the event.
ppoll_ready ==
    /\ pc = "poll"
    /\ LocalReady \/ to_agent # <<>> \/ Zombies = {}
    /\ \E g \in Ordered(ToPoll) :
          /\ fds' = [trigger |-> HaveSpace /\ backlog # <<>>, rest |-> PollSet(g)]
          /\ pc' = IF g = <<>> THEN "cmds" ELSE "scan"
    /\ UNCHANGED <<scan, tables, flags, peers, to_agent, to_daemon, daemon, requester>>

ppoll_eintr_unnoticed ==
    /\ pc = "poll"
    /\ ~LocalReady
    /\ Zombies # {} \/ terminate_requested
    /\ pc' = "top"
    /\ UNCHANGED <<tables, flags, polled, peers, to_agent, to_daemon, daemon, requester>>
ppoll_eintr ==
    /\ pc = "poll"
    /\ ~LocalReady
    /\ Zombies # {} \/ terminate_requested
    /\ child_exited' = (child_exited \/ Zombies # {})   \* sigchld_handler()
    /\ pc' = "top"
    /\ UNCHANGED <<tables, terminate_requested, polled, peers, to_agent, to_daemon, daemon,
                   requester>>

sigterm_handler ==
    /\ MayTerminate
    /\ pc \notin {"exited", "aborted"}
    /\ terminate_requested' = TRUE
    /\ UNCHANGED <<pc, tables, child_exited, polled, peers, to_agent, to_daemon, daemon,
                   requester>>

handle_terminated_fork_client_compacting(i) ==
    /\ Close(connection_info[i].fd)
    /\ terminate_connection(connection_info[i].conn)
    /\ connection_info' = [j \in Slot |-> IF j < i THEN connection_info[j]
                                         ELSE IF j = MAX_FDS THEN FreeSlot
                                         ELSE connection_info[j + 1]]
handle_terminated_fork_client(i) ==
    /\ Close(connection_info[i].fd)
    /\ release_connection(i)

\* main(): one round of the loop over connection_info, with its assertions
scan_connection_info ==
    /\ pc = "scan"
    /\ IF scan > MAX_FDS
       THEN /\ pc' = IF fds.rest = <<>> THEN "cmds" ELSE "aborted"
            /\ scan' = 1
            /\ UNCHANGED <<connection_info, fds, fdt, client, fork_server, to_daemon>>
       ELSE IF scan \notin Watched
       THEN /\ scan' = scan + 1
            /\ UNCHANGED <<pc, connection_info, fds, fdt, client, fork_server, to_daemon>>
       ELSE IF fds.rest = <<>> \/ Head(fds.rest).fd # connection_info[scan].fd
       THEN /\ pc' = "aborted"
            /\ UNCHANGED <<connection_info, polled, fdt, client, fork_server, to_daemon>>
       ELSE /\ IF Head(fds.rest).revents THEN handle_terminated_fork_client(scan)
               ELSE UNCHANGED <<connection_info, fdt, client, fork_server, to_daemon>>
            /\ fds' = [fds EXCEPT !.rest = Tail(@)]
            /\ scan' = scan + 1
            /\ UNCHANGED pc
    /\ UNCHANGED <<requests_waiting_for_session, wait_for_session_pid, flags, backlog, proc,
                   to_agent, daemon, requester>>


\* handle_server_cmd() with handle_server_exec_request_init(): a command is
\* postponed if its configuration asks for a session, none was seen to start,
\* and a process waits for one; a full table of postponed requests, or a
\* pipe() or fork() that fails, makes it start at once.  With nobody waiting
\* the table is empty, so only the first of the two can meet a full table.
wait_for_session_maybe ==
    \/ wait_for_session_pid # -1 /\ UNCHANGED <<wait_for_session_pid, proc>>
    \/ /\ wait_for_session_pid = -1
       /\ \E p \in FreePids :
             /\ wait_for_session_pid' = p
             /\ proc' = [proc EXCEPT ![p] = [st |-> "running", conn |-> None]]
postpone(conn) ==
    /\ Len(requests_waiting_for_session) < MAX_FDS
    /\ wait_for_session_maybe
    /\ requests_waiting_for_session' = Append(requests_waiting_for_session, conn)
    /\ UNCHANGED <<connection_info, fdt, client, fork_server>>
handle_server_exec_request_init(m) ==
    \/ m.type = "EXEC" /\ postpone(m.conn)
    \/ /\ \/ m.type = "EXEC" /\ handle_server_exec_request_do(m.conn)
          \/ m.type = "SERVICE_CONNECT" /\ service_connect_do(m.fd, m.conn)
       /\ UNCHANGED <<requests_waiting_for_session, wait_for_session_pid>>

handle_service_refused_kept_open(f) ==
    UNCHANGED <<tables, fdt, client, fork_server, proc>>
handle_service_refused(f) ==
    /\ Close(f)
    /\ UNCHANGED <<tables, proc>>

handle_server_cmd ==
    /\ pc = "cmds"
    /\ to_agent # <<>>
    /\ LET m == Head(to_agent) IN
       /\ IF m.type = "SERVICE_REFUSED" THEN handle_service_refused(m.fd)
          ELSE handle_server_exec_request_init(m)
       /\ requester' = IF m.type = "EXEC" THEN requester
                       ELSE [requester EXCEPT ![m.fd] = None]
    /\ to_agent' = Tail(to_agent)
    /\ UNCHANGED <<pc, flags, polled, backlog, to_daemon, daemon>>

no_server_cmd ==
    /\ pc = "cmds"
    /\ to_agent = <<>>
    /\ pc' = "trigger"
    /\ UNCHANGED <<tables, flags, polled, peers, to_agent, to_daemon, daemon, requester>>

\* handle_trigger_io(): accepts, and reads a whole request, blocking until the
\* client has written it or closed.  A request it cannot read, or that is
\* malformed, is dropped with its connection; accept() failing ends the agent.
handle_trigger_io_accept_failed ==
    /\ pc = "trigger"
    /\ fds.trigger
    /\ FreeFds = {}
    /\ pc' = "exited"
    /\ UNCHANGED <<tables, flags, polled, peers, to_agent, to_daemon, daemon, requester>>
handle_trigger_io_error ==
    /\ pc = "trigger"
    /\ fds.trigger
    /\ FreeFds # {}
    /\ client[Head(backlog)].st = "closed"
    /\ client' = [client EXCEPT ![Head(backlog)] = Idle]
    /\ backlog' = Tail(backlog)
    /\ fds' = [fds EXCEPT !.trigger = FALSE]
    /\ pc' = "top"
    /\ UNCHANGED <<tables, flags, scan, fdt, fork_server, proc, to_agent, to_daemon, daemon,
                   requester>>
handle_trigger_io_closing ==
    /\ pc = "trigger"
    /\ fds.trigger
    /\ client[Head(backlog)].st = "sent"
    /\ \E f \in Lowest(FreeFds) :
       /\ Send([type |-> "TRIGGER_SERVICE", fd |-> f])
       /\ requester' = [requester EXCEPT ![f] = Head(backlog)]
    /\ backlog' = Tail(backlog)
    /\ fds' = [fds EXCEPT !.trigger = FALSE]
    /\ pc' = "top"
    /\ UNCHANGED <<tables, flags, scan, client, fdt, fork_server, proc, to_agent, daemon>>
handle_trigger_io ==
    /\ pc = "trigger"
    /\ fds.trigger
    /\ client[Head(backlog)].st = "sent"
    /\ \E f \in Lowest(FreeFds) :
       /\ fdt' = [fdt EXCEPT ![f] = Head(backlog)]
       /\ Send([type |-> "TRIGGER_SERVICE", fd |-> f])
       /\ requester' = [requester EXCEPT ![f] = Head(backlog)]
    /\ backlog' = Tail(backlog)
    /\ fds' = [fds EXCEPT !.trigger = FALSE]
    /\ pc' = "top"
    /\ UNCHANGED <<tables, flags, scan, client, fork_server, proc, to_agent, daemon>>

no_trigger_io ==
    /\ pc = "trigger"
    /\ ~fds.trigger
    /\ pc' = "top"
    /\ UNCHANGED <<tables, flags, polled, peers, to_agent, to_daemon, daemon, requester>>

-----------------------------------------------------------------------------
(* The processes of the VM *)

Running == pc \notin {"exited", "aborted"}
LocalStep == Running /\ UNCHANGED <<pc, tables, flags, polled, fdt, to_agent, to_daemon,
                                    daemon, requester>>

client_connect(c) ==
    /\ client[c].st = "idle"
    /\ client' = [client EXCEPT ![c].st = "connected"]
    /\ backlog' = Append(backlog, c)
    /\ UNCHANGED <<fork_server, proc>>
    /\ LocalStep

client_request(c) ==
    /\ client[c].st = "connected"
    /\ client' = [client EXCEPT ![c].st = "sent"]
    /\ UNCHANGED <<backlog, fork_server, proc>>
    /\ LocalStep

\* The end of the client: its connection is over, or it was killed
client_close(c) ==
    /\ client[c].st \in {"connected", "sent"}
    /\ client' = [client EXCEPT ![c].st = "closed"]
    /\ UNCHANGED <<backlog, fork_server, proc>>
    /\ LocalStep

fork_server_close(k) ==
    /\ fork_server[k] = "running"
    /\ fork_server' = [fork_server EXCEPT ![k] = "closed"]
    /\ UNCHANGED <<backlog, client, proc>>
    /\ LocalStep

process_exit(p) ==
    /\ proc[p].st = "running"
    /\ proc' = [proc EXCEPT ![p].st = "zombie"]
    /\ UNCHANGED <<backlog, client, fork_server>>
    /\ LocalStep

-----------------------------------------------------------------------------
(* The daemon, as far as the agent can tell: see module QrexecDaemon *)

DaemonStep == Running /\ UNCHANGED <<pc, tables, flags, polled, peers, requester>>

ToAgent(m) ==
    /\ Len(to_agent) < VCHAN_SPACE
    /\ to_agent' = Append(to_agent, m)

daemon_exec(k) ==
    /\ k \notin used
    /\ ToAgent([type |-> "EXEC", conn |-> k])
    /\ used' = used \cup {k}
    /\ UNCHANGED <<to_daemon, asked>>
    /\ DaemonStep

daemon_connect(f, k) ==
    /\ f \in asked
    /\ k \notin used
    /\ ToAgent([type |-> "SERVICE_CONNECT", fd |-> f, conn |-> k])
    /\ asked' = asked \ {f}
    /\ used' = used \cup {k}
    /\ UNCHANGED to_daemon
    /\ DaemonStep

daemon_refuse(f) ==
    /\ f \in asked
    /\ ToAgent([type |-> "SERVICE_REFUSED", fd |-> f])
    /\ asked' = asked \ {f}
    /\ UNCHANGED <<to_daemon, used>>
    /\ DaemonStep

daemon_receive ==
    /\ to_daemon # <<>>
    /\ to_daemon' = Tail(to_daemon)
    /\ LET m == Head(to_daemon) IN
       \/ /\ m.type = "TRIGGER_SERVICE"
          /\ asked' = asked \cup {m.fd}
          /\ UNCHANGED used
       \/ /\ m.type = "CONNECTION_TERMINATED"
          /\ used' = used \ {m.conn}
          /\ UNCHANGED asked
    /\ UNCHANGED to_agent
    /\ DaemonStep

-----------------------------------------------------------------------------

Agent ==
    \/ loop_top
    \/ \E p \in Pid : reap_children(p)
    \/ reap_children_session
    \/ reap_children_done
    \/ ppoll_ready
    \/ ppoll_eintr
    \/ scan_connection_info
    \/ handle_server_cmd
    \/ no_server_cmd
    \/ handle_trigger_io_accept_failed
    \/ handle_trigger_io_error
    \/ handle_trigger_io
    \/ no_trigger_io

Exited == ~Running /\ UNCHANGED vars

Next ==
    \/ Agent
    \/ sigterm_handler
    \/ \E c \in Client : client_connect(c) \/ client_request(c) \/ client_close(c)
    \/ \E k \in Conn : fork_server_close(k)
    \/ \E p \in Pid : process_exit(p)
    \/ \E k \in Conn : daemon_exec(k)
    \/ \E f \in Fd : daemon_refuse(f)
    \/ \E f \in Fd, k \in Conn : daemon_connect(f, k)
    \/ daemon_receive
    \/ Exited

Spec == Init /\ [][Next]_vars

-----------------------------------------------------------------------------
(* Properties *)

\* Every variable has its type.
TypeOK ==
    /\ pc \in Phase
    /\ connection_info \in [Slot -> connection_info_t]
    /\ requests_waiting_for_session \in Seq(Conn)
    /\ Len(requests_waiting_for_session) <= MAX_FDS
    /\ wait_for_session_pid \in Pid \cup {-1}
    /\ child_exited \in BOOLEAN
    /\ terminate_requested \in BOOLEAN
    /\ fds \in [trigger : BOOLEAN, rest : Seq(pollfd)]
    /\ scan \in 1 .. MAX_FDS + 1
    /\ fdt \in [Fd -> Client \cup Conn \cup {None}]
    /\ backlog \in Seq(Client)
    /\ client \in [Client -> ClientState]
    /\ fork_server \in [Conn -> {"none", "running", "closed"}]
    /\ proc \in [Pid -> Process]
    /\ to_agent \in Seq(ToAgentMsg)
    /\ to_daemon \in Seq(ToDaemonMsg)
    /\ asked \in SUBSET Fd
    /\ used \in SUBSET Conn
    /\ requester \in [Fd -> Client \cup {None}]

\* Where a connection can be: announced, postponed, registered, or reported
Announced(k) == {n \in DOMAIN to_agent : to_agent[n].type # "SERVICE_REFUSED" /\ to_agent[n].conn = k}
Postponed(k) == {n \in DOMAIN requests_waiting_for_session : requests_waiting_for_session[n] = k}
Registered(k) == {i \in Slot : connection_info[i].pid # 0 /\ connection_info[i].conn = k}
Reported(k) == {n \in DOMAIN to_daemon : /\ to_daemon[n].type = "CONNECTION_TERMINATED"
                                          /\ to_daemon[n].conn = k}

\* A connection is not reported while somebody serves it: the daemon would
\* give its port away with a process still at the other end.
NotReportedWhileServed ==
    \A k \in Conn :
        \/ \E p \in Pid : proc[p].st = "running" /\ proc[p].conn = k
        \/ fork_server[k] = "running"
        \/ \E c \in Client : client[c].st = "sent" /\ client[c].conn = k
        => k \in used /\ Reported(k) = {}

\* The assertions on fds[] and connection_info hold: no handler changes the
\* table between ppoll() and the loop that takes its results, not even the
\* part of that loop that releases slots.
PollAligned == pc # "aborted"

\* A descriptor that a slot watches is open, watched by no other slot, and is
\* the socket of the client or fork server process that has the connection.
WatchedFdOwned ==
    \A i \in Watched :
        LET s == connection_info[i] IN
        /\ \A j \in Watched : connection_info[j].fd = s.fd => j = i
        /\ \/ fdt[s.fd] = s.conn
           \/ fdt[s.fd] \in Client /\ client[fdt[s.fd]].conn = s.conn

\* "SOCKET<fd>" names the socket of the client that asked until the daemon's
\* answer is handled, however many clients come and go: the answer reaches
\* the client whose request it answers, and MSG_SERVICE_REFUSED closes its socket.
AnswerReachesRequester ==
    /\ \A f \in Fd : requester[f] # None => fdt[f] = requester[f]
    /\ \A f \in asked : requester[f] # None
    /\ \A n \in DOMAIN to_agent : to_agent[n].type # "EXEC" => requester[to_agent[n].fd] # None

\* What ends is reported: a registered connection whose process exited, or
\* whose socket was closed, leaves the table (and AgentPromise says that it
\* is then reported once).
Ended(k) ==
    \E i \in Registered(k) :
        \/ \E p \in Zombies : connection_info[i].pid = p
        \/ i \in Watched /\ Hup(connection_info[i].fd)
EndedIsReported == \A k \in Conn : Ended(k) ~> (Reported(k) # {} \/ k \notin used \/ ~Running)

\* A request that waits for the session is served in the end.
PostponedIsServed == \A k \in Conn : Postponed(k) # {} ~> (Registered(k) # {} \/ ~Running)

\* A client that wrote its request is answered, or closes.
ClientAnswered ==
    \A c \in Client : client[c].st = "sent" ~> (client[c].st # "sent" \/ client[c].conn # None \/ ~Running)

-----------------------------------------------------------------------------
(* Fairness: the agent runs, a client that connected writes its request,    *)
(* the process that waits for the session ends, the daemon reads its ring   *)
(* and answers.  Processes and clients need not ever end.  New work does    *)
(* not arrive forever: ppoll() lets a ready descriptor go before SIGCHLD.   *)
Fairness ==
    /\ WF_vars(Agent)
    /\ \A c \in Client : WF_vars(client_request(c))
    /\ \A p \in Pid : WF_vars(proc[p].conn = None /\ process_exit(p))
    /\ WF_vars(daemon_receive)
    /\ \A f \in Fd : SF_vars(daemon_refuse(f) \/ \E k \in Conn : daemon_connect(f, k))
    /\ <>[][/\ \A c \in Client : ~client_connect(c)
            /\ \A k \in Conn : ~daemon_exec(k)]_vars
FairSpec == Spec /\ Fairness

=============================================================================
