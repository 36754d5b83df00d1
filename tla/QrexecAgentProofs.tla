------------------------- MODULE QrexecAgentProofs -------------------------
(***************************************************************************)
(* Proofs about QrexecAgent: its safety invariants, and that it implements *)
(* AgentPromise, for tables, rings and sets of any size.  The inductive    *)
(* invariant IInv follows a connection and an identifier through the       *)
(* places they can be in.  A connection is, at most once, announced,       *)
(* postponed, registered or reported, and is served by at most one         *)
(* process; an identifier stands for a request from accept() to the        *)
(* answer, at most once as a request, an open request or an answer.        *)
(***************************************************************************)
EXTENDS QrexecAgentRefinement, TLAPS

\* Most leaves are first-order reasoning, which is Zenon's; a leaf that needs
\* arithmetic, or functions and records taken apart, names SMT.
USE Zenon

-----------------------------------------------------------------------------
(* The inductive invariant *)

Occurs(q, M) == \E n \in DOMAIN q : q[n] \in M
Once(q, M) == \A m, n \in DOMAIN q : q[m] \in M /\ q[n] \in M => m = n
AtMostOne(S) == \A x, y \in S : x = y

\* The messages that carry a connection or an identifier
Announcing(k) == {m \in ToAgentMsg : m.type # "SERVICE_REFUSED" /\ m.conn = k}
Reporting(k) == {m \in ToDaemonMsg : m.type = "CONNECTION_TERMINATED" /\ m.conn = k}
Triggering(f) == {m \in ToDaemonMsg : m.type = "TRIGGER_SERVICE" /\ m.fd = f}
Answering(f) == {m \in ToAgentMsg : m.type # "EXEC" /\ m.fd = f}

\* A request: "SOCKET<f>" is on its way, open at the daemon, or answered
RequestInv ==
    \A f \in Fd :
        /\ Once(to_daemon, Triggering(f))
        /\ Once(to_agent, Answering(f))
        /\ Occurs(to_daemon, Triggering(f)) => f \notin asked /\ ~Occurs(to_agent, Answering(f))
        /\ f \in asked => ~Occurs(to_agent, Answering(f))
        /\ \/ Occurs(to_daemon, Triggering(f))
           \/ f \in asked
           \/ Occurs(to_agent, Answering(f))
           => requester[f] # None
        /\ requester[f] # None => fdt[f] = requester[f] /\ client[requester[f]].conn = None

\* A client: idle, waiting for accept(), or behind one descriptor
ClientInv ==
    /\ \A f, g \in Fd : fdt[f] = fdt[g] /\ fdt[f] \in Client => f = g
    /\ \A c \in Client :
        /\ client[c].st = "idle" => client[c].conn = None /\ \A f \in Fd : fdt[f] # c
        /\ Once(backlog, {c})
        /\ Occurs(backlog, {c}) => /\ client[c].st # "idle"
                                   /\ client[c].conn = None
                                   /\ \A f \in Fd : fdt[f] # c
    /\ fds.trigger => backlog # <<>>

\* A slot: what it waits for has its connection
Owns(f, k) == fdt[f] = k \/ (fdt[f] \in Client /\ client[fdt[f]].conn = k)
SlotOK(s) ==
    /\ s.pid # 0 => s.conn \in Conn
    /\ s.pid \in Pid => s.fd = -1 /\ proc[s.pid].st # "none" /\ proc[s.pid].conn = s.conn
    /\ s.pid # 0 /\ s.fd # -1 => requester[s.fd] = None /\ Owns(s.fd, s.conn)
TableInv == \A i \in Slot : SlotOK(connection_info[i])

\* The process that waits for the session serves no connection
SessionInv ==
    wait_for_session_pid # -1 /\ pc # "flush" =>
        /\ proc[wait_for_session_pid].st # "none"
        /\ proc[wait_for_session_pid].conn = None

\* A connection: its places exclude one another, and only a registered one,
\* or one that was lost for want of a slot, has a server
Servers(k) == {p \in Pid : proc[p].st # "none" /\ proc[p].conn = k}
                \cup {c \in Client : client[c].conn = k}
                \cup {x \in Conn : x = k /\ fork_server[k] # "none"}
ConnOK(k) ==
    /\ Once(to_agent, Announcing(k))
    /\ Once(requests_waiting_for_session, {k})
    /\ AtMostOne(Registered(k))
    /\ Once(to_daemon, Reporting(k))
    /\ AtMostOne(Servers(k))
    /\ Occurs(to_agent, Announcing(k)) => /\ ~Occurs(requests_waiting_for_session, {k})
                                          /\ Registered(k) = {}
                                          /\ ~Occurs(to_daemon, Reporting(k))
                                          /\ Servers(k) = {}
    /\ Occurs(requests_waiting_for_session, {k}) => /\ Registered(k) = {}
                                                    /\ ~Occurs(to_daemon, Reporting(k))
                                                    /\ Servers(k) = {}
    /\ Occurs(to_daemon, Reporting(k)) => Registered(k) = {} /\ Servers(k) = {}
    /\ k \notin used => /\ ~Occurs(to_agent, Announcing(k))
                        /\ ~Occurs(requests_waiting_for_session, {k})
                        /\ Registered(k) = {}
                        /\ ~Occurs(to_daemon, Reporting(k))
                        /\ Servers(k) = {}
ConnInv == \A k \in Conn : ConnOK(k)

\* The loop over connection_info: what is left of the results of ppoll() is
\* one entry for each watched slot to come, in their order, and a descriptor
\* that was ready still is.
ToScan == {i \in Watched : i >= scan}
Aligned(g) ==
    /\ \A n \in DOMAIN fds.rest : g[n] \in ToScan
    /\ \A m, n \in DOMAIN fds.rest : m < n => g[m] < g[n]
    /\ \A i \in ToScan : \E n \in DOMAIN fds.rest : g[n] = i
    /\ \A n \in DOMAIN fds.rest :
         /\ fds.rest[n].fd = connection_info[g[n]].fd
         /\ fds.rest[n].revents => Hup(fds.rest[n].fd)
ScanInv ==
    /\ pc # "aborted"
    /\ pc # "scan" => scan = 1
    /\ pc = "scan" => \E g \in [DOMAIN fds.rest -> Slot] : Aligned(g)

IInv == /\ TypeOK
        /\ RequestInv
        /\ ClientInv
        /\ TableInv
        /\ SessionInv
        /\ ConnInv
        /\ ScanInv

-----------------------------------------------------------------------------
(* The operators of the model *)

\* Reading the head of a ring or queue: what occurs in the rest.
LEMMA TailOccurs ==
    ASSUME NEW S, NEW q \in Seq(S), q # <<>>, NEW M
    PROVE  /\ Once(q, M) => Once(Tail(q), M)
           /\ Occurs(Tail(q), M) => Occurs(q, M)
           /\ Head(q) \in M => Occurs(q, M)
           /\ Once(q, M) /\ Head(q) \in M => ~Occurs(Tail(q), M)
           /\ Head(q) \notin M /\ Occurs(q, M) => Occurs(Tail(q), M)
<1> DEFINE t == Tail(q)
<1>1. /\ t \in Seq(S) /\ Len(t) = Len(q) - 1 /\ Len(q) \in Nat /\ Len(q) > 0
      /\ \A n \in 1 .. Len(t) : t[n] = q[n + 1]
      /\ Head(q) = q[1]
      /\ DOMAIN q = 1 .. Len(q) /\ DOMAIN t = 1 .. Len(t)
  BY SMT
<1> HIDE DEF t
<1>2. ASSUME Once(q, M) PROVE Once(t, M)
  <2>1. SUFFICES ASSUME NEW m \in 1 .. Len(t), NEW n \in 1 .. Len(t), t[m] \in M, t[n] \in M
                 PROVE  m = n
    BY <1>1 DEF Once
  <2>2. /\ m + 1 \in 1 .. Len(q) /\ n + 1 \in 1 .. Len(q)
        /\ q[m + 1] \in M /\ q[n + 1] \in M
    BY <1>1, <2>1, SMT
  <2>3. m + 1 = n + 1
    BY <1>1, <1>2, <2>2 DEF Once
  <2> QED BY <2>3, SMT
<1>3. Occurs(t, M) => Occurs(q, M)
  BY <1>1, SMTT(30) DEF Occurs
<1>4. Head(q) \in M => Occurs(q, M)
  BY <1>1, SMT DEF Occurs
<1>5. Once(q, M) /\ Head(q) \in M => ~Occurs(t, M)
  BY <1>1, SMT DEF Once, Occurs
<1>6. ASSUME Head(q) \notin M, Occurs(q, M) PROVE Occurs(t, M)
  <2>1. PICK n \in 1 .. Len(q) : q[n] \in M
    BY <1>1, <1>6 DEF Occurs
  <2>2. n - 1 \in 1 .. Len(t) /\ t[n - 1] = q[n]
    BY <2>1, <1>1, <1>6, SMT
  <2> QED BY <2>1, <2>2, <1>1 DEF Occurs
<1> QED BY <1>2, <1>3, <1>4, <1>5, <1>6 DEF t

\* Adding to a ring or queue.
LEMMA AppendOccurs ==
    ASSUME NEW S, NEW q \in Seq(S), NEW e \in S, NEW M
    PROVE  /\ e \notin M => (Occurs(Append(q, e), M) <=> Occurs(q, M))
           /\ e \notin M /\ Once(q, M) => Once(Append(q, e), M)
           /\ e \in M => Occurs(Append(q, e), M)
           /\ ~Occurs(q, M) => Once(Append(q, e), M)
<1> DEFINE t == Append(q, e)
<1>1. /\ t \in Seq(S) /\ Len(t) = Len(q) + 1 /\ Len(q) \in Nat
      /\ \A n \in 1 .. Len(q) : t[n] = q[n]
      /\ t[Len(q) + 1] = e
      /\ DOMAIN q = 1 .. Len(q) /\ DOMAIN t = 1 .. Len(t)
  BY SMT
<1> HIDE DEF t
<1>2. e \notin M => (Occurs(t, M) <=> Occurs(q, M))
  BY <1>1, SMT DEF Occurs
<1>3. e \notin M /\ Once(q, M) => Once(t, M)
  BY <1>1, SMT DEF Once
<1>4. e \in M => Occurs(t, M)
  BY <1>1, SMT DEF Occurs
<1>5. ~Occurs(q, M) => Once(t, M)
  BY <1>1, SMT DEF Once, Occurs
<1> QED BY <1>2, <1>3, <1>4, <1>5 DEF t

\* What a message carries.
LEMMA Messages ==
    /\ \A m \in ToAgentMsg :
          /\ m.type \in {"EXEC", "SERVICE_CONNECT", "SERVICE_REFUSED"}
          /\ m.type # "SERVICE_REFUSED" => m.conn \in Conn
          /\ m.type # "EXEC" => m.fd \in Fd
          /\ \A k : m \in Announcing(k) <=> m.type # "SERVICE_REFUSED" /\ m.conn = k
          /\ \A f : m \in Answering(f) <=> m.type # "EXEC" /\ m.fd = f
    /\ \A m \in ToDaemonMsg :
          /\ m.type \in {"TRIGGER_SERVICE", "CONNECTION_TERMINATED"}
          /\ m.type = "TRIGGER_SERVICE" => m.fd \in Fd
          /\ m.type = "CONNECTION_TERMINATED" => m.conn \in Conn
          /\ \A k : m \in Reporting(k) <=> m.type = "CONNECTION_TERMINATED" /\ m.conn = k
          /\ \A f : m \in Triggering(f) <=> m.type = "TRIGGER_SERVICE" /\ m.fd = f
<1>1. ASSUME NEW m \in ToAgentMsg
      PROVE  /\ m.type \in {"EXEC", "SERVICE_CONNECT", "SERVICE_REFUSED"}
             /\ m.type # "SERVICE_REFUSED" => m.conn \in Conn
             /\ m.type # "EXEC" => m.fd \in Fd
  BY DEF ToAgentMsg
<1>2. ASSUME NEW m \in ToDaemonMsg
      PROVE  /\ m.type \in {"TRIGGER_SERVICE", "CONNECTION_TERMINATED"}
             /\ m.type = "TRIGGER_SERVICE" => m.fd \in Fd
             /\ m.type = "CONNECTION_TERMINATED" => m.conn \in Conn
  BY DEF ToDaemonMsg
<1> QED BY <1>1, <1>2 DEF Announcing, Answering, Reporting, Triggering

-----------------------------------------------------------------------------
(* What a step leaves alone *)

\* A step that touches no request, descriptor or ring keeps RequestInv.
LEMMA RequestFrame ==
    RequestInv /\ UNCHANGED <<requester, fdt, client, to_daemon, asked, to_agent>> => RequestInv'
BY DEF RequestInv

\* A step that touches no client and no descriptor keeps ClientInv.
LEMMA ClientFrame ==
    ClientInv /\ UNCHANGED <<fdt, client, backlog, fds>> => ClientInv'
BY DEF ClientInv

\* A step that touches neither connection_info nor what it refers to keeps TableInv.
LEMMA TableFrame ==
    TableInv /\ UNCHANGED <<connection_info, proc, fdt, client, requester>> => TableInv'
BY DEF TableInv, SlotOK, Owns

\* A step that leaves the process that waits for the session keeps SessionInv.
LEMMA SessionFrame ==
    /\ SessionInv
    /\ UNCHANGED <<wait_for_session_pid, proc>>
    /\ pc = "flush" => pc' = "flush"
    => SessionInv'
BY DEF SessionInv

\* A connection that is in no new place, and keeps its port.
LEMMA ConnLess ==
    ASSUME NEW k, ConnOK(k),
           Once(to_agent, Announcing(k)) => Once(to_agent', Announcing(k)),
           Occurs(to_agent', Announcing(k)) => Occurs(to_agent, Announcing(k)),
           Once(requests_waiting_for_session, {k}) => Once(requests_waiting_for_session', {k}),
           Occurs(requests_waiting_for_session', {k}) => Occurs(requests_waiting_for_session, {k}),
           Once(to_daemon, Reporting(k)) => Once(to_daemon', Reporting(k)),
           Occurs(to_daemon', Reporting(k)) => Occurs(to_daemon, Reporting(k)),
           Registered(k)' \subseteq Registered(k),
           Servers(k)' \subseteq Servers(k),
           k \in used => k \in used'
    PROVE  ConnOK(k)'
<1>1. /\ AtMostOne(Registered(k)) => AtMostOne(Registered(k)')
      /\ AtMostOne(Servers(k)) => AtMostOne(Servers(k)')
      /\ Registered(k) = {} => Registered(k)' = {}
      /\ Servers(k) = {} => Servers(k)' = {}
  BY DEF AtMostOne
<1> QED BY <1>1 DEF ConnOK

\* The servers and the slots of a connection, from the state they depend on.
LEMMA SameServers ==
    UNCHANGED <<proc, fork_server, client>> => \A k : Servers(k)' = Servers(k)
BY DEF Servers

\* ... from connection_info alone.
LEMMA SameSlots ==
    UNCHANGED connection_info => \A k : Registered(k)' = Registered(k)
BY DEF Registered

\* A step that moves no connection keeps ConnInv.
LEMMA ConnFrame ==
    /\ ConnInv
    /\ UNCHANGED <<to_agent, requests_waiting_for_session, connection_info, to_daemon, used,
                   proc, fork_server, client>>
    => ConnInv'
<1> SUFFICES ASSUME ConnInv, NEW k \in Conn,
                    UNCHANGED <<to_agent, requests_waiting_for_session, connection_info,
                                to_daemon, used, proc, fork_server, client>>
             PROVE  ConnOK(k)'
  BY DEF ConnInv
<1>1. Registered(k)' = Registered(k) /\ Servers(k)' = Servers(k)
  BY SameServers, SameSlots
<1> QED BY <1>1, ConnLess DEF ConnInv

\* A step outside the loop over connection_info that changes no readiness keeps ScanInv.
LEMMA ScanFrame ==
    ScanInv /\ UNCHANGED <<pc, scan, fds, connection_info, fdt, client, fork_server>> => ScanInv'
BY SMT DEF ScanInv, Aligned, ToScan, Watched, Hup

\* Outside the loop over connection_info nothing is left to align.
LEMMA NotScanning ==
    pc' \notin {"scan", "aborted"} /\ scan' = 1 => ScanInv'
BY DEF ScanInv

-----------------------------------------------------------------------------
(* The invariant holds initially, and each step preserves it *)

\* The agent starts with nothing open, registered or on its way.
LEMMA InitInv == Init => IInv
<1> SUFFICES ASSUME Init PROVE IInv
  OBVIOUS
<1> USE DEF Init
<1>1. TypeOK
  <2>1. scan \in 1 .. MAX_FDS + 1
    BY AgentAssumption, SMT
  <2>4. Len(requests_waiting_for_session) <= MAX_FDS
    <3>1. Len(requests_waiting_for_session) = 0
      OBVIOUS
    <3> QED BY <3>1, AgentAssumption, SMT
  <2>5. /\ requests_waiting_for_session \in Seq(Conn)
        /\ backlog \in Seq(Client)
        /\ to_agent \in Seq(ToAgentMsg)
        /\ to_daemon \in Seq(ToDaemonMsg)
    BY SMT
  <2>2. /\ connection_info \in [Slot -> connection_info_t]
        /\ client \in [Client -> ClientState]
        /\ proc \in [Pid -> Process]
    BY DEF connection_info_t, FreeSlot, ClientState, Idle, Process, NoProc
  <2>3. fds \in [trigger : BOOLEAN, rest : Seq(pollfd)]
    BY SMT
  <2> QED BY <2>1, <2>2, <2>3, <2>4, <2>5 DEF TypeOK, Phase
<1>2. \A M : /\ ~Occurs(to_agent, M) /\ Once(to_agent, M)
             /\ ~Occurs(to_daemon, M) /\ Once(to_daemon, M)
             /\ ~Occurs(backlog, M) /\ Once(backlog, M)
             /\ ~Occurs(requests_waiting_for_session, M) /\ Once(requests_waiting_for_session, M)
  BY SMT DEF Occurs, Once
<1>3. RequestInv
  BY <1>2 DEF RequestInv
<1>4. ClientInv
  BY <1>2, AgentAssumption DEF ClientInv, Idle
<1>5. TableInv /\ SessionInv
  BY AgentAssumption DEF TableInv, SlotOK, SessionInv, FreeSlot
<1>6. \A k \in Conn : Registered(k) = {} /\ Servers(k) = {}
  BY AgentAssumption DEF Registered, Servers, FreeSlot, NoProc, Idle
<1>7. ConnInv
  BY <1>2, <1>6 DEF ConnInv, ConnOK, AtMostOne
<1>8. ScanInv
  BY DEF ScanInv
<1> QED BY <1>1, <1>3, <1>4, <1>5, <1>7, <1>8 DEF IInv

\* Steps that change the position in the main loop, and the signal flags.
LEMMA QuietStep ==
    ASSUME IInv,
           \/ loop_top \/ reap_children_done \/ ppoll_eintr \/ sigterm_handler \/ no_server_cmd
           \/ handle_trigger_io_accept_failed \/ no_trigger_io \/ Exited
    PROVE  IInv'
<1> USE DEF IInv
<1>1. UNCHANGED <<tables, polled, peers, to_agent, to_daemon, daemon, requester>>
  BY DEF loop_top, reap_children_done, ppoll_eintr, sigterm_handler, no_server_cmd,
         handle_trigger_io_accept_failed, no_trigger_io, Exited, vars
<1>2. /\ pc' \in Phase
      /\ child_exited' \in BOOLEAN
      /\ terminate_requested' \in BOOLEAN
      /\ pc' = pc \/ (pc' \notin {"scan", "aborted"} /\ pc \notin {"scan", "flush"})
  BY DEF loop_top, reap_children_done, ppoll_eintr, sigterm_handler, no_server_cmd,
         handle_trigger_io_accept_failed, no_trigger_io, Exited, vars, flags, TypeOK, Phase
<1> USE DEF tables, polled, peers, daemon
<1>3. TypeOK'
  BY <1>1, <1>2 DEF TypeOK
<1>4. RequestInv' /\ ClientInv' /\ TableInv' /\ ConnInv'
  BY <1>1, RequestFrame, ClientFrame, TableFrame, ConnFrame
<1>5. SessionInv'
  BY <1>1, <1>2, SessionFrame
<1>6. ScanInv'
  <2>1. CASE pc' = pc
    BY <2>1, <1>1, ScanFrame
  <2>2. CASE pc' # pc
    BY <2>2, <1>1, <1>2, NotScanning DEF ScanInv
  <2> QED BY <2>1, <2>2
<1> QED BY <1>3, <1>4, <1>5, <1>6

\* A descriptor that was ready to ppoll() stays ready until the agent closes it.
LEMMA ScanKept ==
    ASSUME ScanInv, TypeOK, UNCHANGED <<pc, scan, fds, connection_info>>,
           \A f \in Fd : Hup(f) => Hup(f)'
    PROVE  ScanInv'
<1>1. Watched' = Watched /\ ToScan' = ToScan
  BY DEF Watched, ToScan
<1>2. ASSUME pc = "scan" PROVE \E g \in [DOMAIN fds.rest -> Slot] : Aligned(g)'
  <2>1. PICK g \in [DOMAIN fds.rest -> Slot] : Aligned(g)
    BY <1>2 DEF ScanInv
  <2>2. \A n \in DOMAIN fds.rest : fds.rest[n].fd \in Fd
    <3>1. fds.rest \in Seq(pollfd)
      BY DEF TypeOK
    <3> HIDE DEF pollfd
    <3>2. \A n \in DOMAIN fds.rest : fds.rest[n] \in pollfd
      BY <3>1, SMT
    <3> QED BY <3>2 DEF pollfd
  <2>3. Aligned(g)'
    BY <1>1, <2>1, <2>2 DEF Aligned
  <2> QED BY <2>3
<1> QED BY <1>2 DEF ScanInv

\* A step of a client: it connects, writes its request, or closes.
LEMMA ClientStep ==
    ASSUME IInv, NEW c \in Client, client_connect(c) \/ client_request(c) \/ client_close(c)
    PROVE  IInv'
<1> USE DEF IInv
<1>1. /\ UNCHANGED <<fork_server, proc, pc, tables, flags, polled, fdt, to_agent, to_daemon,
                     daemon, requester>>
      /\ \E st \in {"connected", "sent", "closed"} :
            client' = [client EXCEPT ![c] = [st |-> st, conn |-> client[c].conn]]
  <2>1. client[c] \in [st : {"idle", "connected", "sent", "closed"}, conn : Conn \cup {None}]
    BY DEF TypeOK, ClientState
  <2> QED BY <2>1, SMT DEF client_connect, client_request, client_close, LocalStep, TypeOK
<1>2. PICK st \in {"connected", "sent", "closed"} :
            client' = [client EXCEPT ![c] = [st |-> st, conn |-> client[c].conn]]
  BY <1>1
<1> USE DEF tables, flags, polled, daemon
<1>3. /\ \A x \in Client : client'[x].conn = client[x].conn
      /\ \A x \in Client : x # c => client'[x] = client[x]
      /\ client'[c].st = st
      /\ client' \in [Client -> ClientState]
  BY <1>2 DEF TypeOK, ClientState
<1>4. \/ backlog' = backlog /\ client[c].st # "idle"
      \/ backlog' = Append(backlog, c) /\ client[c].st = "idle" /\ st # "closed"
  BY <1>2, <1>3 DEF client_connect, client_request, client_close
<1>5. backlog' \in Seq(Client)
  <2>1. backlog \in Seq(Client)
    BY DEF TypeOK
  <2> QED BY <1>4, <2>1, SMT
<1>6. TypeOK'
  BY <1>1, <1>3, <1>5 DEF TypeOK
<1>7. RequestInv'
  BY <1>1, <1>3 DEF RequestInv, TypeOK
<1>8. TableInv'
  BY <1>1, <1>3, SMT DEF TableInv, SlotOK, Owns, TypeOK
<1>9. SessionInv'
  BY <1>1, SessionFrame
<1>10. ConnInv'
  <2> SUFFICES ASSUME NEW k \in Conn PROVE ConnOK(k)'
    BY DEF ConnInv
  <2>1. Servers(k)' = Servers(k)
    BY <1>1, <1>3 DEF Servers
  <2>2. Registered(k)' = Registered(k)
    BY <1>1, SameSlots
  <2> QED BY <1>1, <2>1, <2>2, ConnLess DEF ConnInv
<1>11. ScanInv'
  <2>1. \A f \in Fd : Hup(f) => Hup(f)'
    <3>1. client[c].st = "closed" => client'[c].st = "closed"
      BY <1>2, <1>3 DEF client_connect, client_request, client_close
    <3> QED BY <1>1, <1>3, <3>1 DEF Hup
  <2> QED BY <1>1, <2>1, ScanKept
<1>12. ClientInv'
  <2>1. \A x \in Client : client'[x].st = "idle" => x # c /\ client[x].st = "idle"
    BY <1>2, <1>3
  <2>2. \A x \in Client : x # c => (Occurs(backlog', {x}) <=> Occurs(backlog, {x}))
    <3>1. backlog \in Seq(Client)
      BY DEF TypeOK
    <3>2. ASSUME NEW x \in Client, x # c
          PROVE  Occurs(Append(backlog, c), {x}) <=> Occurs(backlog, {x})
      <4>1. c \notin {x}
        BY <3>2
      <4> QED BY <3>1, <4>1, AppendOccurs
    <3> QED BY <1>4, <3>2
  <2>3. \A x \in Client : Once(backlog', {x})
    <3>1. CASE backlog' = backlog
      BY <3>1 DEF ClientInv
    <3>2. CASE backlog' # backlog
      <4>1. backlog' = Append(backlog, c) /\ ~Occurs(backlog, {c})
        BY <3>2, <1>4 DEF ClientInv
      <4> QED BY <4>1, AppendOccurs, ZenonT(30) DEF TypeOK, ClientInv
    <3> QED BY <3>1, <3>2
  <2>4. Occurs(backlog', {c}) => client[c].conn = None /\ \A f \in Fd : fdt[f] # c
    BY <1>4 DEF ClientInv
  <2>5. fds.trigger => backlog' # <<>>
    BY <1>4, SMT DEF ClientInv, TypeOK
  <2> QED BY <1>1, <1>2, <1>3, <2>1, <2>2, <2>3, <2>4, <2>5, ZenonT(30) DEF ClientInv
<1> QED BY <1>6, <1>7, <1>8, <1>9, <1>10, <1>11, <1>12

\* A process of the fork server closes its socket.
LEMMA ForkServerStep ==
    ASSUME IInv, NEW k \in Conn, fork_server_close(k)
    PROVE  IInv'
<1> USE DEF IInv
<1>1. /\ UNCHANGED <<backlog, client, proc, pc, tables, flags, polled, fdt, to_agent, to_daemon,
                     daemon, requester>>
      /\ fork_server[k] = "running"
      /\ fork_server' = [fork_server EXCEPT ![k] = "closed"]
  BY DEF fork_server_close, LocalStep
<1> USE DEF tables, flags, polled, daemon
<1>2. TypeOK'
  BY <1>1 DEF TypeOK
<1>3. RequestInv' /\ ClientInv' /\ TableInv' /\ SessionInv'
  BY <1>1, RequestFrame, ClientFrame, TableFrame, SessionFrame
<1>4. ConnInv'
  <2> SUFFICES ASSUME NEW j \in Conn PROVE ConnOK(j)'
    BY DEF ConnInv
  <2>1. Servers(j)' = Servers(j)
    BY <1>1 DEF Servers, TypeOK
  <2>2. Registered(j)' = Registered(j)
    BY <1>1, SameSlots
  <2> QED BY <1>1, <2>1, <2>2, ConnLess DEF ConnInv
<1>5. ScanInv'
  <2>1. \A f \in Fd : Hup(f) => Hup(f)'
    BY <1>1 DEF Hup, TypeOK
  <2> QED BY <1>1, <2>1, ScanKept
<1> QED BY <1>2, <1>3, <1>4, <1>5

\* A child of the agent exits.
LEMMA ProcessStep ==
    ASSUME IInv, NEW p \in Pid, process_exit(p)
    PROVE  IInv'
<1> USE DEF IInv
<1>1. /\ UNCHANGED <<backlog, client, fork_server, pc, tables, flags, polled, fdt, to_agent,
                     to_daemon, daemon, requester>>
      /\ proc[p].st = "running"
      /\ proc' = [proc EXCEPT ![p] = [st |-> "zombie", conn |-> proc[p].conn]]
  <2>1. proc[p] \in [st : {"none", "running", "zombie"}, conn : Conn \cup {None}]
    BY DEF TypeOK, Process
  <2>2. [proc[p] EXCEPT !.st = "zombie"] = [st |-> "zombie", conn |-> proc[p].conn]
    BY <2>1, SMT
  <2>3. proc' = [proc EXCEPT ![p] = [proc[p] EXCEPT !.st = "zombie"]]
    BY DEF process_exit, TypeOK
  <2> QED BY <2>2, <2>3 DEF process_exit, LocalStep
<1> USE DEF tables, flags, polled, daemon
<1>2. /\ proc' \in [Pid -> Process]
      /\ \A q \in Pid : /\ proc'[q].conn = proc[q].conn
                        /\ proc'[q].st = "none" <=> proc[q].st = "none"
  BY <1>1 DEF TypeOK, Process
<1>3. TypeOK'
  BY <1>1, <1>2 DEF TypeOK
<1>4. RequestInv' /\ ClientInv' /\ ScanInv'
  BY <1>1, RequestFrame, ClientFrame, ScanFrame
<1>5. TableInv'
  BY <1>1, <1>2, SMT DEF TableInv, SlotOK, Owns
<1>6. SessionInv'
  BY <1>1, <1>2 DEF SessionInv, TypeOK
<1>7. ConnInv'
  <2> SUFFICES ASSUME NEW k \in Conn PROVE ConnOK(k)'
    BY DEF ConnInv
  <2>1. Servers(k)' = Servers(k)
    BY <1>1, <1>2 DEF Servers
  <2>2. Registered(k)' = Registered(k)
    BY <1>1, SameSlots
  <2> QED BY <1>1, <2>1, <2>2, ConnLess DEF ConnInv
<1> QED BY <1>3, <1>4, <1>5, <1>6, <1>7

\* The daemon announces a connection that has no port, or answers a request.
LEMMA AnnounceConn ==
    ASSUME TypeOK, ConnInv, NEW k \in Conn, k \notin used,
           NEW m \in ToAgentMsg, m.type # "SERVICE_REFUSED", m.conn = k,
           to_agent' = Append(to_agent, m), used' = used \cup {k},
           UNCHANGED <<requests_waiting_for_session, connection_info, to_daemon, proc,
                       fork_server, client>>
    PROVE  ConnInv'
<1> SUFFICES ASSUME NEW j \in Conn PROVE ConnOK(j)'
  BY DEF ConnInv
<1>1. Registered(j)' = Registered(j) /\ Servers(j)' = Servers(j)
  BY SameServers, SameSlots
<1>2. to_agent \in Seq(ToAgentMsg)
  BY DEF TypeOK
<1>3. m \in Announcing(j) <=> j = k
  BY Messages
<1>4. CASE j # k
  <2>1. /\ Occurs(to_agent', Announcing(j)) <=> Occurs(to_agent, Announcing(j))
        /\ Once(to_agent, Announcing(j)) => Once(to_agent', Announcing(j))
    BY <1>2, <1>3, <1>4, AppendOccurs
  <2> QED BY <1>1, <2>1, ConnLess DEF ConnInv
<1>5. CASE j = k
  <2>1. ConnOK(k)
    BY DEF ConnInv
  <2>2. ~Occurs(to_agent, Announcing(k))
    BY <2>1 DEF ConnOK
  <2>3. Once(to_agent', Announcing(k))
    BY <1>2, <2>2, AppendOccurs
  <2> QED BY <1>1, <1>5, <2>1, <2>3 DEF ConnOK
<1> QED BY <1>4, <1>5

\* The daemon answers an open request: the answer replaces it.
LEMMA AnswerRequest ==
    ASSUME TypeOK, RequestInv, NEW f \in asked,
           NEW m \in ToAgentMsg, m.type # "EXEC", m.fd = f,
           to_agent' = Append(to_agent, m), asked' = asked \ {f},
           UNCHANGED <<requester, fdt, client, to_daemon>>
    PROVE  RequestInv'
<1>1. to_agent \in Seq(ToAgentMsg) /\ asked \in SUBSET Fd
  BY DEF TypeOK
<1>2. ASSUME NEW g \in Fd, g # f
      PROVE  /\ Occurs(to_agent', Answering(g)) <=> Occurs(to_agent, Answering(g))
             /\ Once(to_agent, Answering(g)) => Once(to_agent', Answering(g))
  <2>1. m \notin Answering(g)
    BY <1>2, Messages
  <2> QED BY <1>1, <2>1, AppendOccurs
<1>3. Once(to_agent', Answering(f)) /\ requester[f] # None /\ ~Occurs(to_daemon, Triggering(f))
  <2>1. ~Occurs(to_agent, Answering(f))
    BY <1>1 DEF RequestInv
  <2> QED BY <1>1, <2>1, AppendOccurs DEF RequestInv
<1> QED BY <1>1, <1>2, <1>3 DEF RequestInv

\* What the daemon writes to its ring.
LEMMA DaemonSends ==
    ASSUME IInv,
           \/ \E k \in Conn : daemon_exec(k)
           \/ \E f \in Fd : daemon_refuse(f)
           \/ \E f \in Fd, k \in Conn : daemon_connect(f, k)
    PROVE  IInv'
<1> USE DEF IInv
<1>1. UNCHANGED <<pc, tables, flags, polled, peers, requester, to_daemon>>
  BY DEF daemon_exec, daemon_refuse, daemon_connect, DaemonStep
<1> USE DEF tables, flags, polled, peers
<1>2. ClientInv' /\ TableInv' /\ SessionInv' /\ ScanInv'
  BY <1>1, ClientFrame, TableFrame, SessionFrame, ScanFrame
<1>3. to_agent \in Seq(ToAgentMsg) /\ asked \in SUBSET Fd
  BY DEF TypeOK
<1>4. ASSUME NEW k \in Conn, daemon_exec(k) PROVE TypeOK' /\ RequestInv' /\ ConnInv'
  <2> DEFINE m == [type |-> "EXEC", conn |-> k]
  <2>1. m \in ToAgentMsg /\ m.type = "EXEC" /\ m.conn = k
    BY DEF ToAgentMsg
  <2>2. k \notin used /\ to_agent' = Append(to_agent, m) /\ used' = used \cup {k} /\ asked' = asked
    BY <1>4 DEF daemon_exec, ToAgent
  <2> HIDE DEF m
  <2>3. to_agent' \in Seq(ToAgentMsg)
    BY <1>3, <2>1, <2>2, SMT
  <2>4. TypeOK'
    BY <1>1, <2>2, <2>3 DEF TypeOK
  <2>5. ConnInv'
    BY <1>1, <2>1, <2>2, AnnounceConn
  <2>6. ASSUME NEW f \in Fd
        PROVE  /\ Occurs(to_agent', Answering(f)) <=> Occurs(to_agent, Answering(f))
               /\ Once(to_agent, Answering(f)) => Once(to_agent', Answering(f))
    <3>1. m \notin Answering(f)
      BY <2>1, Messages
    <3> QED BY <1>3, <2>1, <2>2, <3>1, AppendOccurs
  <2>7. RequestInv'
    BY <1>1, <2>2, <2>6 DEF RequestInv
  <2> QED BY <2>4, <2>5, <2>7
<1>5. ASSUME NEW f \in Fd, daemon_refuse(f) PROVE TypeOK' /\ RequestInv' /\ ConnInv'
  <2> DEFINE m == [type |-> "SERVICE_REFUSED", fd |-> f]
  <2>1. m \in ToAgentMsg /\ m.type = "SERVICE_REFUSED" /\ m.fd = f
    BY DEF ToAgentMsg
  <2>2. f \in asked /\ to_agent' = Append(to_agent, m) /\ asked' = asked \ {f} /\ used' = used
    BY <1>5 DEF daemon_refuse, ToAgent
  <2> HIDE DEF m
  <2>3. to_agent' \in Seq(ToAgentMsg)
    BY <1>3, <2>1, <2>2, SMT
  <2>4. TypeOK'
    BY <1>1, <2>2, <2>3 DEF TypeOK
  <2>5. RequestInv'
    BY <1>1, <2>1, <2>2, AnswerRequest
  <2>6. ASSUME NEW k \in Conn PROVE ConnOK(k)'
    <3>1. m \notin Announcing(k)
      BY <2>1, Messages
    <3>2. Registered(k)' = Registered(k) /\ Servers(k)' = Servers(k)
      BY <1>1, SameServers, SameSlots
    <3>3. /\ Occurs(to_agent', Announcing(k)) <=> Occurs(to_agent, Announcing(k))
          /\ Once(to_agent, Announcing(k)) => Once(to_agent', Announcing(k))
      BY <1>3, <2>1, <2>2, <3>1, AppendOccurs
    <3> QED BY <1>1, <2>2, <3>2, <3>3, ConnLess DEF ConnInv
  <2> QED BY <2>4, <2>5, <2>6 DEF ConnInv
<1>6. ASSUME NEW f \in Fd, NEW k \in Conn, daemon_connect(f, k)
      PROVE  TypeOK' /\ RequestInv' /\ ConnInv'
  <2> DEFINE m == [type |-> "SERVICE_CONNECT", fd |-> f, conn |-> k]
  <2>1. m \in ToAgentMsg /\ m.type = "SERVICE_CONNECT" /\ m.fd = f /\ m.conn = k
    BY DEF ToAgentMsg
  <2>2. /\ f \in asked /\ k \notin used
        /\ to_agent' = Append(to_agent, m) /\ asked' = asked \ {f} /\ used' = used \cup {k}
    BY <1>6 DEF daemon_connect, ToAgent
  <2> HIDE DEF m
  <2>3. to_agent' \in Seq(ToAgentMsg)
    BY <1>3, <2>1, <2>2, SMT
  <2>4. TypeOK'
    BY <1>1, <2>2, <2>3 DEF TypeOK
  <2>5. RequestInv'
    BY <1>1, <2>1, <2>2, AnswerRequest
  <2>6. ConnInv'
    BY <1>1, <2>1, <2>2, AnnounceConn
  <2> QED BY <2>4, <2>5, <2>6
<1> QED BY <1>2, <1>4, <1>5, <1>6

\* The daemon reads a request or a report.
LEMMA DaemonReceives ==
    ASSUME IInv, daemon_receive
    PROVE  IInv'
<1> USE DEF IInv
<1> DEFINE m == Head(to_daemon)
<1>1. /\ UNCHANGED <<pc, tables, flags, polled, peers, requester, to_agent>>
      /\ to_daemon # <<>>
      /\ to_daemon' = Tail(to_daemon)
      /\ \/ m.type = "TRIGGER_SERVICE" /\ asked' = asked \cup {m.fd} /\ used' = used
         \/ m.type = "CONNECTION_TERMINATED" /\ used' = used \ {m.conn} /\ asked' = asked
  BY DEF daemon_receive, DaemonStep
<1> USE DEF tables, flags, polled, peers
<1>2. ClientInv' /\ TableInv' /\ SessionInv' /\ ScanInv'
  BY <1>1, ClientFrame, TableFrame, SessionFrame, ScanFrame
<1>3. to_daemon \in Seq(ToDaemonMsg) /\ asked \in SUBSET Fd /\ used \in SUBSET Conn
  BY DEF TypeOK
<1>4. m \in ToDaemonMsg /\ to_daemon' \in Seq(ToDaemonMsg)
  BY <1>1, <1>3, SMT
<1> HIDE DEF m
<1>5. TypeOK'
  <2>1. asked' \in SUBSET Fd /\ used' \in SUBSET Conn
    BY <1>1, <1>3, <1>4, Messages
  <2> QED BY <1>1, <1>4, <2>1 DEF TypeOK
<1>6. \A M : /\ Once(to_daemon, M) => Once(to_daemon', M)
             /\ Occurs(to_daemon', M) => Occurs(to_daemon, M)
             /\ m \in M => Occurs(to_daemon, M)
             /\ Once(to_daemon, M) /\ m \in M => ~Occurs(to_daemon', M)
  BY <1>1, <1>3, TailOccurs DEF m
<1>7. RequestInv'
  <2>1. CASE m.type = "TRIGGER_SERVICE"
    <3>1. m.fd \in Fd /\ m \in Triggering(m.fd) /\ asked' = asked \cup {m.fd}
      BY <1>1, <1>4, <2>1, Messages
    <3>2. /\ Occurs(to_daemon, Triggering(m.fd))
          /\ ~Occurs(to_daemon', Triggering(m.fd))
      BY <1>6, <3>1 DEF RequestInv
    <3> QED BY <1>1, <1>6, <3>1, <3>2 DEF RequestInv
  <2>2. CASE m.type = "CONNECTION_TERMINATED"
    BY <1>1, <1>6, <2>2 DEF RequestInv
  <2> QED BY <1>1, <2>1, <2>2
<1>8. ConnInv'
  <2> SUFFICES ASSUME NEW k \in Conn PROVE ConnOK(k)'
    BY DEF ConnInv
  <2>1. Registered(k)' = Registered(k) /\ Servers(k)' = Servers(k) /\ ConnOK(k)
    BY <1>1, SameServers, SameSlots DEF ConnInv
  <2>2. CASE k \in used => k \in used'
    BY <1>1, <1>6, <2>1, <2>2, ConnLess
  <2>3. CASE k \in used /\ k \notin used'
    <3>1. m.type = "CONNECTION_TERMINATED" /\ m.conn = k
      BY <1>1, <2>3
    <3>2. m \in Reporting(k)
      BY <1>4, <3>1, Messages
    <3>3. Occurs(to_daemon, Reporting(k))
      BY <1>6, <3>2
    <3>4. /\ ~Occurs(to_agent, Announcing(k))
          /\ ~Occurs(requests_waiting_for_session, {k})
          /\ Registered(k) = {} /\ Servers(k) = {}
          /\ Once(to_daemon, Reporting(k))
      BY <2>1, <3>3 DEF ConnOK
    <3>5. ~Occurs(to_daemon', Reporting(k)) /\ Once(to_daemon', Reporting(k))
      BY <1>6, <3>2, <3>4
    <3> QED BY <1>1, <2>1, <3>4, <3>5 DEF ConnOK
  <2> QED BY <2>2, <2>3
<1> QED BY <1>2, <1>5, <1>7, <1>8

\* A descriptor that accept() or socket() returns was free: no request, slot
\* or client knows it.
LEMMA FreeFd ==
    ASSUME IInv, NEW f \in Fd, fdt[f] = None
    PROVE  /\ requester[f] = None
           /\ ~Occurs(to_daemon, Triggering(f))
           /\ f \notin asked
           /\ ~Occurs(to_agent, Answering(f))
           /\ \A i \in Watched : connection_info[i].fd # f
<1> USE DEF IInv
<1>1. requester[f] = None
  BY AgentAssumption DEF RequestInv, TypeOK
<1>2. \A i \in Watched : connection_info[i].fd # f
  BY AgentAssumption DEF TableInv, SlotOK, Watched, Owns
<1> QED BY <1>1, <1>2 DEF RequestInv

\* accept() and socket() return a free descriptor.
LEMMA LowestFd == \A f \in Lowest(FreeFds) : f \in Fd /\ fdt[f] = None
BY DEF Lowest, FreeFds

\* The agent accepts a client and passes its request on.
LEMMA TriggerStep ==
    ASSUME IInv, handle_trigger_io
    PROVE  IInv'
<1> USE DEF IInv
<1> DEFINE c == Head(backlog)
<1>0. PICK f \in Lowest(FreeFds) :
      /\ fdt' = [fdt EXCEPT ![f] = c]
      /\ to_daemon' = Append(to_daemon, [type |-> "TRIGGER_SERVICE", fd |-> f])
      /\ requester' = [requester EXCEPT ![f] = c]
  BY DEF handle_trigger_io, Send
<1> DEFINE m == [type |-> "TRIGGER_SERVICE", fd |-> f]
<1>1. /\ UNCHANGED <<tables, flags, scan, client, fork_server, proc, to_agent, daemon>>
      /\ pc = "trigger" /\ pc' = "top"
      /\ fds.trigger /\ fds' = [fds EXCEPT !.trigger = FALSE]
      /\ client[c].st = "sent"
      /\ fdt' = [fdt EXCEPT ![f] = c]
      /\ to_daemon' = Append(to_daemon, m)
      /\ requester' = [requester EXCEPT ![f] = c]
      /\ backlog' = Tail(backlog)
  BY <1>0 DEF handle_trigger_io
<1>2. backlog # <<>> /\ backlog \in Seq(Client) /\ to_daemon \in Seq(ToDaemonMsg)
  BY <1>1 DEF ClientInv, TypeOK
<1>3. c \in Client /\ backlog' \in Seq(Client)
  BY <1>1, <1>2, SMT
<1>4. f \in Fd /\ fdt[f] = None
  BY LowestFd
<1> HIDE DEF c
<1>5. m \in ToDaemonMsg /\ m.type = "TRIGGER_SERVICE" /\ m.fd = f
  BY <1>4 DEF ToDaemonMsg
<1> HIDE DEF m
<1>6. /\ requester[f] = None
      /\ ~Occurs(to_daemon, Triggering(f)) /\ f \notin asked /\ ~Occurs(to_agent, Answering(f))
      /\ \A i \in Watched : connection_info[i].fd # f
  BY <1>4, FreeFd
<1>7. /\ client[c].conn = None
      /\ \A g \in Fd : fdt[g] # c
      /\ ~Occurs(backlog', {c})
  <2>1. Occurs(backlog, {c}) /\ (Once(backlog, {c}) => ~Occurs(backlog', {c}))
    BY <1>1, <1>2, TailOccurs DEF c
  <2> QED BY <1>3, <2>1 DEF ClientInv
<1>8. TypeOK'
  <2>1. to_daemon' \in Seq(ToDaemonMsg)
    BY <1>1, <1>2, <1>5, SMT
  <2>2. fds' \in [trigger : BOOLEAN, rest : Seq(pollfd)]
    BY <1>1 DEF TypeOK
  <2> QED BY <1>1, <1>3, <1>4, <2>1, <2>2 DEF TypeOK, tables, flags, daemon, Phase
<1>9. RequestInv'
  <2>1. Once(to_daemon', Triggering(f))
    BY <1>1, <1>2, <1>5, <1>6, AppendOccurs
  <2>2. ASSUME NEW g \in Fd, g # f
        PROVE  /\ Occurs(to_daemon', Triggering(g)) <=> Occurs(to_daemon, Triggering(g))
               /\ Once(to_daemon, Triggering(g)) => Once(to_daemon', Triggering(g))
               /\ fdt'[g] = fdt[g] /\ requester'[g] = requester[g]
    <3>1. m \notin Triggering(g)
      BY <1>5, <2>2, Messages
    <3> QED BY <1>1, <1>2, <1>5, <2>2, <3>1, AppendOccurs, SMT DEF TypeOK
  <2>3. fdt'[f] = c /\ requester'[f] = c /\ c # None
    BY <1>1, <1>3, <1>4, AgentAssumption DEF TypeOK
  <2>4. asked' = asked /\ to_agent' = to_agent /\ client' = client
    BY <1>1 DEF daemon
  <2> QED BY <1>6, <1>7, <2>1, <2>2, <2>3, <2>4, ZenonT(30) DEF RequestInv
<1>10. ClientInv'
  <2>1. \A g \in Fd : fdt'[g] = IF g = f THEN c ELSE fdt[g]
    BY <1>1 DEF TypeOK
  <2>2. \A x \in Client : /\ Once(backlog, {x}) => Once(backlog', {x})
                          /\ Occurs(backlog', {x}) => Occurs(backlog, {x})
    BY <1>1, <1>2, TailOccurs
  <2>3. fds'.trigger = FALSE
    BY <1>1 DEF TypeOK
  <2>4. ASSUME NEW x \in Client
        PROVE  /\ client[x].st = "idle" => client[x].conn = None /\ \A g \in Fd : fdt'[g] # x
               /\ Once(backlog', {x})
               /\ Occurs(backlog', {x}) => /\ client[x].st # "idle"
                                           /\ client[x].conn = None
                                           /\ \A g \in Fd : fdt'[g] # x
    <3>1. /\ client[x].st = "idle" => client[x].conn = None /\ \A g \in Fd : fdt[g] # x
          /\ Once(backlog, {x})
          /\ Occurs(backlog, {x}) => /\ client[x].st # "idle"
                                     /\ client[x].conn = None
                                     /\ \A g \in Fd : fdt[g] # x
      BY DEF ClientInv
    <3>2. x = c => client[x].st # "idle" /\ ~Occurs(backlog', {x})
      BY <1>1, <1>7
    <3>3. Once(backlog', {x}) /\ (Occurs(backlog', {x}) => Occurs(backlog, {x}))
      BY <2>2, <3>1
    <3> QED BY <2>1, <3>1, <3>2, <3>3
  <2>5. \A g, h \in Fd : fdt'[g] = fdt'[h] /\ fdt'[g] \in Client => g = h
    BY <1>7, <2>1 DEF ClientInv
  <2> QED BY <1>1, <2>3, <2>4, <2>5 DEF ClientInv
<1>11. TableInv'
  <2>1. \A g \in Fd : g # f => fdt'[g] = fdt[g] /\ requester'[g] = requester[g]
    BY <1>1 DEF TypeOK
  <2>2. connection_info' = connection_info /\ proc' = proc /\ client' = client
    BY <1>1 DEF tables
  <2>3. \A i \in Slot : connection_info[i].fd \in Fd \cup {-1}
    BY DEF TypeOK, connection_info_t
  <2> QED BY <1>6, <2>1, <2>2, <2>3, ZenonT(30) DEF TableInv, SlotOK, Owns, Watched
<1>12. SessionInv' /\ ScanInv'
  BY <1>1, SessionFrame, NotScanning DEF ScanInv, tables
<1>13. ConnInv'
  <2> SUFFICES ASSUME NEW k \in Conn PROVE ConnOK(k)'
    BY DEF ConnInv
  <2>1. Registered(k)' = Registered(k) /\ Servers(k)' = Servers(k)
    BY <1>1, SameServers, SameSlots DEF tables
  <2>2. m \notin Reporting(k)
    BY <1>5, Messages
  <2>3. /\ Occurs(to_daemon', Reporting(k)) <=> Occurs(to_daemon, Reporting(k))
        /\ Once(to_daemon, Reporting(k)) => Once(to_daemon', Reporting(k))
    BY <1>1, <1>2, <1>5, <2>2, AppendOccurs
  <2> QED BY <1>1, <2>1, <2>3, ConnLess DEF ConnInv, tables, daemon
<1> QED BY <1>8, <1>9, <1>10, <1>11, <1>12, <1>13

\* A client that closed before its request was read is dropped.
LEMMA TriggerErrorStep ==
    ASSUME IInv, handle_trigger_io_error
    PROVE  IInv'
<1> USE DEF IInv
<1> DEFINE c == Head(backlog)
<1>1. /\ UNCHANGED <<tables, flags, scan, fdt, fork_server, proc, to_agent, to_daemon, daemon,
                     requester>>
      /\ pc = "trigger" /\ pc' = "top"
      /\ fds.trigger /\ fds' = [fds EXCEPT !.trigger = FALSE]
      /\ client' = [client EXCEPT ![c] = Idle]
      /\ backlog' = Tail(backlog)
  BY DEF handle_trigger_io_error
<1> USE DEF tables, flags, daemon
<1>2. backlog # <<>> /\ backlog \in Seq(Client)
  BY <1>1 DEF ClientInv, TypeOK
<1>3. c \in Client /\ backlog' \in Seq(Client)
  BY <1>1, <1>2, SMT
<1> HIDE DEF c
<1>4. /\ client[c].conn = None
      /\ \A g \in Fd : fdt[g] # c
      /\ ~Occurs(backlog', {c})
  <2>1. Occurs(backlog, {c}) /\ (Once(backlog, {c}) => ~Occurs(backlog', {c}))
    BY <1>1, <1>2, TailOccurs DEF c
  <2> QED BY <1>3, <2>1 DEF ClientInv
<1>5. /\ client' \in [Client -> ClientState]
      /\ \A x \in Client : client'[x].conn = client[x].conn
      /\ \A x \in Client : x # c => client'[x] = client[x]
  BY <1>1, <1>4 DEF TypeOK, ClientState, Idle
<1>6. TypeOK'
  <2>1. fds' \in [trigger : BOOLEAN, rest : Seq(pollfd)]
    BY <1>1 DEF TypeOK
  <2> QED BY <1>1, <1>3, <1>5, <2>1 DEF TypeOK, Phase
<1>7. RequestInv'
  BY <1>1, <1>5, SMT DEF RequestInv, TypeOK
<1>8. ClientInv'
  <2>1. \A x \in Client : /\ Once(backlog, {x}) => Once(backlog', {x})
                          /\ Occurs(backlog', {x}) => Occurs(backlog, {x})
    BY <1>1, <1>2, TailOccurs
  <2>2. fds'.trigger = FALSE
    BY <1>1 DEF TypeOK
  <2>3. ASSUME NEW x \in Client
        PROVE  /\ client'[x].st = "idle" => client'[x].conn = None /\ \A g \in Fd : fdt[g] # x
               /\ Once(backlog', {x})
               /\ Occurs(backlog', {x}) => /\ client'[x].st # "idle"
                                           /\ client'[x].conn = None
                                           /\ \A g \in Fd : fdt[g] # x
    <3>1. CASE x = c
      BY <3>1, <1>4, <1>5, <2>1 DEF ClientInv
    <3>2. CASE x # c
      BY <3>2, <1>5, <2>1 DEF ClientInv
    <3> QED BY <3>1, <3>2
  <2>4. \A g, h \in Fd : fdt[g] = fdt[h] /\ fdt[g] \in Client => g = h
    BY DEF ClientInv
  <2> QED BY <1>1, <2>2, <2>3, <2>4 DEF ClientInv
<1>9. TableInv'
  BY <1>1, <1>5, SMT DEF TableInv, SlotOK, Owns
<1>10. SessionInv' /\ ScanInv'
  BY <1>1, SessionFrame, NotScanning DEF ScanInv
<1>11. ConnInv'
  <2> SUFFICES ASSUME NEW k \in Conn PROVE ConnOK(k)'
    BY DEF ConnInv
  <2>1. Servers(k)' = Servers(k)
    BY <1>1, <1>5 DEF Servers
  <2>2. Registered(k)' = Registered(k)
    BY <1>1, SameSlots
  <2> QED BY <1>1, <2>1, <2>2, ConnLess DEF ConnInv
<1> QED BY <1>6, <1>7, <1>8, <1>9, <1>10, <1>11

\* ppoll() is given the watched descriptors in the order of their slots.
LEMMA PollSetAligned ==
    ASSUME TypeOK, NEW g \in Ordered(ToPoll)
    PROVE  /\ PollSet(g) \in Seq(pollfd) /\ DOMAIN PollSet(g) = DOMAIN g
           /\ g \in [DOMAIN g -> Slot] /\ \A n \in DOMAIN g : g[n] \in ToPoll
           /\ \A m, n \in DOMAIN g : m < n => g[m] < g[n]
           /\ \A i \in ToPoll : \E n \in DOMAIN g : g[n] = i
           /\ \A n \in DOMAIN g : /\ PollSet(g)[n].fd = connection_info[g[n]].fd
                                  /\ PollSet(g)[n].revents => Hup(PollSet(g)[n].fd)
<1>1. PICK k \in 0 .. MAX_FDS : g \in [1 .. k -> ToPoll]
  BY DEF Ordered
<1>2. /\ \A m, n \in DOMAIN g : m < n => g[m] < g[n]
      /\ \A i \in ToPoll : \E n \in DOMAIN g : g[n] = i
  BY DEF Ordered
<1>3. k \in Nat /\ DOMAIN g = 1 .. k /\ \A n \in 1 .. k : g[n] \in ToPoll
  BY <1>1, AgentAssumption, SMT
<1>4. \A i \in ToPoll : /\ i \in Slot
                        /\ connection_info[i].fd \in Fd
                        /\ Hup(connection_info[i].fd) \in BOOLEAN
  BY DEF TypeOK, ToPoll, Watched, connection_info_t, Hup
<1>5. PICK q : q = PollSet(g)
  OBVIOUS
<1>6. DOMAIN q = 1 .. k /\ \A n \in 1 .. k :
         q[n] = [fd |-> connection_info[g[n]].fd, revents |-> Hup(connection_info[g[n]].fd)]
  BY <1>3, <1>5 DEF PollSet
<1>7. \A n \in 1 .. k : /\ q[n] \in pollfd
                        /\ q[n].fd = connection_info[g[n]].fd
                        /\ q[n].revents = Hup(connection_info[g[n]].fd)
  BY <1>3, <1>4, <1>6, SMT DEF pollfd
<1>8. q \in Seq(pollfd)
  <2>1. q \in [1 .. k -> pollfd]
    BY <1>5, <1>6, <1>7 DEF PollSet
  <2> QED BY <1>3, <2>1, SMT
<1>9. g \in [DOMAIN g -> Slot]
  BY <1>1, <1>3, <1>4
<1> QED BY <1>2, <1>3, <1>5, <1>6, <1>7, <1>8, <1>9

\* ppoll() returns, and the loop over connection_info starts.
LEMMA PollStep ==
    ASSUME IInv, ppoll_ready
    PROVE  IInv'
<1> USE DEF IInv
<1>0. PICK g \in Ordered(ToPoll) :
         /\ pc' = IF g = <<>> THEN "cmds" ELSE "scan"
         /\ fds' = [trigger |-> HaveSpace /\ backlog # <<>>, rest |-> PollSet(g)]
  BY DEF ppoll_ready
<1>1. /\ UNCHANGED <<scan, tables, flags, peers, to_agent, to_daemon, daemon, requester>>
      /\ pc = "poll"
  BY DEF ppoll_ready
<1> USE DEF tables, flags, peers, daemon
<1>2. /\ fds'.trigger = (HaveSpace /\ backlog # <<>>)
      /\ fds'.rest = PollSet(g)
      /\ fds' \in [trigger : BOOLEAN, rest : Seq(pollfd)]
  BY <1>0, PollSetAligned
<1>3. TypeOK'
  <2>1. pc' \in {"cmds", "scan"}
    BY <1>0
  <2> QED BY <1>1, <1>2, <2>1 DEF TypeOK, Phase
<1>4. RequestInv' /\ TableInv' /\ SessionInv' /\ ConnInv'
  <2>1. pc' # "flush"
    BY <1>0
  <2> QED BY <1>1, <2>1, RequestFrame, TableFrame, SessionFrame, ConnFrame
<1>5. ClientInv'
  BY <1>1, <1>2 DEF ClientInv
<1>6. ScanInv'
  <2>1. CASE g = <<>>
    BY <1>0, <1>1, <2>1, NotScanning DEF ScanInv
  <2>2. CASE g # <<>>
    <3>1. scan = 1 /\ scan' = 1 /\ pc' = "scan"
      BY <1>0, <1>1, <2>2 DEF ScanInv
    <3>2. ToPoll = Watched
      <4>1. ToPoll # {}
        BY <2>2, SMT DEF Ordered
      <4> QED BY <4>1 DEF ToPoll
    <3>3. ToScan' = Watched
      BY <1>1, <3>1, AgentAssumption, SMT DEF ToScan, Watched, Slot
    <3>4. \A f : Hup(f) => Hup(f)'
      BY <1>1 DEF Hup
    <3>5. /\ DOMAIN PollSet(g) = DOMAIN g /\ g \in [DOMAIN g -> Slot]
          /\ \A n \in DOMAIN g : g[n] \in Watched
          /\ \A m, n \in DOMAIN g : m < n => g[m] < g[n]
          /\ \A i \in Watched : \E n \in DOMAIN g : g[n] = i
          /\ \A n \in DOMAIN g : /\ PollSet(g)[n].fd = connection_info[g[n]].fd
                                 /\ PollSet(g)[n].revents => Hup(PollSet(g)[n].fd)
      BY <3>2, PollSetAligned
    <3>6. Aligned(g)'
      BY <1>1, <1>2, <3>3, <3>4, <3>5 DEF Aligned
    <3> QED BY <1>2, <3>1, <3>5, <3>6 DEF ScanInv
  <2> QED BY <2>1, <2>2
<1> QED BY <1>3, <1>4, <1>5, <1>6

\* register_vchan_connection() fills a free slot, or does nothing.
LEMMA Registering ==
    ASSUME TypeOK, NEW pid \in Pid \cup {-1}, NEW fd \in Fd \cup {-1}, NEW conn \in Conn,
           register_vchan_connection(pid, fd, conn)
    PROVE  /\ connection_info' \in [Slot -> connection_info_t]
           /\ \/ connection_info' = connection_info
              \/ \E i \in Slot :
                    /\ connection_info[i].pid = 0
                    /\ connection_info'[i] = [pid |-> pid, fd |-> fd, conn |-> conn]
                    /\ \A j \in Slot : j # i => connection_info'[j] = connection_info[j]
           /\ \A k : k # conn => Registered(k)' = Registered(k)
           /\ Registered(conn) = {} => AtMostOne(Registered(conn)')
<1> DEFINE s == [pid |-> pid, fd |-> fd, conn |-> conn]
<1>1. CASE connection_info' = connection_info
  <2>1. connection_info' = connection_info
    BY <1>1
  <2>2. \A k : Registered(k)' = Registered(k)
    BY <2>1, SameSlots
  <2> QED BY <2>1, <2>2 DEF TypeOK, AtMostOne
<1>2. ASSUME NEW i \in Lowest(FreeSlots), connection_info' = [connection_info EXCEPT ![i] = s]
      PROVE  /\ connection_info' \in [Slot -> connection_info_t]
             /\ i \in Slot /\ connection_info[i].pid = 0
             /\ connection_info'[i] = s
             /\ \A j \in Slot : j # i => connection_info'[j] = connection_info[j]
             /\ \A k : k # conn => Registered(k)' = Registered(k)
             /\ Registered(conn) = {} => AtMostOne(Registered(conn)')
  <2>2. i \in Slot /\ connection_info[i].pid = 0
    BY DEF Lowest, FreeSlots
  <2>3. connection_info' = [connection_info EXCEPT ![i] = s]
    BY <1>2
  <2>4. s \in connection_info_t /\ s.pid = pid /\ s.conn = conn
    BY DEF connection_info_t
  <2> HIDE DEF s
  <2>5. /\ connection_info' \in [Slot -> connection_info_t]
        /\ connection_info'[i] = s
        /\ \A j \in Slot : j # i => connection_info'[j] = connection_info[j]
    BY <2>2, <2>3, <2>4 DEF TypeOK
  <2>6. \A k : k # conn => Registered(k)' = Registered(k)
    BY <2>2, <2>4, <2>5 DEF Registered
  <2>7. Registered(conn) = {} => AtMostOne(Registered(conn)')
    BY <2>2, <2>5 DEF Registered, AtMostOne
  <2> QED BY <2>2, <2>5, <2>6, <2>7
<1>3. \/ connection_info' = connection_info
      \/ \E i \in Lowest(FreeSlots) : connection_info' = [connection_info EXCEPT ![i] = s]
  BY DEF register_vchan_connection
<1> QED BY <1>1, <1>2, <1>3

\* A command starts on the fork server or in a child: of its connection only,
\* with a descriptor or a process that nobody else has.
LEMMA Starting ==
    ASSUME IInv, NEW k \in Conn, handle_server_exec_request_do(k), requester' = requester,
           Registered(k) = {}, Servers(k) = {}
    PROVE  /\ connection_info' \in [Slot -> connection_info_t]
           /\ fdt' \in [Fd -> Client \cup Conn \cup {None}]
           /\ fork_server' \in [Conn -> {"none", "running", "closed"}]
           /\ proc' \in [Pid -> Process]
           /\ client' = client
           /\ \A f \in Fd : fdt'[f] # fdt[f] => fdt[f] = None /\ fdt'[f] = k
           /\ \A p \in Pid : proc[p].st # "none" => proc'[p] = proc[p]
           /\ \A j \in Conn : j # k => Registered(j)' = Registered(j) /\ Servers(j)' = Servers(j)
           /\ AtMostOne(Registered(k)')
           /\ AtMostOne(Servers(k)')
           /\ TableInv'
<1> USE DEF IInv
<1>1. /\ client' = client
      /\ try_fork_server(k) \/ handle_new_process(k)
  BY DEF handle_server_exec_request_do
<1>2. ASSUME NEW f \in Fd, fdt[f] = None, fdt' = [fdt EXCEPT ![f] = k],
             register_vchan_connection(-1, f, k),
             fork_server' = [fork_server EXCEPT ![k] = "running"],
             proc' = proc
      PROVE  /\ AtMostOne(Servers(k)')
             /\ \A j \in Conn : j # k => Servers(j)' = Servers(j)
             /\ TableInv'
  <2>1. AtMostOne(Servers(k)')
    <3>1. Servers(k)' \subseteq {k}
      BY <1>1, <1>2 DEF Servers
    <3> QED BY <3>1 DEF AtMostOne
  <2>2. \A j \in Conn : j # k => Servers(j)' = Servers(j)
    BY <1>1, <1>2, SMT DEF Servers, TypeOK
  <2>3. requester[f] = None /\ \A i \in Watched : connection_info[i].fd # f
    BY <1>2, FreeFd
  <2>4. fdt'[f] = k /\ \A g \in Fd : g # f => fdt'[g] = fdt[g]
    BY <1>2 DEF TypeOK
  <2>5. \A i \in Slot : connection_info[i].fd \in Fd \cup {-1}
    BY DEF TypeOK, connection_info_t
  <2>6. ASSUME NEW i \in Slot, connection_info'[i] = connection_info[i]
        PROVE  SlotOK(connection_info[i])'
    <3>1. SlotOK(connection_info[i]) /\ connection_info[i].fd \in Fd \cup {-1}
      BY <2>5 DEF TableInv
    <3>2. connection_info[i].pid # 0 => connection_info[i].fd # f
      BY <1>2, <2>3, AgentAssumption, SMTT(30) DEF Watched, Fd
    <3> QED BY <1>1, <1>2, <2>4, <2>6, <3>1, <3>2 DEF SlotOK, Owns
  <2>7. ASSUME NEW i \in Slot, connection_info'[i] = [pid |-> -1, fd |-> f, conn |-> k]
        PROVE  SlotOK(connection_info[i])'
    BY <2>3, <2>4, <2>7, AgentAssumption, SMTT(30) DEF SlotOK, Owns
  <2>8. \A i \in Slot : \/ connection_info'[i] = connection_info[i]
                        \/ connection_info'[i] = [pid |-> -1, fd |-> f, conn |-> k]
    BY <1>2, Registering, SMT
  <2>9. TableInv'
    BY <2>6, <2>7, <2>8 DEF TableInv
  <2> QED BY <2>1, <2>2, <2>9
<1>3. CASE try_fork_server(k)
  <2>0. PICK f \in Lowest(FreeFds) : /\ fdt' = [fdt EXCEPT ![f] = k]
                                     /\ register_vchan_connection(-1, f, k)
    BY <1>3 DEF try_fork_server
  <2>1. /\ fdt' = [fdt EXCEPT ![f] = k]
        /\ register_vchan_connection(-1, f, k)
        /\ fork_server' = [fork_server EXCEPT ![k] = "running"]
        /\ proc' = proc
    BY <1>3, <2>0 DEF try_fork_server
  <2>2. f \in Fd /\ fdt[f] = None
    BY LowestFd
  <2>3. /\ AtMostOne(Servers(k)')
        /\ \A j \in Conn : j # k => Servers(j)' = Servers(j)
        /\ TableInv'
    BY <1>2, <2>1, <2>2
  <2>4. /\ fdt' \in [Fd -> Client \cup Conn \cup {None}]
        /\ fork_server' \in [Conn -> {"none", "running", "closed"}]
        /\ \A g \in Fd : fdt'[g] # fdt[g] => fdt[g] = None /\ fdt'[g] = k
    BY <2>1, <2>2 DEF TypeOK
  <2>5. /\ connection_info' \in [Slot -> connection_info_t]
        /\ \A j \in Conn : j # k => Registered(j)' = Registered(j)
        /\ AtMostOne(Registered(k)')
    BY <2>1, <2>2, Registering
  <2> QED BY <1>1, <2>1, <2>3, <2>4, <2>5 DEF TypeOK
<1>4. CASE handle_new_process(k)
  <2>1. fdt' = fdt /\ fork_server' = fork_server
    BY <1>4 DEF handle_new_process
  <2>2. PICK p \in Pid \cup {-1} :
           /\ register_vchan_connection(p, -1, k)
           /\ \/ /\ p \in Pid /\ proc[p].st = "none"
                 /\ proc' = [proc EXCEPT ![p] = [st |-> "running", conn |-> k]]
              \/ p = -1 /\ proc' = proc
    <3>1. -1 \in Pid \cup {-1} /\ \A p \in FreePids : p \in Pid /\ proc[p].st = "none"
      BY DEF FreePids
    <3>2. CASE FreePids = {} /\ register_vchan_connection(-1, -1, k) /\ proc' = proc
      BY <3>1, <3>2
    <3>3. ASSUME NEW p \in FreePids,
                 proc' = [proc EXCEPT ![p] = [st |-> "running", conn |-> k]],
                 register_vchan_connection(p, -1, k)
          PROVE  \E q \in Pid \cup {-1} :
                    /\ register_vchan_connection(q, -1, k)
                    /\ q \in Pid /\ proc[q].st = "none"
                    /\ proc' = [proc EXCEPT ![q] = [st |-> "running", conn |-> k]]
      BY <3>1, <3>3
    <3> QED BY <1>4, <3>2, <3>3 DEF handle_new_process
  <2>3. /\ proc' \in [Pid -> Process]
        /\ \A q \in Pid : q # p => proc'[q] = proc[q]
        /\ p \in Pid => /\ proc[p].st = "none"
                        /\ proc'[p].st = "running" /\ proc'[p].conn = k
    <3>1. CASE p = -1
      BY <2>2, <3>1, AgentAssumption DEF TypeOK
    <3>2. CASE p # -1
      <4>1. /\ p \in Pid /\ proc[p].st = "none"
            /\ proc' = [proc EXCEPT ![p] = [st |-> "running", conn |-> k]]
        BY <2>2, <3>2
      <4>2. [st |-> "running", conn |-> k] \in Process
        BY DEF Process
      <4> QED BY <4>1, <4>2 DEF TypeOK
    <3> QED BY <3>1, <3>2
  <2>4. AtMostOne(Servers(k)')
    <3>1. Servers(k)' \subseteq {p}
      BY <1>1, <2>1, <2>3 DEF Servers
    <3> QED BY <3>1 DEF AtMostOne
  <2>5. \A j \in Conn : j # k => Servers(j)' = Servers(j)
    BY <1>1, <2>1, <2>3, ZenonT(30) DEF Servers
  <2>6. /\ connection_info' \in [Slot -> connection_info_t]
        /\ \A j \in Conn : j # k => Registered(j)' = Registered(j)
        /\ AtMostOne(Registered(k)')
        /\ \A i \in Slot : \/ connection_info'[i] = connection_info[i]
                           \/ connection_info'[i] = [pid |-> p, fd |-> -1, conn |-> k]
    <3>1. -1 \in Fd \cup {-1}
      OBVIOUS
    <3> QED BY <2>2, <3>1, Registering, SMT
  <2>7. ASSUME NEW i \in Slot, connection_info'[i] = connection_info[i]
        PROVE  SlotOK(connection_info[i])'
    BY <1>1, <2>1, <2>3, <2>7, ZenonT(30) DEF TableInv, SlotOK, Owns
  <2>8. ASSUME NEW i \in Slot, connection_info'[i] = [pid |-> p, fd |-> -1, conn |-> k]
        PROVE  SlotOK(connection_info[i])'
    BY <2>3, <2>8, SMTT(30) DEF SlotOK
  <2>9. TableInv'
    BY <2>6, <2>7, <2>8 DEF TableInv
  <2>10. \A q \in Pid : proc[q].st # "none" => proc'[q] = proc[q]
    BY <2>3
  <2> QED BY <1>1, <2>1, <2>3, <2>4, <2>5, <2>6, <2>9, <2>10 DEF TypeOK
<1> QED BY <1>1, <1>3, <1>4

\* A descriptor for the fork server disturbs no request and no client.
LEMMA FdtGrows ==
    ASSUME IInv, NEW k \in Conn, UNCHANGED <<client, backlog, fds>>,
           \A f \in Fd : fdt'[f] # fdt[f] => fdt[f] = None /\ fdt'[f] = k
    PROVE  /\ \A f \in Fd : requester[f] # None => fdt'[f] = requester[f]
           /\ ClientInv'
<1> USE DEF IInv
<1>1. \A f \in Fd : requester[f] # None => fdt'[f] = requester[f]
  BY AgentAssumption DEF RequestInv, TypeOK
<1>2. k \notin Client
  BY AgentAssumption
<1>3. \A f \in Fd, c \in Client : fdt'[f] = c => fdt[f] = c
  BY <1>2
<1>4. \A f, g \in Fd : fdt'[f] = fdt'[g] /\ fdt'[f] \in Client => f = g
  BY <1>3 DEF ClientInv
<1>5. ASSUME NEW c \in Client
      PROVE  (\A f \in Fd : fdt[f] # c) => \A f \in Fd : fdt'[f] # c
  BY <1>3
<1>6. ClientInv'
  BY <1>4, <1>5 DEF ClientInv
<1> QED BY <1>1, <1>6

\* The session has started: a postponed command starts.
LEMMA SessionStep ==
    ASSUME IInv, reap_children_session
    PROVE  IInv'
<1> USE DEF IInv
<1>1. /\ pc = "flush"
      /\ UNCHANGED <<flags, polled, backlog, to_agent, to_daemon, daemon, requester>>
  BY DEF reap_children_session
<1> USE DEF flags, polled, daemon
<1>2. CASE requests_waiting_for_session = <<>>
  <2>1. /\ wait_for_session_pid' = -1 /\ pc' = "reap"
        /\ UNCHANGED <<connection_info, requests_waiting_for_session, client, fdt, fork_server, proc>>
    BY <1>2 DEF reap_children_session
  <2>2. TypeOK'
    BY <1>1, <2>1 DEF TypeOK, Phase
  <2>3. RequestInv' /\ ClientInv' /\ TableInv' /\ ConnInv'
    BY <1>1, <2>1, RequestFrame, ClientFrame, TableFrame, ConnFrame
  <2>4. SessionInv' /\ ScanInv'
    BY <1>1, <2>1, NotScanning DEF SessionInv, ScanInv
  <2> QED BY <2>2, <2>3, <2>4
<1>3. CASE requests_waiting_for_session # <<>>
  <2> DEFINE q == requests_waiting_for_session
  <2>2. q \in Seq(Conn) /\ Len(q) <= MAX_FDS
    BY DEF TypeOK
  <2>0. PICK k \in Conn : k = Head(q)
    BY <1>3, <2>2, SMT
  <2>1. /\ handle_server_exec_request_do(k)
        /\ q' = Tail(q)
        /\ pc' = pc /\ wait_for_session_pid' = wait_for_session_pid
    BY <1>3, <2>0 DEF reap_children_session
  <2>3. k \in Conn /\ q' \in Seq(Conn) /\ Len(q') <= MAX_FDS
    BY <1>3, <2>1, <2>2, AgentAssumption, SMT
  <2>4. \A j : /\ Once(q, {j}) => Once(q', {j})
               /\ Occurs(q', {j}) => Occurs(q, {j})
               /\ j = k => Occurs(q, {j})
               /\ j = k /\ Once(q, {j}) => ~Occurs(q', {j})
    BY <1>3, <2>1, <2>2, <2>0, TailOccurs
  <2> HIDE DEF q
  <2>5. /\ ConnOK(k) /\ ~Occurs(to_agent, Announcing(k)) /\ Registered(k) = {}
        /\ ~Occurs(to_daemon, Reporting(k)) /\ Servers(k) = {} /\ k \in used
        /\ ~Occurs(q', {k}) /\ Once(q', {k})
    <3>1. ConnOK(k)
      BY <2>3 DEF ConnInv
    <3>2. Occurs(q, {k})
      BY <2>4
    <3> QED BY <2>4, <3>1, <3>2 DEF ConnOK, q
  <2>6. /\ connection_info' \in [Slot -> connection_info_t]
        /\ fdt' \in [Fd -> Client \cup Conn \cup {None}]
        /\ fork_server' \in [Conn -> {"none", "running", "closed"}]
        /\ proc' \in [Pid -> Process]
        /\ client' = client
        /\ \A f \in Fd : fdt'[f] # fdt[f] => fdt[f] = None /\ fdt'[f] = k
        /\ \A j \in Conn : j # k => Registered(j)' = Registered(j) /\ Servers(j)' = Servers(j)
        /\ AtMostOne(Registered(k)')
        /\ AtMostOne(Servers(k)')
        /\ TableInv'
    BY <1>1, <2>1, <2>3, <2>5, Starting
  <2>7. TypeOK'
    BY <1>1, <2>1, <2>3, <2>6 DEF TypeOK, q
  <2>8. ClientInv' /\ \A f \in Fd : requester[f] # None => fdt'[f] = requester[f]
    BY <1>1, <2>3, <2>6, FdtGrows
  <2>9. RequestInv'
    BY <1>1, <2>6, <2>8 DEF RequestInv
  <2>10. SessionInv' /\ ScanInv'
    BY <1>1, <2>1, NotScanning DEF SessionInv, ScanInv
  <2>11. ConnInv'
    <3> SUFFICES ASSUME NEW j \in Conn PROVE ConnOK(j)'
      BY DEF ConnInv
    <3>1. CASE j = k
      BY <1>1, <2>5, <2>6, <3>1 DEF ConnOK, q
    <3>2. CASE j # k
      BY <1>1, <2>4, <2>6, <3>2, ConnLess DEF ConnInv, q
    <3> QED BY <3>1, <3>2
  <2> QED BY <2>6, <2>7, <2>8, <2>9, <2>10, <2>11
<1> QED BY <1>2, <1>3

\* A report of a connection says nothing of requests ...
LEMMA ReportRequests ==
    ASSUME TypeOK, RequestInv, NEW k \in Conn,
           to_daemon' = Append(to_daemon, [type |-> "CONNECTION_TERMINATED", conn |-> k])
    PROVE  /\ to_daemon' \in Seq(ToDaemonMsg)
           /\ \A f \in Fd : /\ Once(to_daemon', Triggering(f))
                            /\ Occurs(to_daemon', Triggering(f)) <=> Occurs(to_daemon, Triggering(f))
<1> DEFINE m == [type |-> "CONNECTION_TERMINATED", conn |-> k]
<1>1. m \in ToDaemonMsg /\ m.type = "CONNECTION_TERMINATED"
  BY DEF ToDaemonMsg
<1>2. to_daemon \in Seq(ToDaemonMsg)
  BY DEF TypeOK
<1> HIDE DEF m
<1>3. ASSUME NEW f \in Fd
      PROVE  /\ Once(to_daemon', Triggering(f))
             /\ Occurs(to_daemon', Triggering(f)) <=> Occurs(to_daemon, Triggering(f))
  <2>1. m \notin Triggering(f)
    BY <1>1, Messages
  <2> QED BY <1>1, <1>2, <2>1, AppendOccurs, SMTT(30) DEF RequestInv, m
<1> QED BY <1>1, <1>2, <1>3, SMT DEF m

\* ... and is the only trace of a connection that was registered, if its slot
\* and its server are gone.
LEMMA ReportConn ==
    ASSUME TypeOK, ConnInv, NEW k \in Conn, Registered(k) # {},
           to_daemon' = Append(to_daemon, [type |-> "CONNECTION_TERMINATED", conn |-> k]),
           Registered(k)' = {}, Servers(k)' = {},
           \A j \in Conn : j # k => /\ Registered(j)' \subseteq Registered(j)
                                    /\ Servers(j)' \subseteq Servers(j),
           UNCHANGED <<to_agent, requests_waiting_for_session, used>>
    PROVE  ConnInv'
<1> SUFFICES ASSUME NEW j \in Conn PROVE ConnOK(j)'
  BY DEF ConnInv
<1> DEFINE m == [type |-> "CONNECTION_TERMINATED", conn |-> k]
<1>1. m \in ToDaemonMsg /\ m.type = "CONNECTION_TERMINATED" /\ m.conn = k
  BY DEF ToDaemonMsg
<1>2. to_daemon \in Seq(ToDaemonMsg) /\ to_daemon' = Append(to_daemon, m)
  BY DEF TypeOK
<1> HIDE DEF m
<1>3. CASE j # k
  <2>1. m \notin Reporting(j)
    BY <1>1, <1>3, Messages
  <2>2. /\ Occurs(to_daemon', Reporting(j)) <=> Occurs(to_daemon, Reporting(j))
        /\ Once(to_daemon, Reporting(j)) => Once(to_daemon', Reporting(j))
    BY <1>1, <1>2, <2>1, AppendOccurs, SMT
  <2> QED BY <1>3, <2>2, ConnLess DEF ConnInv
<1>4. CASE j = k
  <2>1. /\ ~Occurs(to_agent, Announcing(k)) /\ Once(to_agent, Announcing(k))
        /\ ~Occurs(requests_waiting_for_session, {k}) /\ Once(requests_waiting_for_session, {k})
        /\ ~Occurs(to_daemon, Reporting(k))
        /\ k \in used
    BY DEF ConnInv, ConnOK
  <2>2. Once(to_daemon', Reporting(k))
    BY <1>1, <1>2, <2>1, AppendOccurs, SMT
  <2> QED BY <1>4, <2>1, <2>2 DEF ConnOK, AtMostOne
<1> QED BY <1>3, <1>4

\* waitpid() returns a child: the one that waits for the session, or one that
\* serves the connection of its slot.
LEMMA ReapStep ==
    ASSUME IInv, NEW p \in Pid, reap_children(p)
    PROVE  IInv'
<1> USE DEF IInv
<1>1. /\ UNCHANGED <<requests_waiting_for_session, wait_for_session_pid, flags, polled, fdt,
                     backlog, client, fork_server, to_agent, daemon, requester>>
      /\ pc = "reap" /\ pc' \in {"reap", "flush"}
      /\ proc[p].st = "zombie"
      /\ proc' = [proc EXCEPT ![p] = NoProc]
  BY DEF reap_children, Zombies
<1> USE DEF flags, polled, daemon
<1>2. /\ proc' \in [Pid -> Process]
      /\ proc'[p].st = "none"
      /\ \A q \in Pid : q # p => proc'[q] = proc[q]
  BY <1>1 DEF TypeOK, Process, NoProc
<1>3. /\ \A k \in Conn : Servers(k)' \subseteq Servers(k)
      /\ \A k \in Conn : p \notin Servers(k)'
      /\ \A k \in Conn : proc[p].conn = k => p \in Servers(k)
  BY <1>1, <1>2, AgentAssumption DEF Servers
<1>4. ClientInv' /\ ScanInv'
  BY <1>1, ClientFrame, NotScanning DEF ScanInv
<1>5. CASE UNCHANGED <<connection_info, to_daemon>> /\ (p = wait_for_session_pid \/ SlotsOf(p) = {})
           /\ (p = wait_for_session_pid => pc' = "flush")
  <2>1. TypeOK'
    BY <1>1, <1>2, <1>5 DEF TypeOK, Phase
  <2>2. RequestInv'
    BY <1>1, <1>5, RequestFrame
  <2>3. \A i \in Slot : connection_info[i].pid # p
    <3>1. CASE p = wait_for_session_pid
      <4>1. proc[p].conn = None
        BY <1>1, <3>1, AgentAssumption DEF SessionInv
      <4> QED BY <4>1, AgentAssumption DEF TableInv, SlotOK
    <3>2. CASE SlotsOf(p) = {}
      BY <3>2 DEF SlotsOf
    <3> QED BY <1>5, <3>1, <3>2
  <2>4. TableInv'
    BY <1>1, <1>2, <1>5, <2>3 DEF TableInv, SlotOK, Owns
  <2>5. SessionInv'
    BY <1>1, <1>2, <1>5 DEF SessionInv, TypeOK
  <2>6. ConnInv'
    <3> SUFFICES ASSUME NEW k \in Conn PROVE ConnOK(k)'
      BY DEF ConnInv
    <3>1. Registered(k)' = Registered(k)
      BY <1>5, SameSlots
    <3> QED BY <1>1, <1>3, <1>5, <3>1, ConnLess DEF ConnInv
  <2> QED BY <1>4, <2>1, <2>2, <2>4, <2>5, <2>6
<1>6. CASE /\ p # wait_for_session_pid
           /\ SlotsOf(p) # {}
           /\ \E i \in Lowest(SlotsOf(p)) : release_connection(i)
  <2>1. PICK i \in Slot : release_connection(i) /\ connection_info[i].pid = p
    BY <1>6 DEF Lowest, SlotsOf
  <2>2. PICK k \in Conn : /\ connection_info[i].conn = k
                          /\ proc[p].conn = k
                          /\ p \in Servers(k)
                          /\ i \in Registered(k)
    <3>1. connection_info[i].pid # 0
      BY <2>1, AgentAssumption
    <3> QED BY <1>3, <2>1, <3>1 DEF TableInv, SlotOK, Registered
  <2>3. /\ connection_info' = [connection_info EXCEPT ![i] = FreeSlot]
        /\ to_daemon' = Append(to_daemon, [type |-> "CONNECTION_TERMINATED", conn |-> k])
    BY <1>6, <2>1, <2>2 DEF release_connection, terminate_connection, Send
  <2>4. /\ connection_info' \in [Slot -> connection_info_t]
        /\ connection_info'[i] = FreeSlot
        /\ \A j \in Slot : j # i => connection_info'[j] = connection_info[j]
    BY <2>3 DEF TypeOK, connection_info_t, FreeSlot
  <2>5. /\ to_daemon' \in Seq(ToDaemonMsg)
        /\ \A f \in Fd : /\ Once(to_daemon', Triggering(f))
                         /\ Occurs(to_daemon', Triggering(f)) <=> Occurs(to_daemon, Triggering(f))
    BY <2>3, ReportRequests
  <2>6. TypeOK'
    BY <1>1, <1>2, <2>4, <2>5 DEF TypeOK, Phase
  <2>7. RequestInv'
    BY <1>1, <2>5 DEF RequestInv
  <2>8. \A j \in Slot : j # i => connection_info[j].pid # p
    <3> SUFFICES ASSUME NEW j \in Slot, connection_info[j].pid = p PROVE j = i
      OBVIOUS
    <3>1. j \in Registered(k)
      BY <2>2, AgentAssumption DEF TableInv, SlotOK, Registered
    <3> QED BY <2>2, <3>1 DEF ConnInv, ConnOK, AtMostOne
  <2>9. TableInv'
    <3> SUFFICES ASSUME NEW j \in Slot PROVE SlotOK(connection_info[j])'
      BY DEF TableInv
    <3>1. CASE j = i
      BY <2>4, <3>1, AgentAssumption, SMTT(30) DEF SlotOK, FreeSlot
    <3>2. CASE j # i
      BY <1>1, <1>2, <2>4, <2>8, <3>2, ZenonT(30) DEF TableInv, SlotOK, Owns
    <3> QED BY <3>1, <3>2
  <2>10. SessionInv'
    BY <1>1, <1>2, <1>6 DEF SessionInv, TypeOK
  <2>11. Servers(k)' = {} /\ Registered(k)' = {}
    <3>1. AtMostOne(Servers(k)) /\ AtMostOne(Registered(k))
      BY DEF ConnInv, ConnOK
    <3>2. Servers(k)' = {}
      BY <1>3, <2>2, <3>1 DEF AtMostOne
    <3>3. Registered(k)' = {}
      BY <2>2, <2>4, <3>1, SMTT(30) DEF AtMostOne, Registered, FreeSlot
    <3> QED BY <3>2, <3>3
  <2>12. \A j \in Conn : Registered(j)' \subseteq Registered(j)
    BY <2>4, SMTT(30) DEF Registered, FreeSlot
  <2>13. ConnInv'
    BY <1>1, <1>3, <2>2, <2>3, <2>11, <2>12, ReportConn
  <2> QED BY <1>4, <2>6, <2>7, <2>9, <2>10, <2>13
<1> QED BY <1>5, <1>6 DEF reap_children

\* close() of a descriptor touches what is behind it, and nothing else.
LEMMA Closing ==
    ASSUME IInv, NEW f \in Fd, Close(f)
    PROVE  /\ fdt' \in [Fd -> Client \cup Conn \cup {None}]
           /\ client' \in [Client -> ClientState]
           /\ fork_server' \in [Conn -> {"none", "running", "closed"}]
           /\ fdt'[f] = None /\ \A g \in Fd : g # f => fdt'[g] = fdt[g]
           /\ \A c \in Client :
                 client'[c] = IF c = fdt[f] /\ Gone(c) THEN Idle ELSE client[c]
           /\ \A k \in Conn :
                 fork_server'[k] = IF k = fdt[f] /\ fork_server[k] = "closed" THEN "none"
                                   ELSE fork_server[k]
           /\ backlog' = backlog /\ fds'.trigger = fds.trigger => ClientInv'
<1> USE DEF IInv
<1>1. /\ fdt' \in [Fd -> Client \cup Conn \cup {None}]
      /\ fdt'[f] = None
      /\ \A g \in Fd : g # f => fdt'[g] = fdt[g]
  BY DEF Close, TypeOK
<1>2. /\ client' \in [Client -> ClientState]
      /\ \A c \in Client : client'[c] = IF c = fdt[f] /\ Gone(c) THEN Idle ELSE client[c]
  <2>1. Idle \in ClientState
    BY DEF Idle, ClientState
  <2> QED BY <2>1 DEF Close, TypeOK
<1>3. /\ fork_server' \in [Conn -> {"none", "running", "closed"}]
      /\ \A k \in Conn :
            fork_server'[k] = IF k = fdt[f] /\ fork_server[k] = "closed" THEN "none"
                              ELSE fork_server[k]
  BY DEF Close, TypeOK
<1>4. ASSUME backlog' = backlog, fds'.trigger = fds.trigger PROVE ClientInv'
  <2>1. \A g \in Fd, c \in Client : fdt'[g] = c => fdt[g] = c /\ g # f
    BY <1>1, AgentAssumption
  <2>2. \A g, h \in Fd : fdt'[g] = fdt'[h] /\ fdt'[g] \in Client => g = h
    BY <2>1 DEF ClientInv
  <2>3. ASSUME NEW c \in Client
        PROVE  /\ client'[c].st = "idle" => client'[c].conn = None /\ \A g \in Fd : fdt'[g] # c
               /\ Once(backlog, {c})
               /\ Occurs(backlog, {c}) => /\ client'[c].st # "idle"
                                          /\ client'[c].conn = None
                                          /\ \A g \in Fd : fdt'[g] # c
    <3>1. CASE c = fdt[f]
      <4>1. \A g \in Fd : fdt'[g] # c
        BY <2>1, <3>1 DEF ClientInv
      <4>2. ~Occurs(backlog, {c}) /\ Once(backlog, {c})
        BY <3>1 DEF ClientInv
      <4>3. client'[c].st = "idle" => client'[c].conn = None
        <5>1. client'[c] = Idle \/ client'[c] = client[c]
          BY <1>2
        <5>2. Idle.conn = None
          BY DEF Idle
        <5> QED BY <5>1, <5>2 DEF ClientInv
      <4> QED BY <4>1, <4>2, <4>3
    <3>2. CASE c # fdt[f]
      <4>1. client'[c] = client[c]
        BY <1>2, <3>2
      <4>2. (\A g \in Fd : fdt[g] # c) => \A g \in Fd : fdt'[g] # c
        BY <2>1
      <4> QED BY <4>1, <4>2 DEF ClientInv
    <3> QED BY <3>1, <3>2
  <2> QED BY <1>4, <2>2, <2>3 DEF ClientInv
<1> QED BY <1>1, <1>2, <1>3, <1>4

\* Two slots do not wait for the same client or fork server process.
LEMMA OneSlotEach ==
    ASSUME IInv, NEW i \in Watched, NEW j \in Watched,
           fdt[connection_info[i].fd] = fdt[connection_info[j].fd]
    PROVE  i = j
<1> USE DEF IInv
<1>1. i \in Slot /\ j \in Slot
  BY DEF Watched
<1>2. /\ connection_info[i].pid # 0 /\ connection_info[j].pid # 0
      /\ connection_info[i].conn \in Conn /\ connection_info[j].conn \in Conn
      /\ Owns(connection_info[i].fd, connection_info[i].conn)
      /\ Owns(connection_info[j].fd, connection_info[j].conn)
  BY DEF Watched, TableInv, SlotOK
<1>3. connection_info[i].conn = connection_info[j].conn
  BY <1>2, AgentAssumption DEF Owns
<1>4. i \in Registered(connection_info[i].conn) /\ j \in Registered(connection_info[i].conn)
  BY <1>1, <1>2, <1>3 DEF Registered
<1> QED BY <1>2, <1>4 DEF ConnInv, ConnOK, AtMostOne

\* At a watched slot the next result of ppoll() is the one of its descriptor.
LEMMA ScanHead ==
    ASSUME IInv, pc = "scan", scan \in Watched
    PROVE  /\ fds.rest # <<>>
           /\ Head(fds.rest).fd = connection_info[scan].fd
           /\ Head(fds.rest).revents => Hup(connection_info[scan].fd)
           /\ \E g \in [DOMAIN fds.rest -> Slot] : Aligned(g) /\ g[1] = scan
<1> USE DEF IInv
<1>1. PICK g \in [DOMAIN fds.rest -> Slot] : Aligned(g)
  BY DEF ScanInv
<1>2. fds.rest \in Seq(pollfd) /\ scan \in Nat
  BY AgentAssumption, SMT DEF TypeOK
<1>3. scan \in ToScan /\ \A i \in ToScan : i \in Nat /\ i >= scan
  BY <1>2, AgentAssumption, SMTT(30) DEF ToScan, Watched, Slot
<1>4. PICK n \in DOMAIN fds.rest : g[n] = scan
  BY <1>1, <1>3 DEF Aligned
<1>5. DOMAIN fds.rest = 1 .. Len(fds.rest) /\ Len(fds.rest) \in Nat
  BY <1>2, SMT
<1>6. n = 1
  <2> SUFFICES ASSUME n # 1 PROVE FALSE
    OBVIOUS
  <2>1. 1 \in DOMAIN fds.rest /\ 1 < n
    BY <1>4, <1>5, SMT
  <2>2. g[1] < scan /\ g[1] \in ToScan
    BY <1>1, <1>4, <2>1 DEF Aligned
  <2>3. g[1] \in Nat /\ g[1] >= scan
    BY <1>3, <2>2
  <2> QED BY <1>2, <2>2, <2>3, SMT
<1>7. fds.rest # <<>> /\ Head(fds.rest) = fds.rest[1]
  BY <1>2, <1>4, <1>5, <1>6, SMT
<1>8. fds.rest[1].fd = connection_info[scan].fd /\ (fds.rest[1].revents => Hup(fds.rest[1].fd))
  BY <1>1, <1>4, <1>6 DEF Aligned
<1> QED BY <1>1, <1>4, <1>6, <1>7, <1>8

\* Going on to the next slot takes one result.
LEMMA ScanAdvance ==
    ASSUME IInv, pc = "scan", scan \in Watched, pc' = pc, fds'.rest = Tail(fds.rest),
           ToScan' = ToScan \ {scan},
           \A i \in ToScan :
               i # scan => /\ connection_info'[i].fd = connection_info[i].fd
                           /\ \A f \in Fd : f = connection_info[i].fd /\ Hup(f) => Hup(f)'
    PROVE  ScanInv'
<1> USE DEF IInv
<1>14. PICK r : r = fds.rest
  OBVIOUS
<1>15. PICK t : t = Tail(r)
  OBVIOUS
<1>1. PICK g \in [DOMAIN r -> Slot] : Aligned(g) /\ g[1] = scan
  BY <1>14, ScanHead
<1>2. r \in Seq(pollfd) /\ r # <<>>
  BY <1>14, ScanHead DEF TypeOK
<1>3. /\ DOMAIN r = 1 .. Len(r) /\ Len(r) \in Nat /\ Len(r) >= 1
      /\ DOMAIN t = 1 .. (Len(r) - 1)
      /\ \A n \in DOMAIN t : n + 1 \in DOMAIN r /\ t[n] = r[n + 1]
  BY <1>2, <1>15, SMT
<1>4. PICK h \in [DOMAIN t -> Slot] : \A n \in DOMAIN t : h[n] = g[n + 1]
  <2> DEFINE d == [n \in DOMAIN t |-> g[n + 1]]
  <2>1. d \in [DOMAIN t -> Slot] /\ \A n \in DOMAIN t : d[n] = g[n + 1]
    BY <1>1, <1>3
  <2> QED BY <2>1
<1>5. /\ \A n \in DOMAIN r : g[n] \in ToScan
      /\ \A m, n \in DOMAIN r : m < n => g[m] < g[n]
      /\ \A i \in ToScan : \E n \in DOMAIN r : g[n] = i
      /\ \A n \in DOMAIN r : r[n].fd = connection_info[g[n]].fd /\ (r[n].revents => Hup(r[n].fd))
  BY <1>1, <1>14 DEF Aligned
<1>6. \A n \in DOMAIN t : n \in Nat /\ n + 1 # 1 /\ 1 < n + 1 /\ 1 \in DOMAIN r
  BY <1>3, SMT
<1>7. \A i \in ToScan : i \in Nat
  BY AgentAssumption, SMT DEF ToScan, Watched, Slot
<1>8. \A n \in DOMAIN t : h[n] \in ToScan /\ h[n] # scan
  <2> SUFFICES ASSUME NEW n \in DOMAIN t PROVE h[n] \in ToScan /\ h[n] # scan
    OBVIOUS
  <2>1. h[n] = g[n + 1] /\ n + 1 \in DOMAIN r /\ g[1] < g[n + 1] /\ g[n + 1] \in ToScan
    BY <1>3, <1>4, <1>5, <1>6
  <2> QED BY <1>1, <1>7, <2>1, SMTT(30)
<1>9. \A m, n \in DOMAIN t : m < n => h[m] < h[n]
  <2> SUFFICES ASSUME NEW m \in DOMAIN t, NEW n \in DOMAIN t, m < n PROVE h[m] < h[n]
    OBVIOUS
  <2>1. m + 1 < n + 1 /\ m + 1 \in DOMAIN r /\ n + 1 \in DOMAIN r
    BY <1>3, <1>6, SMT
  <2> QED BY <1>4, <1>5, <2>1
<1>10. ASSUME NEW i \in ToScan, i # scan PROVE \E n \in DOMAIN t : h[n] = i
  <2>1. PICK n \in DOMAIN r : g[n] = i
    BY <1>5
  <2>2. n # 1
    BY <1>1, <1>10, <2>1
  <2>3. n - 1 \in DOMAIN t /\ (n - 1) + 1 = n
    BY <1>3, <2>1, <2>2, SMT
  <2>4. h[n - 1] = i
    BY <1>4, <2>1, <2>3
  <2> QED BY <2>3, <2>4
<1>11. ASSUME NEW n \in DOMAIN t
       PROVE  /\ t[n].fd = connection_info'[h[n]].fd
              /\ t[n].revents => Hup(t[n].fd)'
  <2>1. h[n] = g[n + 1] /\ n + 1 \in DOMAIN r /\ t[n] = r[n + 1]
    BY <1>3, <1>4
  <2>2. t[n].fd = connection_info[h[n]].fd /\ (t[n].revents => Hup(t[n].fd))
    BY <1>5, <2>1
  <2>3. t[n].fd \in Fd
    BY <1>8, <2>2, AgentAssumption DEF TypeOK, connection_info_t, ToScan, Watched
  <2> QED BY <1>8, <2>2, <2>3
<1>12. fds'.rest = t
  BY <1>14, <1>15
<1>13. Aligned(h)'
  BY <1>8, <1>9, <1>10, <1>11, <1>12 DEF Aligned
<1> QED BY <1>4, <1>12, <1>13 DEF ScanInv

\* A slot whose peer has closed is released: what served its connection is gone.
LEMMA ReleaseStep ==
    ASSUME IInv, NEW i \in Watched, i = scan, pc = "scan", pc' = pc, scan' = scan + 1,
           Hup(connection_info[i].fd), handle_terminated_fork_client(i),
           fds' = [fds EXCEPT !.rest = Tail(fds.rest)],
           UNCHANGED <<requests_waiting_for_session, wait_for_session_pid, flags, backlog, proc,
                       to_agent, daemon, requester>>
    PROVE  IInv'
<1> USE DEF IInv, flags, daemon
<1>1. PICK f \in Fd, k \in Conn :
         /\ i \in Slot /\ connection_info[i].pid # 0
         /\ connection_info[i].fd = f /\ connection_info[i].conn = k
         /\ requester[f] = None /\ Owns(f, k)
         /\ connection_info[i].pid \notin Pid
  BY AgentAssumption DEF Watched, TableInv, SlotOK, TypeOK, connection_info_t
<1>2. /\ Close(f)
      /\ connection_info' = [connection_info EXCEPT ![i] = FreeSlot]
      /\ to_daemon' = Append(to_daemon, [type |-> "CONNECTION_TERMINATED", conn |-> k])
  BY <1>1 DEF handle_terminated_fork_client, release_connection, terminate_connection, Send
<1>3. /\ connection_info' \in [Slot -> connection_info_t]
      /\ connection_info'[i] = FreeSlot
      /\ \A j \in Slot : j # i => connection_info'[j] = connection_info[j]
  BY <1>1, <1>2 DEF TypeOK, connection_info_t, FreeSlot
<1>4. /\ to_daemon' \in Seq(ToDaemonMsg)
      /\ \A g \in Fd : /\ Once(to_daemon', Triggering(g))
                       /\ Occurs(to_daemon', Triggering(g)) <=> Occurs(to_daemon, Triggering(g))
  BY <1>2, ReportRequests
<1>5. /\ fds' \in [trigger : BOOLEAN, rest : Seq(pollfd)]
      /\ fds'.trigger = fds.trigger
      /\ fds'.rest = Tail(fds.rest)
  <2>1. fds.rest \in Seq(pollfd) /\ fds.rest # <<>>
    BY ScanHead DEF TypeOK
  <2>2. Tail(fds.rest) \in Seq(pollfd)
    BY <2>1, SMT
  <2> QED BY <2>2 DEF TypeOK
<1>6. /\ fdt' \in [Fd -> Client \cup Conn \cup {None}]
      /\ client' \in [Client -> ClientState]
      /\ fork_server' \in [Conn -> {"none", "running", "closed"}]
      /\ fdt'[f] = None /\ \A g \in Fd : g # f => fdt'[g] = fdt[g]
      /\ \A c \in Client :
            client'[c] = IF c = fdt[f] /\ Gone(c) THEN Idle ELSE client[c]
      /\ \A j \in Conn :
            fork_server'[j] = IF j = fdt[f] /\ fork_server[j] = "closed" THEN "none"
                              ELSE fork_server[j]
      /\ ClientInv'
  BY <1>2, <1>5, Closing
<1>7. TypeOK'
  <2>1. scan' \in 1 .. MAX_FDS + 1
    BY <1>1, AgentAssumption, SMT DEF Slot
  <2> QED BY <1>3, <1>4, <1>5, <1>6, <2>1 DEF TypeOK
<1>8. Idle.conn = None /\ FreeSlot.pid = 0
  BY DEF Idle, FreeSlot
<1>9. RequestInv'
  <2>1. \A g \in Fd : requester[g] # None =>
                         fdt'[g] = requester[g] /\ client'[requester[g]].conn = None
    <3>1. \A c \in Client : client[c].conn = None => client'[c].conn = None
      BY <1>6, <1>8
    <3> QED BY <1>1, <1>6, <3>1 DEF RequestInv, TypeOK
  <2> QED BY <1>4, <2>1 DEF RequestInv
<1>10. ASSUME NEW j \in Watched, j # i
       PROVE  LET g == connection_info[j].fd IN
              /\ g \in Fd /\ fdt'[g] = fdt[g]
              /\ fdt[g] \in Client => client'[fdt[g]] = client[fdt[g]]
              /\ fdt[g] \in Conn => fork_server'[fdt[g]] = fork_server[fdt[g]]
  <2>1. connection_info[j].fd \in Fd
    BY DEF Watched, TypeOK, connection_info_t
  <2>2. fdt[connection_info[j].fd] # fdt[f]
    BY <1>1, <1>10, OneSlotEach
  <2> QED BY <1>6, <2>1, <2>2
<1>11. TableInv'
  <2> SUFFICES ASSUME NEW j \in Slot PROVE SlotOK(connection_info[j])'
    BY DEF TableInv
  <2>1. CASE j = i
    BY <1>3, <1>8, <2>1, AgentAssumption DEF SlotOK, FreeSlot
  <2>2. CASE j # i
    <3>1. connection_info'[j] = connection_info[j] /\ SlotOK(connection_info[j])
      BY <1>3, <2>2 DEF TableInv
    <3>2. CASE j \in Watched
      BY <1>10, <2>2, <3>1, <3>2, SMTT(30) DEF SlotOK, Owns
    <3>3. CASE j \notin Watched
      BY <3>1, <3>3 DEF SlotOK, Watched
    <3> QED BY <3>2, <3>3
  <2> QED BY <2>1, <2>2
<1>12. SessionInv'
  BY SessionFrame
<1>13. /\ Registered(k)' = {}
       /\ \A j \in Conn : Registered(j)' \subseteq Registered(j)
       /\ i \in Registered(k)
  <2>1. i \in Registered(k) /\ AtMostOne(Registered(k))
    BY <1>1 DEF Registered, ConnInv, ConnOK
  <2>2. \A j \in Conn : Registered(j)' \subseteq Registered(j) /\ i \notin Registered(j)'
    BY <1>3, <1>8 DEF Registered
  <2> QED BY <2>1, <2>2 DEF AtMostOne
<1>14. \A j \in Conn : Servers(j)' \subseteq Servers(j)
  BY <1>6, <1>8, AgentAssumption, SMT DEF Servers
<1>15. Servers(k)' = {}
  <2>1. AtMostOne(Servers(k))
    BY DEF ConnInv, ConnOK
  <2>2. CASE fdt[f] = k
    <3>1. fork_server[k] = "closed"
      BY <1>1, <2>2, AgentAssumption DEF Hup
    <3>2. k \in Servers(k) /\ k \notin Servers(k)'
      BY <1>6, <2>2, <3>1, AgentAssumption DEF Servers
    <3> QED BY <1>14, <2>1, <3>2 DEF AtMostOne
  <2>3. CASE fdt[f] \in Client /\ client[fdt[f]].conn = k
    <3>1. PICK c \in Client : c = fdt[f] /\ client[c].conn = k
      BY <2>3
    <3>2. client[c].st = "closed"
      BY <1>1, <3>1, AgentAssumption DEF Hup
    <3>3. client'[c] = Idle
      BY <1>6, <3>1, <3>2 DEF Gone
    <3>4. c \in Servers(k) /\ c \notin Servers(k)'
      BY <1>8, <3>1, <3>3, AgentAssumption DEF Servers
    <3> QED BY <1>14, <2>1, <3>4 DEF AtMostOne
  <2> QED BY <1>1, <2>2, <2>3 DEF Owns
<1>16. ConnInv'
  BY <1>2, <1>13, <1>14, <1>15, ReportConn
<1>17. ScanInv'
  <2>1. ToScan' = ToScan \ {scan}
    <3>1. \A j \in Slot : j \in Nat
      BY AgentAssumption, SMT DEF Slot
    <3>2. Watched' = Watched \ {i}
      BY <1>3, <1>8 DEF Watched
    <3>3. \A j \in Nat : j >= scan + 1 <=> j >= scan /\ j # scan
      BY <1>1, <3>1, SMT
    <3> QED BY <3>1, <3>2, <3>3 DEF ToScan, Watched
  <2>2. ASSUME NEW j \in ToScan, j # scan
        PROVE  /\ connection_info'[j].fd = connection_info[j].fd
               /\ \A g \in Fd : g = connection_info[j].fd /\ Hup(g) => Hup(g)'
    <3>1. j \in Watched /\ j \in Slot /\ j # i
      BY <2>2 DEF ToScan, Watched
    <3>2. connection_info'[j].fd = connection_info[j].fd
      BY <1>3, <3>1
    <3> QED BY <1>10, <3>1, <3>2, SMTT(30) DEF Hup
  <2> QED BY <1>5, <2>1, <2>2, ScanAdvance
<1> QED BY <1>6, <1>7, <1>9, <1>11, <1>12, <1>16, <1>17

\* One round of the loop over connection_info.  Its assertions hold.
LEMMA ScanStep ==
    ASSUME IInv, scan_connection_info
    PROVE  IInv'
<1> USE DEF IInv, flags, daemon
<1>1. /\ pc = "scan"
      /\ UNCHANGED <<requests_waiting_for_session, wait_for_session_pid, flags, backlog, proc,
                     to_agent, daemon, requester>>
  BY DEF scan_connection_info
<1>2. scan \in Nat /\ fds.rest \in Seq(pollfd) /\ MAX_FDS \in Nat
  BY AgentAssumption, SMT DEF TypeOK
<1>3. CASE UNCHANGED <<connection_info, fds, fdt, client, fork_server, to_daemon>>
           /\ scan' \in 1 .. MAX_FDS + 1 /\ pc' \in Phase
  <2>1. TypeOK' /\ RequestInv' /\ ClientInv' /\ TableInv' /\ SessionInv' /\ ConnInv'
    <3>1. TypeOK'
      BY <1>1, <1>3 DEF TypeOK
    <3>2. RequestInv' /\ ClientInv' /\ TableInv' /\ SessionInv' /\ ConnInv'
      BY <1>1, <1>3, RequestFrame, ClientFrame, TableFrame, SessionFrame, ConnFrame
    <3> QED BY <3>1, <3>2
  <2> QED
    <3>1. CASE scan > MAX_FDS
      <4>1. ToScan = {}
        BY <1>2, <3>1, AgentAssumption, SMT DEF ToScan, Watched, Slot
      <4>2. fds.rest = <<>>
        <5>1. PICK g \in [DOMAIN fds.rest -> Slot] : Aligned(g)
          BY <1>1 DEF ScanInv
        <5>2. DOMAIN fds.rest = {}
          BY <4>1, <5>1 DEF Aligned
        <5>3. Len(fds.rest) \in Nat /\ DOMAIN fds.rest = 1 .. Len(fds.rest)
          BY <1>2, SMT
        <5>4. Len(fds.rest) = 0
          <6>1. 1 \notin 1 .. Len(fds.rest)
            BY <5>2, <5>3
          <6> QED BY <5>3, <6>1, SMT
        <5> QED BY <1>2, <5>4, SMT
      <4>3. pc' = "cmds" /\ scan' = 1
        BY <3>1, <4>2 DEF scan_connection_info
      <4> QED BY <2>1, <4>3, NotScanning
    <3>2. CASE ~(scan > MAX_FDS) /\ scan \notin Watched
      <4>1. scan' = scan + 1 /\ pc' = pc
        BY <3>2 DEF scan_connection_info
      <4>2. ToScan' = ToScan
        <5>1. Watched' = Watched
          BY <1>3 DEF Watched
        <5>2. \A j \in Watched : j \in Nat /\ j # scan
          BY <3>2, AgentAssumption, SMT DEF Watched, Slot
        <5>3. \A j \in Watched : j >= scan + 1 <=> j >= scan
          BY <1>2, <5>2, SMT
        <5> QED BY <4>1, <5>1, <5>3 DEF ToScan
      <4>3. PICK g \in [DOMAIN fds.rest -> Slot] : Aligned(g)
        BY <1>1 DEF ScanInv
      <4>4. \A f : Hup(f) => Hup(f)'
        BY <1>3 DEF Hup
      <4>5. Aligned(g)'
        BY <1>3, <4>2, <4>3, <4>4 DEF Aligned
      <4>6. ScanInv'
        BY <1>1, <1>3, <4>1, <4>5 DEF ScanInv
      <4> QED BY <2>1, <4>6
    <3>3. CASE ~(scan > MAX_FDS) /\ scan \in Watched
      <4>1. fds' = [fds EXCEPT !.rest = Tail(fds.rest)]
        BY <1>1, <3>3, ScanHead DEF scan_connection_info
      <4>2. fds'.rest = Tail(fds.rest) /\ fds.rest # <<>>
        BY <1>1, <3>3, <4>1, ScanHead DEF TypeOK
      <4>3. Len(fds'.rest) = Len(fds.rest) - 1 /\ Len(fds.rest) \in Nat
        BY <1>2, <4>2, SMT
      <4> QED BY <1>3, <4>3, SMT
    <3> QED BY <3>1, <3>2, <3>3
<1>4. CASE ~(scan > MAX_FDS) /\ scan \in Watched
  <2>1. /\ fds.rest # <<>>
        /\ Head(fds.rest).fd = connection_info[scan].fd
        /\ Head(fds.rest).revents => Hup(connection_info[scan].fd)
    BY <1>1, <1>4, ScanHead
  <2>2. /\ fds' = [fds EXCEPT !.rest = Tail(fds.rest)]
        /\ scan' = scan + 1 /\ pc' = pc
        /\ IF Head(fds.rest).revents THEN handle_terminated_fork_client(scan)
           ELSE UNCHANGED <<connection_info, fdt, client, fork_server, to_daemon>>
    BY <1>4, <2>1 DEF scan_connection_info
  <2>3. CASE Head(fds.rest).revents
    <3>1. PICK i \in Watched : i = scan
      BY <1>4
    <3> QED BY <1>1, <2>1, <2>2, <2>3, <3>1, ReleaseStep
  <2>4. CASE ~Head(fds.rest).revents
    <3>1. UNCHANGED <<connection_info, fdt, client, fork_server, to_daemon>>
      BY <2>2, <2>4
    <3>2. /\ fds' \in [trigger : BOOLEAN, rest : Seq(pollfd)]
          /\ fds'.trigger = fds.trigger
          /\ fds'.rest = Tail(fds.rest)
      <4>1. Tail(fds.rest) \in Seq(pollfd)
        BY <1>2, <2>1, SMTT(30)
      <4> QED BY <2>2, <4>1 DEF TypeOK
    <3>3. TypeOK'
      <4>1. scan' \in 1 .. MAX_FDS + 1
        BY <1>2, <1>4, <2>2, SMT
      <4> QED BY <1>1, <2>2, <3>1, <3>2, <4>1 DEF TypeOK
    <3>4. RequestInv' /\ TableInv' /\ SessionInv' /\ ConnInv'
      BY <1>1, <2>2, <3>1, RequestFrame, TableFrame, SessionFrame, ConnFrame
    <3>5. ClientInv'
      BY <1>1, <3>1, <3>2 DEF ClientInv
    <3>6. ToScan' = ToScan \ {scan}
      <4>1. Watched' = Watched
        BY <3>1 DEF Watched
      <4>2. \A j \in Watched : j \in Nat
        BY AgentAssumption, SMT DEF Watched, Slot
      <4>3. \A j \in Watched : j >= scan + 1 <=> j >= scan /\ j # scan
        BY <1>2, <4>2, SMT
      <4> QED BY <2>2, <4>1, <4>3 DEF ToScan
    <3>7. \A f : Hup(f) => Hup(f)'
      BY <3>1 DEF Hup
    <3>8. ScanInv'
      BY <1>1, <1>4, <2>2, <3>1, <3>2, <3>6, <3>7, ScanAdvance
    <3> QED BY <3>3, <3>4, <3>5, <3>8
  <2> QED BY <2>3, <2>4
<1>5. CASE scan > MAX_FDS \/ scan \notin Watched
  <2>1. UNCHANGED <<connection_info, fds, fdt, client, fork_server, to_daemon>>
    BY <1>5 DEF scan_connection_info
  <2>2. scan' \in 1 .. MAX_FDS + 1 /\ pc' \in Phase
    BY <1>1, <1>2, <1>5, SMT DEF scan_connection_info, Phase, TypeOK
  <2> QED BY <1>3, <2>1, <2>2
<1> QED BY <1>4, <1>5

\* The agent reads a command of the daemon: what the rest of the ring holds.
LEMMA CommandHead ==
    ASSUME IInv, handle_server_cmd, NEW m, m = Head(to_agent)
    PROVE  /\ m \in ToAgentMsg
           /\ to_agent' \in Seq(ToAgentMsg)
           /\ \A k \in Conn : /\ Once(to_agent', Announcing(k))
                              /\ Occurs(to_agent', Announcing(k)) => Occurs(to_agent, Announcing(k))
                              /\ m \in Announcing(k) => /\ Occurs(to_agent, Announcing(k))
                                                        /\ ~Occurs(to_agent', Announcing(k))
           /\ \A f \in Fd : /\ Once(to_agent', Answering(f))
                            /\ Occurs(to_agent', Answering(f)) => Occurs(to_agent, Answering(f))
                            /\ m \in Answering(f) => /\ Occurs(to_agent, Answering(f))
                                                     /\ ~Occurs(to_agent', Answering(f))
<1> USE DEF IInv
<1>1. to_agent # <<>> /\ to_agent' = Tail(to_agent) /\ to_agent \in Seq(ToAgentMsg)
  BY DEF handle_server_cmd, TypeOK
<1>2. m \in ToAgentMsg /\ to_agent' \in Seq(ToAgentMsg)
  BY <1>1, SMT
<1>3. \A M : /\ Once(to_agent, M) => Once(to_agent', M)
             /\ Occurs(to_agent', M) => Occurs(to_agent, M)
             /\ m \in M => Occurs(to_agent, M)
             /\ Once(to_agent, M) /\ m \in M => ~Occurs(to_agent', M)
  BY <1>1, TailOccurs
<1>4. /\ \A k \in Conn : Once(to_agent, Announcing(k))
      /\ \A f \in Fd : Once(to_agent, Answering(f))
  BY DEF ConnInv, ConnOK, RequestInv
<1> QED BY <1>2, <1>3, <1>4

\* A command, and not an answer to a request, is read.
LEMMA CommandRequests ==
    ASSUME IInv, handle_server_cmd, NEW m, m = Head(to_agent),
           client' = client, requester' = requester, asked' = asked, to_daemon' = to_daemon,
           \A f \in Fd : requester[f] # None => fdt'[f] = requester[f]
    PROVE  RequestInv'
BY CommandHead DEF RequestInv, IInv

\* An announced connection is no place but the ring.
LEMMA CommandConn ==
    ASSUME IInv, handle_server_cmd, NEW m, m = Head(to_agent), m.type # "SERVICE_REFUSED"
    PROVE  /\ m.conn \in Conn
           /\ m.conn \in used
           /\ Registered(m.conn) = {} /\ Servers(m.conn) = {}
           /\ ~Occurs(to_agent', Announcing(m.conn))
           /\ ~Occurs(requests_waiting_for_session, {m.conn})
           /\ ~Occurs(to_daemon, Reporting(m.conn))
<1>1. m \in ToAgentMsg
  BY CommandHead
<1>2. m.conn \in Conn /\ m \in Announcing(m.conn)
  BY <1>1, Messages
<1>3. Occurs(to_agent, Announcing(m.conn)) /\ ~Occurs(to_agent', Announcing(m.conn))
  BY <1>2, CommandHead
<1>4. ConnOK(m.conn)
  BY <1>2 DEF IInv, ConnInv
<1> QED BY <1>2, <1>3, <1>4 DEF ConnOK

\* A command waits for the session.
LEMMA PostponeStep ==
    ASSUME IInv, handle_server_cmd, NEW m, m = Head(to_agent), m.type = "EXEC", postpone(m.conn)
    PROVE  IInv'
<1> USE DEF IInv
<1>1. PICK k \in Conn : k = m.conn
  BY CommandConn
<1>2. /\ k \in used /\ Registered(k) = {} /\ Servers(k) = {}
      /\ ~Occurs(to_agent', Announcing(k))
      /\ ~Occurs(requests_waiting_for_session, {k})
      /\ ~Occurs(to_daemon, Reporting(k))
  BY <1>1, CommandConn
<1>3. /\ pc = "cmds" /\ UNCHANGED <<pc, flags, polled, backlog, to_daemon, daemon>>
      /\ requester' = requester
      /\ Len(requests_waiting_for_session) < MAX_FDS
      /\ wait_for_session_maybe
      /\ requests_waiting_for_session' = Append(requests_waiting_for_session, k)
      /\ UNCHANGED <<connection_info, fdt, client, fork_server>>
  BY <1>1 DEF handle_server_cmd, postpone
<1> USE DEF flags, polled, daemon
<1>4. to_agent' \in Seq(ToAgentMsg)
  BY CommandHead
<1>5. /\ requests_waiting_for_session \in Seq(Conn)
      /\ requests_waiting_for_session' \in Seq(Conn)
      /\ Len(requests_waiting_for_session') <= MAX_FDS
  <2>1. requests_waiting_for_session \in Seq(Conn)
    BY DEF TypeOK
  <2> QED BY <1>3, <2>1, AgentAssumption, SMT
<1>6. /\ wait_for_session_pid' \in Pid \cup {-1}
      /\ proc' \in [Pid -> Process]
      /\ \A p \in Pid : proc[p].st # "none" => proc'[p] = proc[p]
      /\ \A p \in Pid : proc[p].st = "none" /\ proc'[p].st # "none" => proc'[p].conn = None
      /\ SessionInv'
  <2>1. CASE wait_for_session_pid # -1 /\ UNCHANGED <<wait_for_session_pid, proc>>
    BY <1>3, <2>1, SessionFrame DEF TypeOK
  <2>2. ASSUME NEW p \in FreePids, wait_for_session_pid' = p,
               proc' = [proc EXCEPT ![p] = [st |-> "running", conn |-> None]]
        PROVE  /\ wait_for_session_pid' \in Pid \cup {-1}
               /\ proc' \in [Pid -> Process]
               /\ \A q \in Pid : proc[q].st # "none" => proc'[q] = proc[q]
               /\ \A q \in Pid : proc[q].st = "none" /\ proc'[q].st # "none" => proc'[q].conn = None
               /\ SessionInv'
    <3>1. p \in Pid /\ proc[p].st = "none"
      BY DEF FreePids
    <3>2. [st |-> "running", conn |-> None] \in Process
      BY DEF Process
    <3>3. proc'[p] = [st |-> "running", conn |-> None] /\ \A q \in Pid : q # p => proc'[q] = proc[q]
      BY <2>2, <3>1 DEF TypeOK
    <3>4. proc'[p].st # "none" /\ proc'[p].conn = None
      BY <3>3, SMT
    <3>5. SessionInv'
      BY <2>2, <3>4 DEF SessionInv
    <3> QED BY <2>2, <3>1, <3>2, <3>3, <3>4, <3>5 DEF TypeOK
  <2> QED BY <1>3, <2>1, <2>2 DEF wait_for_session_maybe
<1>7. TypeOK'
  BY <1>3, <1>4, <1>5, <1>6 DEF TypeOK
<1>8. RequestInv' /\ ClientInv' /\ ScanInv'
  <2>1. \A f \in Fd : requester[f] # None => fdt'[f] = requester[f]
    BY <1>3 DEF RequestInv
  <2> QED BY <1>3, <2>1, CommandRequests, ClientFrame, NotScanning DEF ScanInv
<1>9. TableInv'
  BY <1>3, <1>6 DEF TableInv, SlotOK, Owns
<1>10. ConnInv'
  <2> SUFFICES ASSUME NEW j \in Conn PROVE ConnOK(j)'
    BY DEF ConnInv
  <2>1. Servers(j)' = Servers(j)
    BY <1>3, <1>6, AgentAssumption DEF Servers
  <2>2. Registered(j)' = Registered(j)
    BY <1>3, SameSlots
  <2>3. CASE j = k
    <3>1. Once(requests_waiting_for_session', {k})
      BY <1>2, <1>3, <1>5, AppendOccurs
    <3>2. Once(to_agent', Announcing(k)) /\ Once(to_daemon, Reporting(k))
      BY CommandHead DEF ConnInv, ConnOK
    <3> QED BY <1>2, <1>3, <2>1, <2>2, <2>3, <3>1, <3>2 DEF ConnOK, AtMostOne
  <2>4. CASE j # k
    <3>1. k \notin {j}
      BY <2>4
    <3>2. /\ Occurs(requests_waiting_for_session', {j}) => Occurs(requests_waiting_for_session, {j})
          /\ Once(requests_waiting_for_session, {j}) => Once(requests_waiting_for_session', {j})
      BY <1>3, <1>5, <3>1, AppendOccurs
    <3>3. /\ Once(to_agent', Announcing(j))
          /\ Occurs(to_agent', Announcing(j)) => Occurs(to_agent, Announcing(j))
      BY CommandHead
    <3> QED BY <1>3, <2>1, <2>2, <3>2, <3>3, ConnLess DEF ConnInv
  <2> QED BY <2>3, <2>4
<1> QED BY <1>6, <1>7, <1>8, <1>9, <1>10

\* A command starts.
LEMMA StartStep ==
    ASSUME IInv, handle_server_cmd, NEW m, m = Head(to_agent), m.type = "EXEC",
           handle_server_exec_request_do(m.conn),
           UNCHANGED <<requests_waiting_for_session, wait_for_session_pid>>
    PROVE  IInv'
<1> USE DEF IInv
<1>1. PICK k \in Conn : k = m.conn
  BY CommandConn
<1>2. /\ k \in used /\ Registered(k) = {} /\ Servers(k) = {}
      /\ ~Occurs(to_agent', Announcing(k))
      /\ ~Occurs(requests_waiting_for_session, {k})
      /\ ~Occurs(to_daemon, Reporting(k))
  BY <1>1, CommandConn
<1>3. /\ pc = "cmds" /\ UNCHANGED <<pc, flags, polled, backlog, to_daemon, daemon>>
      /\ requester' = requester
      /\ handle_server_exec_request_do(k)
  BY <1>1 DEF handle_server_cmd
<1> USE DEF flags, polled, daemon
<1>4. to_agent' \in Seq(ToAgentMsg)
  BY CommandHead
<1>5. /\ connection_info' \in [Slot -> connection_info_t]
      /\ fdt' \in [Fd -> Client \cup Conn \cup {None}]
      /\ fork_server' \in [Conn -> {"none", "running", "closed"}]
      /\ proc' \in [Pid -> Process]
      /\ client' = client
      /\ \A f \in Fd : fdt'[f] # fdt[f] => fdt[f] = None /\ fdt'[f] = k
      /\ \A p \in Pid : proc[p].st # "none" => proc'[p] = proc[p]
      /\ \A j \in Conn : j # k => Registered(j)' = Registered(j) /\ Servers(j)' = Servers(j)
      /\ AtMostOne(Registered(k)')
      /\ AtMostOne(Servers(k)')
      /\ TableInv'
  BY <1>2, <1>3, Starting
<1>6. TypeOK'
  BY <1>3, <1>4, <1>5 DEF TypeOK
<1>7. ClientInv' /\ \A f \in Fd : requester[f] # None => fdt'[f] = requester[f]
  BY <1>3, <1>5, FdtGrows
<1>8. RequestInv'
  BY <1>3, <1>5, <1>7, CommandRequests
<1>9. SessionInv' /\ ScanInv'
  BY <1>3, <1>5, NotScanning DEF SessionInv, ScanInv, TypeOK
<1>10. ConnInv'
  <2> SUFFICES ASSUME NEW j \in Conn PROVE ConnOK(j)'
    BY DEF ConnInv
  <2>1. Once(to_agent', Announcing(j)) /\
        (Occurs(to_agent', Announcing(j)) => Occurs(to_agent, Announcing(j)))
    BY CommandHead
  <2>2. CASE j = k
    <3>1. Once(requests_waiting_for_session, {k}) /\ Once(to_daemon, Reporting(k))
      BY DEF ConnInv, ConnOK
    <3> QED BY <1>2, <1>3, <1>5, <2>1, <2>2, <3>1 DEF ConnOK
  <2>3. CASE j # k
    BY <1>3, <1>5, <2>1, <2>3, ConnLess DEF ConnInv
  <2> QED BY <2>2, <2>3
<1> QED BY <1>5, <1>6, <1>7, <1>8, <1>9, <1>10

\* An answer: the request was open, its client waits behind the descriptor,
\* and no slot watches it.
AnswersTo(m, f, c) ==
    /\ f = m.fd /\ fdt[f] = c /\ requester[f] = c /\ client[c].conn = None
    /\ requester' = [requester EXCEPT ![f] = None]
    /\ f \notin asked
    /\ ~Occurs(to_daemon, Triggering(f))
    /\ ~Occurs(to_agent', Answering(f))
    /\ client[c].st # "idle"
    /\ ~Occurs(backlog, {c})
    /\ \A g \in Fd : g # f => fdt[g] # c
    /\ \A i \in Watched : /\ connection_info[i].fd # f
                          /\ fdt[connection_info[i].fd] # c

\* The answer at the head of the ring is one to an open request.
LEMMA AnswerHead ==
    ASSUME IInv, handle_server_cmd, NEW m, m = Head(to_agent), m.type # "EXEC"
    PROVE  \E f \in Fd, c \in Client : AnswersTo(m, f, c)
<1> USE DEF IInv
<1>1. m \in ToAgentMsg
  BY CommandHead
<1>2. PICK f \in Fd : f = m.fd /\ m \in Answering(f)
  BY <1>1, Messages
<1>3. Occurs(to_agent, Answering(f)) /\ ~Occurs(to_agent', Answering(f))
  BY <1>2, CommandHead
<1>4. /\ requester[f] # None /\ f \notin asked /\ ~Occurs(to_daemon, Triggering(f))
      /\ fdt[f] = requester[f] /\ client[requester[f]].conn = None
  BY <1>3 DEF RequestInv
<1>5. PICK c \in Client : c = requester[f]
  BY <1>4 DEF TypeOK
<1>6. /\ client[c].st # "idle" /\ ~Occurs(backlog, {c})
      /\ \A g \in Fd : g # f => fdt[g] # c
  BY <1>4, <1>5 DEF ClientInv
<1>7. ASSUME NEW i \in Watched
      PROVE  connection_info[i].fd # f /\ fdt[connection_info[i].fd] # c
  <2>1. /\ connection_info[i].fd \in Fd
        /\ requester[connection_info[i].fd] = None
    BY DEF Watched, TableInv, SlotOK, TypeOK, connection_info_t
  <2> QED BY <1>4, <1>6, <2>1
<1>8. requester' = [requester EXCEPT ![f] = None]
  BY <1>2 DEF handle_server_cmd
<1>9. AnswersTo(m, f, c)
  BY <1>2, <1>3, <1>4, <1>5, <1>6, <1>7, <1>8 DEF AnswersTo
<1> QED BY <1>9

\* MSG_SERVICE_REFUSED closes the socket of the client that asked.
LEMMA RefusedStep ==
    ASSUME IInv, handle_server_cmd, NEW m, m = Head(to_agent), m.type = "SERVICE_REFUSED"
    PROVE  IInv'
<1> USE DEF IInv
<1>0. PICK f \in Fd, c \in Client : AnswersTo(m, f, c)
  BY AnswerHead
<1>1. /\ f = m.fd /\ fdt[f] = c /\ requester[f] = c /\ client[c].conn = None
      /\ requester' = [requester EXCEPT ![f] = None]
      /\ f \notin asked
      /\ ~Occurs(to_daemon, Triggering(f))
      /\ ~Occurs(to_agent', Answering(f))
      /\ \A g \in Fd : g # f => fdt[g] # c
      /\ \A i \in Watched : connection_info[i].fd # f /\ fdt[connection_info[i].fd] # c
  BY <1>0 DEF AnswersTo
<1>2. /\ pc = "cmds" /\ UNCHANGED <<pc, flags, polled, backlog, to_daemon, daemon>>
      /\ Close(f) /\ UNCHANGED <<tables, proc>>
  BY <1>1 DEF handle_server_cmd, handle_service_refused
<1> USE DEF flags, polled, daemon, tables
<1>3. /\ fdt' \in [Fd -> Client \cup Conn \cup {None}]
      /\ client' \in [Client -> ClientState]
      /\ fork_server' \in [Conn -> {"none", "running", "closed"}]
      /\ fdt'[f] = None /\ \A g \in Fd : g # f => fdt'[g] = fdt[g]
      /\ \A x \in Client : x # c => client'[x] = client[x]
      /\ client'[c].conn = None
      /\ \A k \in Conn : fork_server'[k] = fork_server[k]
      /\ ClientInv'
  <2>1. Idle.conn = None /\ \A k \in Conn : k # fdt[f]
    BY <1>1, AgentAssumption DEF Idle
  <2> QED BY <1>1, <1>2, <2>1, Closing, ZenonT(30)
<1>4. TypeOK'
  <2>1. to_agent' \in Seq(ToAgentMsg)
    BY CommandHead
  <2> QED BY <1>1, <1>2, <1>3, <2>1 DEF TypeOK
<1>5. RequestInv'
  <2>1. ASSUME NEW g \in Fd, g # f
        PROVE  /\ requester'[g] = requester[g] /\ fdt'[g] = fdt[g]
               /\ requester[g] # None => client'[requester[g]].conn = None
    BY <1>1, <1>3, <2>1, ZenonT(30) DEF RequestInv, TypeOK
  <2>2. requester'[f] = None
    BY <1>1 DEF TypeOK
  <2>3. \A g \in Fd : /\ Once(to_agent', Answering(g))
                      /\ Occurs(to_agent', Answering(g)) => Occurs(to_agent, Answering(g))
    BY CommandHead
  <2> QED BY <1>1, <1>2, <2>1, <2>2, <2>3, SMTT(30) DEF RequestInv
<1>6. TableInv'
  <2> SUFFICES ASSUME NEW i \in Slot PROVE SlotOK(connection_info[i])'
    BY DEF TableInv
  <2>1. connection_info' = connection_info /\ SlotOK(connection_info[i])
    BY <1>2 DEF TableInv
  <2>2. CASE i \in Watched
    <3>1. connection_info[i].fd \in Fd /\ connection_info[i].fd # f
          /\ fdt[connection_info[i].fd] # c
      BY <1>1, <2>2 DEF TypeOK, connection_info_t, Watched
    <3>2. requester'[connection_info[i].fd] = requester[connection_info[i].fd]
      BY <1>1, <3>1 DEF TypeOK
    <3>3. /\ fdt'[connection_info[i].fd] = fdt[connection_info[i].fd]
          /\ fdt[connection_info[i].fd] \in Client =>
                client'[fdt[connection_info[i].fd]] = client[fdt[connection_info[i].fd]]
      BY <1>3, <3>1
    <3> QED BY <1>2, <2>1, <3>2, <3>3 DEF SlotOK, Owns
  <2>3. CASE i \notin Watched
    BY <1>2, <2>1, <2>3 DEF SlotOK, Watched
  <2> QED BY <2>2, <2>3
<1>7. SessionInv' /\ ScanInv'
  BY <1>2, SessionFrame, NotScanning DEF ScanInv
<1>8. ConnInv'
  <2> SUFFICES ASSUME NEW k \in Conn PROVE ConnOK(k)'
    BY DEF ConnInv
  <2>1. Servers(k)' \subseteq Servers(k)
    <3>1. k # None
      BY AgentAssumption
    <3>2. \A x \in Client : client'[x].conn = k => client[x].conn = k
      BY <1>3, <3>1
    <3>3. proc' = proc /\ fork_server'[k] = fork_server[k]
      BY <1>2, <1>3
    <3> QED BY <3>2, <3>3 DEF Servers
  <2>2. Registered(k)' = Registered(k)
    BY <1>2, SameSlots
  <2>3. /\ Once(to_agent', Announcing(k))
        /\ Occurs(to_agent', Announcing(k)) => Occurs(to_agent, Announcing(k))
    BY CommandHead
  <2> QED BY <1>2, <2>1, <2>2, <2>3, ConnLess DEF ConnInv
<1> QED BY <1>3, <1>4, <1>5, <1>6, <1>7, <1>8

\* MSG_SERVICE_CONNECT tells the client that asked, and watches its socket.
LEMMA ConnectStep ==
    ASSUME IInv, handle_server_cmd, NEW m, m = Head(to_agent), m.type = "SERVICE_CONNECT",
           service_connect_do(m.fd, m.conn),
           UNCHANGED <<requests_waiting_for_session, wait_for_session_pid>>
    PROVE  IInv'
<1> USE DEF IInv
<1>0. PICK f \in Fd, c \in Client : AnswersTo(m, f, c)
  BY AnswerHead
<1>1. /\ f = m.fd /\ fdt[f] = c /\ requester[f] = c /\ client[c].conn = None
      /\ requester' = [requester EXCEPT ![f] = None]
      /\ f \notin asked
      /\ ~Occurs(to_daemon, Triggering(f))
      /\ ~Occurs(to_agent', Answering(f))
      /\ client[c].st # "idle"
      /\ ~Occurs(backlog, {c})
      /\ \A g \in Fd : g # f => fdt[g] # c
      /\ \A i \in Watched : connection_info[i].fd # f /\ fdt[connection_info[i].fd] # c
  BY <1>0 DEF AnswersTo
<1>2. PICK k \in Conn : k = m.conn
  BY CommandConn
<1>3. /\ k \in used /\ Registered(k) = {} /\ Servers(k) = {}
      /\ ~Occurs(to_agent', Announcing(k))
      /\ ~Occurs(requests_waiting_for_session, {k})
      /\ ~Occurs(to_daemon, Reporting(k))
  BY <1>2, CommandConn
<1>4. /\ pc = "cmds" /\ UNCHANGED <<pc, flags, polled, backlog, to_daemon, daemon>>
      /\ UNCHANGED <<fdt, fork_server, proc>>
      /\ client' = [client EXCEPT ![c] = [st |-> client[c].st, conn |-> k]]
      /\ register_vchan_connection(-1, f, k)
  <2>1. c # None
    BY AgentAssumption
  <2>2. client' = [client EXCEPT ![c].conn = k]
    BY <1>1, <1>2, <2>1 DEF service_connect_do
  <2>3. client[c] \in [st : {"idle", "connected", "sent", "closed"}, conn : Conn \cup {None}]
    BY DEF TypeOK, ClientState
  <2>4. [client[c] EXCEPT !.conn = k] = [st |-> client[c].st, conn |-> k]
    BY <2>3, SMT
  <2> QED BY <1>1, <1>2, <2>1, <2>2, <2>4 DEF handle_server_cmd, service_connect_do
<1> USE DEF flags, polled, daemon
<1>5. /\ client' \in [Client -> ClientState]
      /\ client'[c].st = client[c].st /\ client'[c].conn = k
      /\ \A x \in Client : x # c => client'[x] = client[x]
  BY <1>4 DEF TypeOK, ClientState
<1>6. /\ connection_info' \in [Slot -> connection_info_t]
      /\ \A i \in Slot : \/ connection_info'[i] = connection_info[i]
                         \/ connection_info'[i] = [pid |-> -1, fd |-> f, conn |-> k]
      /\ \A j : j # k => Registered(j)' = Registered(j)
      /\ AtMostOne(Registered(k)')
  <2>1. -1 \in Pid \cup {-1} /\ f \in Fd \cup {-1}
    OBVIOUS
  <2> QED BY <1>3, <1>4, <2>1, Registering, SMTT(30)
<1>7. TypeOK'
  <2>1. to_agent' \in Seq(ToAgentMsg)
    BY CommandHead, SMT
  <2> QED BY <1>1, <1>4, <1>5, <1>6, <2>1 DEF TypeOK
<1>8. RequestInv'
  <2>1. ASSUME NEW g \in Fd, g # f
        PROVE  /\ requester'[g] = requester[g]
               /\ requester[g] # None => client'[requester[g]].conn = None
    <3>1. requester[g] # None => requester[g] \in Client /\ requester[g] # c
      BY <1>1, <2>1 DEF RequestInv, TypeOK
    <3> QED BY <1>1, <1>5, <2>1, <3>1 DEF RequestInv, TypeOK
  <2>2. requester'[f] = None
    BY <1>1 DEF TypeOK
  <2>3. \A g \in Fd : /\ Once(to_agent', Answering(g))
                      /\ Occurs(to_agent', Answering(g)) => Occurs(to_agent, Answering(g))
    BY CommandHead
  <2> QED BY <1>1, <1>4, <2>1, <2>2, <2>3, SMTT(30) DEF RequestInv
<1>9. ClientInv'
  <2>1. ASSUME NEW x \in Client
        PROVE  /\ client'[x].st = "idle" => client'[x].conn = None /\ \A g \in Fd : fdt[g] # x
               /\ Once(backlog, {x})
               /\ Occurs(backlog, {x}) => /\ client'[x].st # "idle"
                                          /\ client'[x].conn = None
                                          /\ \A g \in Fd : fdt[g] # x
    <3>1. CASE x = c
      BY <1>1, <1>5, <3>1 DEF ClientInv
    <3>2. CASE x # c
      BY <1>5, <3>2 DEF ClientInv
    <3> QED BY <3>1, <3>2
  <2>2. \A g, h \in Fd : fdt[g] = fdt[h] /\ fdt[g] \in Client => g = h
    BY DEF ClientInv
  <2>3. fds.trigger => backlog # <<>>
    BY DEF ClientInv
  <2> QED BY <1>4, <2>1, <2>2, <2>3 DEF ClientInv
<1>10. TableInv'
  <2> SUFFICES ASSUME NEW i \in Slot PROVE SlotOK(connection_info[i])'
    BY DEF TableInv
  <2>1. CASE connection_info'[i] = connection_info[i] /\ i \in Watched
    <3>1. /\ connection_info[i].fd \in Fd /\ connection_info[i].fd # f
          /\ fdt[connection_info[i].fd] # c
          /\ SlotOK(connection_info[i])
      BY <1>1, <2>1 DEF TypeOK, connection_info_t, Watched, TableInv
    <3>2. /\ requester'[connection_info[i].fd] = requester[connection_info[i].fd]
          /\ fdt[connection_info[i].fd] \in Client =>
                client'[fdt[connection_info[i].fd]] = client[fdt[connection_info[i].fd]]
      BY <1>1, <1>5, <3>1 DEF TypeOK
    <3> QED BY <1>4, <2>1, <3>1, <3>2 DEF SlotOK, Owns
  <2>2. CASE connection_info'[i] = connection_info[i] /\ i \notin Watched
    BY <1>4, <2>2 DEF SlotOK, Watched, TableInv
  <2>3. CASE connection_info'[i] = [pid |-> -1, fd |-> f, conn |-> k]
    <3>1. /\ connection_info'[i].pid = -1 /\ connection_info'[i].fd = f
          /\ connection_info'[i].conn = k
      BY <2>3, SMT
    <3>2. requester'[f] = None
      BY <1>1 DEF TypeOK
    <3> QED BY <1>1, <1>4, <1>5, <3>1, <3>2, AgentAssumption DEF SlotOK, Owns
  <2> QED BY <1>6, <2>1, <2>2, <2>3
<1>11. SessionInv' /\ ScanInv'
  BY <1>4, SessionFrame, NotScanning DEF ScanInv
<1>12. ConnInv'
  <2> SUFFICES ASSUME NEW j \in Conn PROVE ConnOK(j)'
    BY DEF ConnInv
  <2>1. /\ Once(to_agent', Announcing(j))
        /\ Occurs(to_agent', Announcing(j)) => Occurs(to_agent, Announcing(j))
    BY CommandHead
  <2>2. CASE j = k
    <3>1. Once(requests_waiting_for_session, {k}) /\ Once(to_daemon, Reporting(k))
      BY DEF ConnInv, ConnOK
    <3>2. Servers(k)' \subseteq {c}
      BY <1>3, <1>4, <1>5 DEF Servers
    <3>3. AtMostOne(Servers(k)')
      BY <3>2 DEF AtMostOne
    <3> QED BY <1>3, <1>4, <1>6, <2>1, <2>2, <3>1, <3>3 DEF ConnOK
  <2>3. CASE j # k
    <3>1. Servers(j)' \subseteq Servers(j)
      BY <1>4, <1>5, <2>3 DEF Servers
    <3> QED BY <1>4, <1>6, <2>1, <2>3, <3>1, ConnLess DEF ConnInv
  <2> QED BY <2>2, <2>3
<1> QED BY <1>7, <1>8, <1>9, <1>10, <1>11, <1>12

\* A command of the daemon is handled.
LEMMA CommandStep ==
    ASSUME IInv, handle_server_cmd
    PROVE  IInv'
<1>1. PICK m : m = Head(to_agent)
  OBVIOUS
<1>2. m \in ToAgentMsg
  BY <1>1, CommandHead
<1>3. \/ m.type = "SERVICE_REFUSED"
      \/ m.type = "EXEC" /\ postpone(m.conn)
      \/ /\ m.type = "EXEC" /\ handle_server_exec_request_do(m.conn)
         /\ UNCHANGED <<requests_waiting_for_session, wait_for_session_pid>>
      \/ /\ m.type = "SERVICE_CONNECT" /\ service_connect_do(m.fd, m.conn)
         /\ UNCHANGED <<requests_waiting_for_session, wait_for_session_pid>>
  BY <1>1 DEF handle_server_cmd, handle_server_exec_request_init
<1> QED BY <1>1, <1>3, RefusedStep, PostponeStep, StartStep, ConnectStep

\* Every step of the agent, its clients, its children and the daemon keeps IInv.
LEMMA NextInv == IInv /\ [Next]_vars => IInv'
<1> SUFFICES ASSUME IInv, [Next]_vars PROVE IInv'
  OBVIOUS
<1>1. CASE UNCHANGED vars
  BY <1>1, RequestFrame, ClientFrame, TableFrame, SessionFrame, ConnFrame, ScanFrame
     DEF IInv, TypeOK, vars, tables, flags, polled, peers, daemon
<1>2. CASE Agent
  BY <1>2, QuietStep, ReapStep, SessionStep, PollStep, ScanStep, CommandStep, TriggerErrorStep,
     TriggerStep
     DEF Agent
<1>3. CASE sigterm_handler \/ Exited
  BY <1>3, QuietStep
<1>4. ASSUME NEW c \in Client, client_connect(c) \/ client_request(c) \/ client_close(c)
      PROVE  IInv'
  BY <1>4, ClientStep
<1>5. ASSUME NEW k \in Conn, fork_server_close(k) PROVE IInv'
  BY <1>5, ForkServerStep
<1>6. ASSUME NEW p \in Pid, process_exit(p) PROVE IInv'
  BY <1>6, ProcessStep
<1>7. CASE \/ \E k \in Conn : daemon_exec(k)
           \/ \E f \in Fd : daemon_refuse(f)
           \/ \E f \in Fd, k \in Conn : daemon_connect(f, k)
  BY <1>7, DaemonSends
<1>8. CASE daemon_receive
  BY <1>8, DaemonReceives
<1> QED BY <1>1, <1>2, <1>3, <1>4, <1>5, <1>6, <1>7, <1>8 DEF Next

\* IInv holds in every state the agent reaches.
LEMMA Invariance == Spec => []IInv
BY InitInv, NextInv, PTL DEF Spec

-----------------------------------------------------------------------------
(* What the invariant says *)

\* The ring that holds the announcement or the report of a connection, as the
\* properties and the promise name it.
LEMMA RingAnnounced ==
    ASSUME NEW q \in Seq(ToAgentMsg), NEW k
    PROVE  {n \in DOMAIN q : q[n].type # "SERVICE_REFUSED" /\ q[n].conn = k} = {}
           <=> ~Occurs(q, Announcing(k))
<1>1. \A n \in DOMAIN q : q[n] \in ToAgentMsg
  BY SMT
<1> QED BY <1>1, Messages, SMTT(30) DEF Occurs

\* The other ring.
LEMMA RingReported ==
    ASSUME NEW q \in Seq(ToDaemonMsg), NEW k
    PROVE  {n \in DOMAIN q : q[n].type = "CONNECTION_TERMINATED" /\ q[n].conn = k} = {}
           <=> ~Occurs(q, Reporting(k))
<1>1. \A n \in DOMAIN q : q[n] \in ToDaemonMsg
  BY SMT
<1> QED BY <1>1, Messages, SMT DEF Occurs

\* Every variable of the agent has its type.
THEOREM TypeCorrect == Spec => []TypeOK
BY Invariance, PTL DEF IInv

\* The identifier of a request stands for the client that made it until its
\* answer is handled, whatever number of clients, descriptors and messages.
THEOREM AnswersCorrect == Spec => []AnswerReachesRequester
<1>1. IInv => AnswerReachesRequester
  <2> SUFFICES ASSUME IInv PROVE AnswerReachesRequester
    OBVIOUS
  <2> USE DEF IInv
  <2>1. ASSUME NEW n \in DOMAIN to_agent, to_agent[n].type # "EXEC"
        PROVE  requester[to_agent[n].fd] # None
    <3>1. to_agent[n] \in ToAgentMsg
      BY SMT DEF TypeOK
    <3>2. to_agent[n].fd \in Fd /\ to_agent[n] \in Answering(to_agent[n].fd)
      BY <2>1, <3>1, Messages
    <3> QED BY <3>2 DEF RequestInv, Occurs
  <2>2. \A f \in asked : requester[f] # None
    BY DEF RequestInv, TypeOK
  <2>3. \A f \in Fd : requester[f] # None => fdt[f] = requester[f]
    BY DEF RequestInv
  <2> QED BY <2>1, <2>2, <2>3 DEF AnswerReachesRequester
<1> QED BY <1>1, Invariance, PTL

\* A slot of connection_info that watches a descriptor is the only one to
\* watch it, and the descriptor belongs to whoever has the slot's connection.
THEOREM WatchedCorrect == Spec => []WatchedFdOwned
<1>1. IInv => WatchedFdOwned
  BY OneSlotEach DEF IInv, WatchedFdOwned, TableInv, SlotOK, Owns, Watched
<1> QED BY <1>1, Invariance, PTL

\* The assertions of the main loop on fds[] and connection_info never fail.
THEOREM AssertionsHold == Spec => []PollAligned
<1>1. IInv => PollAligned
  BY DEF IInv, ScanInv, PollAligned
<1> QED BY <1>1, Invariance, PTL

\* MSG_CONNECTION_TERMINATED is not sent for a connection that somebody serves,
\* and the daemon still has a port for it.
THEOREM ServedCorrect == Spec => []NotReportedWhileServed
<1>1. IInv => NotReportedWhileServed
  <2> SUFFICES ASSUME IInv, NEW k \in Conn,
                      \/ \E p \in Pid : proc[p].st = "running" /\ proc[p].conn = k
                      \/ fork_server[k] = "running"
                      \/ \E c \in Client : client[c].st = "sent" /\ client[c].conn = k
               PROVE  k \in used /\ Reported(k) = {}
    BY DEF NotReportedWhileServed
  <2>1. Servers(k) # {}
    BY DEF Servers
  <2>2. k \in used /\ ~Occurs(to_daemon, Reporting(k))
    BY <2>1 DEF IInv, ConnInv, ConnOK
  <2> QED BY <2>2, RingReported DEF IInv, TypeOK, Reported
<1> QED BY <1>1, Invariance, PTL

-----------------------------------------------------------------------------
(* The agent keeps its promise *)

\* Descriptor f is the socket of the client that has connection k.
Behind(f, k) == fdt[f] \in Client /\ client[fdt[f]].conn = k

\* The identifier of a connection is the descriptor of its one client.
LEMMA Identified ==
    ASSUME IInv, NEW k \in Conn
    PROVE  /\ \A f \in Fd : Behind(f, k) => IdentOf(k) = f
           /\ (\A f \in Fd : ~Behind(f, k)) => IdentOf(k) = None
<1>1. ASSUME NEW f \in Fd, NEW g \in Fd, Behind(f, k), Behind(g, k) PROVE f = g
  <2>1. fdt[f] \in Servers(k) /\ fdt[g] \in Servers(k) /\ AtMostOne(Servers(k))
    BY <1>1 DEF Behind, Servers, IInv, ConnInv, ConnOK
  <2>2. fdt[f] = fdt[g]
    BY <2>1 DEF AtMostOne
  <2> QED BY <1>1, <2>2 DEF Behind, IInv, ClientInv
<1>2. \A f \in Fd : Behind(f, k) <=> f \in Busy /\ client[fdt[f]].conn = k
  BY DEF Behind, Busy
<1>3. Busy \subseteq Fd
  BY DEF Busy
<1> QED BY <1>1, <1>2, <1>3 DEF IdentOf

\* The same after a step.
LEMMA IdentifiedNext ==
    ASSUME IInv', NEW k \in Conn
    PROVE  /\ \A f \in Fd : Behind(f, k)' => IdentOf(k)' = f
           /\ (\A f \in Fd : ~Behind(f, k)') => IdentOf(k)' = None
<1>1. ASSUME NEW f \in Fd, NEW g \in Fd, Behind(f, k)', Behind(g, k)' PROVE f = g
  <2>1. fdt'[f] \in Servers(k)' /\ fdt'[g] \in Servers(k)' /\ AtMostOne(Servers(k)')
    BY <1>1 DEF Behind, Servers, IInv, ConnInv, ConnOK
  <2>2. fdt'[f] = fdt'[g]
    BY <2>1 DEF AtMostOne
  <2> QED BY <1>1, <2>2 DEF Behind, IInv, ClientInv
<1>2. \A f \in Fd : Behind(f, k)' <=> f \in Busy' /\ client'[fdt'[f]].conn = k
  BY DEF Behind, Busy
<1>3. Busy' \subseteq Fd
  BY DEF Busy
<1> QED BY <1>1, <1>2, <1>3 DEF IdentOf

\* A connection keeps its identifier with its client.
LEMMA SameIdent ==
    ASSUME IInv, IInv', NEW k \in Conn, \A f \in Fd : Behind(f, k)' <=> Behind(f, k)
    PROVE  IdentOf(k)' = IdentOf(k)
<1>1. CASE \E f \in Fd : Behind(f, k)
  BY <1>1, Identified, IdentifiedNext
<1>2. CASE \A f \in Fd : ~Behind(f, k)
  BY <1>2, Identified, IdentifiedNext
<1> QED BY <1>1, <1>2

\* The connections the agent has, from what the rings hold.
LEMMA HeldConn ==
    ASSUME IInv, NEW k \in Conn
    PROVE  k \in Held <=> /\ k \in used
                          /\ ~Occurs(to_agent, Announcing(k))
                          /\ ~Occurs(to_daemon, Reporting(k))
BY RingAnnounced, RingReported, ZenonT(30) DEF IInv, TypeOK, Held, Announced, Reported

\* The same after a step.
LEMMA HeldConnNext ==
    ASSUME IInv', NEW k \in Conn
    PROVE  k \in Held' <=> /\ k \in used'
                           /\ ~Occurs(to_agent', Announcing(k))
                           /\ ~Occurs(to_daemon', Reporting(k))
<1>1. to_agent' \in Seq(ToAgentMsg) /\ to_daemon' \in Seq(ToDaemonMsg)
  BY DEF IInv, TypeOK
<1>2. k \in Held' <=> k \in used' /\ Announced(k)' = {} /\ Reported(k)' = {}
  BY DEF Held
<1> QED BY <1>1, <1>2, RingAnnounced, RingReported DEF Announced, Reported

\* Only connections the daemon has named are held.
LEMMA HeldAreConns ==
    /\ IInv => Held \subseteq Conn
    /\ IInv' => Held' \subseteq Conn
BY DEF IInv, TypeOK, Held

\* A step that moves no connection and no client of a connection.
LEMMA ConnsKept ==
    ASSUME IInv, IInv', Held' = Held,
           \A k \in Conn, f \in Fd : Behind(f, k)' <=> Behind(f, k)
    PROVE  Conns' = Conns
<1>1. \A k \in Held : IdentOf(k)' = IdentOf(k)
  BY SameIdent, HeldAreConns
<1> QED BY <1>1 DEF Conns

\* A step that gives the agent a connection.
LEMMA ConnsGained ==
    ASSUME IInv, IInv', NEW k \in Conn, NEW i, k \notin Held, Held' = Held \cup {k},
           IdentOf(k)' = i,
           \A j \in Conn, f \in Fd : j # k => (Behind(f, j)' <=> Behind(f, j))
    PROVE  Conns' = Conns \cup {[ident |-> i, conn |-> k]}
<1>1. \A j \in Held : j # k /\ IdentOf(j)' = IdentOf(j)
  BY SameIdent, HeldAreConns
<1>2. Conns' = {[ident |-> IdentOf(j)', conn |-> j] : j \in Held \cup {k}}
  BY DEF Conns
<1> QED BY <1>1, <1>2 DEF Conns

\* A step in which the agent is done with a connection.
LEMMA ConnsLost ==
    ASSUME IInv, IInv', NEW k \in Conn, NEW i, k \in Held, Held' = Held \ {k},
           IdentOf(k) = i,
           \A j \in Conn, f \in Fd : j # k => (Behind(f, j)' <=> Behind(f, j))
    PROVE  /\ [ident |-> i, conn |-> k] \in Conns
           /\ Conns' = Conns \ {[ident |-> i, conn |-> k]}
<1>1. \A j \in Held : j # k => IdentOf(j)' = IdentOf(j)
  BY SameIdent, HeldAreConns
<1>2. Conns' = {[ident |-> IdentOf(j)', conn |-> j] : j \in Held \ {k}}
  BY DEF Conns
<1>3. Conns' = {[ident |-> IdentOf(j), conn |-> j] : j \in Held \ {k}}
  BY <1>1, <1>2
<1>4. [ident |-> i, conn |-> k] \in Conns
  BY DEF Conns
<1>5. ASSUME NEW x PROVE x \in Conns' <=> x \in Conns /\ x # [ident |-> i, conn |-> k]
  <2>1. \A j : [ident |-> IdentOf(j), conn |-> j].conn = j
    OBVIOUS
  <2> QED BY <1>3, <2>1, ZenonT(30) DEF Conns
<1> QED BY <1>4, <1>5

\* The steps the daemon cannot see.
LEMMA UnseenStep ==
    ASSUME IInv, IInv', UNCHANGED <<asked, used, to_agent, to_daemon>>,
           \A f \in Fd : fdt'[f] \in Client \/ fdt[f] \in Client => fdt'[f] = fdt[f],
           \A c \in Client : client'[c].conn = client[c].conn
    PROVE  UNCHANGED Promise!vars
<1>1. Busy' = Busy
  BY DEF Busy
<1>2. \A k \in Conn, f \in Fd : Behind(f, k)' <=> Behind(f, k)
  BY DEF Behind
<1>3. Held' = Held
  BY SMT DEF Held, Announced, Reported
<1>4. Conns' = Conns
  BY <1>2, <1>3, ConnsKept
<1> QED BY <1>1, <1>4 DEF Promise!vars

\* accept(): the identifier was not in use.
LEMMA TriggerPromised ==
    ASSUME IInv, IInv', handle_trigger_io
    PROVE  \E id \in Fd : Promise!trigger(id)
<1>0. PICK f \in Lowest(FreeFds) :
         /\ fdt' = [fdt EXCEPT ![f] = Head(backlog)]
         /\ Send([type |-> "TRIGGER_SERVICE", fd |-> f])
  BY DEF handle_trigger_io
<1>1. f \in Fd /\ fdt[f] = None
  BY LowestFd
<1>2. PICK c \in Client : c = Head(backlog) /\ client[c].conn = None
  <2>1. backlog \in Seq(Client) /\ backlog # <<>>
    BY DEF IInv, TypeOK, ClientInv, handle_trigger_io
  <2>2. Head(backlog) \in Client
    BY <2>1, SMT
  <2>3. Head(backlog) \in {Head(backlog)} /\ Occurs(backlog, {Head(backlog)})
    BY <2>1, TailOccurs
  <2> QED BY <2>2, <2>3 DEF IInv, ClientInv
<1>3. /\ fdt' = [fdt EXCEPT ![f] = c]
      /\ Len(to_daemon) < VCHAN_SPACE
      /\ to_daemon' = Append(to_daemon, [type |-> "TRIGGER_SERVICE", fd |-> f])
      /\ UNCHANGED <<client, to_agent, asked, used>>
  BY <1>0, <1>2 DEF handle_trigger_io, Send, daemon
<1>4. /\ fdt'[f] = c /\ \A g \in Fd : g # f => fdt'[g] = fdt[g]
      /\ fdt[f] \notin Client
  BY <1>1, <1>3, AgentAssumption, ZenonT(30) DEF IInv, TypeOK
<1>5. f \notin Busy /\ Busy' = Busy \cup {f}
  BY <1>1, <1>2, <1>4 DEF Busy
<1>6. \A k \in Conn, g \in Fd : Behind(g, k)' <=> Behind(g, k)
  BY <1>2, <1>3, <1>4, AgentAssumption DEF Behind
<1>7. Held' = Held
  <2>1. ASSUME NEW k \in Conn
        PROVE  Occurs(to_daemon', Reporting(k)) <=> Occurs(to_daemon, Reporting(k))
    <3> DEFINE m == [type |-> "TRIGGER_SERVICE", fd |-> f]
    <3>1. m \in ToDaemonMsg /\ m.type = "TRIGGER_SERVICE"
      BY <1>1 DEF ToDaemonMsg
    <3>2. m \notin Reporting(k)
      BY <3>1, Messages
    <3> HIDE DEF m
    <3>3. to_daemon \in Seq(ToDaemonMsg) /\ to_daemon' = Append(to_daemon, m)
      BY <1>3 DEF IInv, TypeOK, m
    <3> QED BY <3>1, <3>2, <3>3, AppendOccurs
  <2>2. \A k \in Conn : k \in Held' <=> k \in Held
    BY <1>3, <2>1, HeldConn, HeldConnNext
  <2> QED BY <2>2, HeldAreConns
<1>8. Conns' = Conns
  BY <1>6, <1>7, ConnsKept
<1> QED BY <1>1, <1>3, <1>5, <1>8 DEF Promise!trigger

\* A command is what the agent was told, or a refusal that frees its identifier.
LEMMA ReceivePromised ==
    ASSUME IInv, IInv', handle_server_cmd
    PROVE  Promise!receive
<1>1. PICK m : m = Head(to_agent)
  OBVIOUS
<1>2. /\ to_agent # <<>> /\ to_agent' = Tail(to_agent)
      /\ UNCHANGED <<asked, used, to_daemon>>
      /\ m \in ToAgentMsg
  BY <1>1, CommandHead DEF handle_server_cmd, daemon
<1>3. \A k \in Conn : m \notin Announcing(k) =>
         (Occurs(to_agent', Announcing(k)) <=> Occurs(to_agent, Announcing(k)))
  <2>1. to_agent \in Seq(ToAgentMsg)
    BY DEF IInv, TypeOK
  <2> QED BY <1>1, <1>2, <2>1, TailOccurs
<1>4. ASSUME m.type = "SERVICE_REFUSED" PROVE Promise!refused(m)
  <2>1. PICK f \in Fd, c \in Client : AnswersTo(m, f, c)
    BY <1>1, <1>4, AnswerHead
  <2>2. f = m.fd /\ fdt[f] = c /\ client[c].conn = None
    BY <2>1 DEF AnswersTo
  <2>3. Close(f)
    BY <1>1, <1>4, <2>2 DEF handle_server_cmd, handle_service_refused
  <2>4. /\ fdt'[f] = None /\ \A g \in Fd : g # f => fdt'[g] = fdt[g]
        /\ \A x \in Client : client'[x] = IF x = fdt[f] /\ Gone(x) THEN Idle ELSE client[x]
    BY <2>3, Closing
  <2>5. Busy' = Busy \ {f}
    BY <2>4, AgentAssumption DEF Busy
  <2>6. \A x \in Client : client'[x].conn = client[x].conn
    BY <2>2, <2>4, SMT DEF Idle
  <2>7. \A k \in Conn, g \in Fd : Behind(g, k)' <=> Behind(g, k)
    BY <2>2, <2>4, <2>6, AgentAssumption, SMTT(30) DEF Behind
  <2>8. \A k \in Conn : m \notin Announcing(k)
    BY <1>2, <1>4, Messages
  <2>9. \A k \in Conn : k \in Held' <=> k \in Held
    BY <1>2, <1>3, <2>8, HeldConn, HeldConnNext
  <2>10. Conns' = Conns
    BY <2>7, <2>9, HeldAreConns, ConnsKept
  <2> QED BY <1>4, <2>2, <2>5, <2>10 DEF Promise!refused
<1>5. ASSUME m.type # "SERVICE_REFUSED" PROVE Promise!told(m)
  <2>1. PICK k \in Conn : k = m.conn
    BY <1>1, <1>5, CommandConn
  <2>2. /\ k \in used /\ Servers(k) = {} /\ ~Occurs(to_agent', Announcing(k))
        /\ ~Occurs(to_daemon, Reporting(k)) /\ Registered(k) = {}
    BY <1>1, <1>5, <2>1, CommandConn
  <2>3. m \in Announcing(k) /\ \A j \in Conn : j # k => m \notin Announcing(j)
    BY <1>2, <1>5, <2>1, Messages
  <2>4. Occurs(to_agent, Announcing(k))
    BY <1>1, <2>3, CommandHead
  <2>5. k \notin Held /\ k \in Held' /\ \A j \in Conn : j # k => (j \in Held' <=> j \in Held)
    BY <1>2, <1>3, <2>2, <2>3, <2>4, HeldConn, HeldConnNext
  <2>6. Held' = Held \cup {k}
    BY <2>5, HeldAreConns
  <2>7. \A f \in Fd : ~Behind(f, k)
    BY <2>2 DEF Behind, Servers
  <2>8. CASE m.type = "EXEC"
    <3>1. client' = client /\ \A f \in Fd : fdt'[f] # fdt[f] => fdt[f] = None /\ fdt'[f] = k
      <4>1. CASE postpone(k)
        BY <4>1 DEF postpone
      <4>2. CASE handle_server_exec_request_do(k)
        <5>1. requester' = requester
          BY <1>1, <2>8 DEF handle_server_cmd
        <5> QED BY <2>2, <4>2, <5>1, Starting
      <4> QED BY <1>1, <2>1, <2>8, <4>1, <4>2 DEF handle_server_cmd, handle_server_exec_request_init
    <3>2. Busy' = Busy
      BY <3>1, AgentAssumption DEF Busy
    <3>3. \A j \in Conn, f \in Fd : Behind(f, j)' <=> Behind(f, j)
      BY <3>1, AgentAssumption, SMT DEF Behind
    <3>4. IdentOf(k)' = None
      BY <2>7, <3>3, IdentifiedNext
    <3>5. Conns' = Conns \cup {[ident |-> None, conn |-> k]}
      BY <2>5, <2>6, <3>3, <3>4, ConnsGained
    <3> QED BY <2>1, <2>8, <3>2, <3>5 DEF Promise!told
  <2>9. CASE m.type = "SERVICE_CONNECT"
    <3>1. PICK f \in Fd, c \in Client : AnswersTo(m, f, c)
      BY <1>1, <2>9, AnswerHead
    <3>2. /\ f = m.fd /\ fdt[f] = c /\ client[c].conn = None
          /\ \A g \in Fd : g # f => fdt[g] # c
      BY <3>1 DEF AnswersTo
    <3>3. service_connect_do(f, k)
      BY <1>1, <2>1, <2>9, <3>2 DEF handle_server_cmd, handle_server_exec_request_init
    <3>4. fdt' = fdt /\ client' = [client EXCEPT ![c].conn = k]
      BY <3>2, <3>3, AgentAssumption DEF service_connect_do
    <3>5. client'[c].conn = k /\ \A x \in Client : x # c => client'[x] = client[x]
      BY <3>4, SMT DEF IInv, TypeOK, ClientState
    <3>6. Busy' = Busy
      BY <3>4 DEF Busy
    <3>7. Behind(f, k)' /\ \A j \in Conn, g \in Fd : j # k => (Behind(g, j)' <=> Behind(g, j))
      BY <3>2, <3>4, <3>5, AgentAssumption, SMT DEF Behind
    <3>8. IdentOf(k)' = f
      BY <3>7, IdentifiedNext
    <3>9. Conns' = Conns \cup {[ident |-> f, conn |-> k]}
      BY <2>5, <2>6, <3>7, <3>8, ConnsGained
    <3> QED BY <2>1, <2>9, <3>2, <3>6, <3>9 DEF Promise!told
  <2> QED BY <1>2, <1>5, <2>8, <2>9, Messages
<1> QED BY <1>1, <1>2, <1>4, <1>5 DEF Promise!receive

\* A report: the connection was held, and with its identifier.
LEMMA ReportPromised ==
    ASSUME IInv, IInv', NEW k \in Conn, NEW i, Registered(k) # {}, IdentOf(k) = i,
           terminate_connection(k), UNCHANGED <<asked, used, to_agent>>,
           Busy' = Busy \ {i},
           \A j \in Conn, f \in Fd : j # k => (Behind(f, j)' <=> Behind(f, j))
    PROVE  \E c \in Conns : Promise!terminated(c)
<1> DEFINE m == [type |-> "CONNECTION_TERMINATED", conn |-> k]
<1>1. m \in ToDaemonMsg /\ m.type = "CONNECTION_TERMINATED" /\ m.conn = k
  BY DEF ToDaemonMsg
<1>2. /\ to_daemon \in Seq(ToDaemonMsg)
      /\ Len(to_daemon) < VCHAN_SPACE
      /\ to_daemon' = Append(to_daemon, m)
  BY DEF IInv, TypeOK, terminate_connection, Send
<1>3. /\ k \in used /\ ~Occurs(to_agent, Announcing(k)) /\ ~Occurs(to_daemon, Reporting(k))
  BY DEF IInv, ConnInv, ConnOK
<1> HIDE DEF m
<1>4. m \in Reporting(k) /\ \A j \in Conn : j # k => m \notin Reporting(j)
  BY <1>1, Messages
<1>5. /\ Occurs(to_daemon', Reporting(k))
      /\ \A j \in Conn : j # k => (Occurs(to_daemon', Reporting(j)) <=> Occurs(to_daemon, Reporting(j)))
  BY <1>1, <1>2, <1>4, AppendOccurs
<1>6. k \in Held /\ k \notin Held' /\ \A j \in Conn : j # k => (j \in Held' <=> j \in Held)
  BY <1>3, <1>5, HeldConn, HeldConnNext
<1>7. Held' = Held \ {k}
  BY <1>6, HeldAreConns
<1> DEFINE c == [ident |-> i, conn |-> k]
<1>8. c \in Conns /\ Conns' = Conns \ {c}
  BY <1>6, <1>7, ConnsLost
<1>9. c.ident = i /\ c.conn = k
  OBVIOUS
<1> HIDE DEF c
<1>10. Promise!terminated(c)
  BY <1>2, <1>8, <1>9 DEF Promise!terminated, m
<1> QED BY <1>8, <1>10

\* waitpid(): a child has no identifier.
LEMMA ReapPromised ==
    ASSUME IInv, IInv', NEW p \in Pid, reap_children(p)
    PROVE  UNCHANGED Promise!vars \/ \E c \in Conns : Promise!terminated(c)
<1>1. /\ UNCHANGED <<fdt, client, to_agent, asked, used>>
  BY DEF reap_children, daemon
<1>2. CASE to_daemon' = to_daemon
  BY <1>1, <1>2, UnseenStep
<1>3. CASE \E i \in Lowest(SlotsOf(p)) : release_connection(i)
  <2>1. PICK s \in Slot : release_connection(s) /\ connection_info[s].pid = p
    BY <1>3 DEF Lowest, SlotsOf
  <2>2. PICK k \in Conn : k = connection_info[s].conn
    BY <2>1, AgentAssumption DEF IInv, TableInv, SlotOK
  <2>3. s \in Registered(k) /\ p \in Servers(k) /\ AtMostOne(Servers(k))
    <3>1. p # 0 /\ proc[p].st # "none" /\ proc[p].conn = k
      BY <2>1, <2>2, AgentAssumption DEF IInv, TableInv, SlotOK
    <3>2. AtMostOne(Servers(k))
      BY DEF IInv, ConnInv, ConnOK
    <3> QED BY <2>1, <2>2, <3>1, <3>2 DEF Registered, Servers
  <2>4. \A f \in Fd : ~Behind(f, k)
    BY <2>3, AgentAssumption, ZenonT(30) DEF Behind, Servers, AtMostOne
  <2>5. IdentOf(k) = None
    BY <2>4, Identified
  <2>6. Busy' = Busy \ {None}
    BY <1>1, AgentAssumption, SMTT(30) DEF Busy, Fd
  <2>7. \A j \in Conn, f \in Fd : Behind(f, j)' <=> Behind(f, j)
    BY <1>1 DEF Behind
  <2>8. terminate_connection(k)
    BY <1>3, <2>1, <2>2 DEF release_connection
  <2> QED BY <1>1, <2>3, <2>5, <2>6, <2>7, <2>8, ReportPromised
<1> QED BY <1>2, <1>3 DEF reap_children

\* The loop over connection_info: the descriptor that is closed is the
\* identifier of the connection that is reported, or a fork server's.
LEMMA ScanPromised ==
    ASSUME IInv, IInv', scan_connection_info
    PROVE  UNCHANGED Promise!vars \/ \E c \in Conns : Promise!terminated(c)
<1>1. UNCHANGED <<to_agent, asked, used>> /\ pc = "scan"
  BY DEF scan_connection_info, daemon
<1>2. CASE UNCHANGED <<fdt, client, to_daemon>>
  BY <1>1, <1>2, UnseenStep
<1>3. CASE scan \in Watched /\ Head(fds.rest).revents /\ handle_terminated_fork_client(scan)
  <2>1. PICK s \in Slot : s = scan /\ s \in Watched
    BY <1>3 DEF Watched
  <2>2. Hup(connection_info[s].fd)
    BY <1>1, <1>3, <2>1, ScanHead
  <2>3. PICK f \in Fd, k \in Conn :
           /\ connection_info[s].pid # 0
           /\ connection_info[s].fd = f /\ connection_info[s].conn = k /\ Owns(f, k)
    BY <2>1 DEF IInv, Watched, TableInv, SlotOK, TypeOK, connection_info_t
  <2>4. s \in Registered(k) /\ AtMostOne(Servers(k))
    BY <2>3 DEF Registered, IInv, ConnInv, ConnOK
  <2>5. Close(f) /\ terminate_connection(k)
    BY <1>3, <2>1, <2>3 DEF handle_terminated_fork_client, release_connection
  <2>6. /\ fdt'[f] = None /\ \A g \in Fd : g # f => fdt'[g] = fdt[g]
        /\ \A x \in Client : client'[x] = IF x = fdt[f] /\ Gone(x) THEN Idle ELSE client[x]
    BY <2>5, Closing
  <2>7. Busy' = Busy \ {f}
    BY <2>6, AgentAssumption DEF Busy
  <2>8. CASE fdt[f] \in Client
    <3>1. client[fdt[f]].conn = k /\ Behind(f, k)
      BY <2>3, <2>8, AgentAssumption DEF Owns, Behind
    <3>2. IdentOf(k) = f
      BY <3>1, Identified
    <3>3. \A x \in Client : x # fdt[f] => client'[x] = client[x]
      BY <2>6
    <3>4. ASSUME NEW j \in Conn, NEW g \in Fd, j # k
          PROVE  Behind(g, j)' <=> Behind(g, j)
      <4>1. CASE g = f
        BY <2>6, <3>1, <3>4, <4>1, AgentAssumption DEF Behind
      <4>2. CASE g # f
        <5>1. fdt'[g] = fdt[g] /\ (fdt[g] \in Client => fdt[g] # fdt[f])
          BY <2>6, <4>2 DEF IInv, ClientInv
        <5> QED BY <3>3, <5>1 DEF Behind
      <4> QED BY <4>1, <4>2
    <3> QED BY <1>1, <2>4, <2>5, <2>7, <3>2, <3>4, ReportPromised
  <2>9. CASE fdt[f] = k
    <3>1. k \notin Client /\ k # None
      BY AgentAssumption
    <3>2. fork_server[k] = "closed"
      BY <2>2, <2>3, <2>9, <3>1 DEF Hup
    <3>3. k \in Servers(k)
      BY <3>2 DEF Servers
    <3>4. \A g \in Fd : ~Behind(g, k)
      BY <2>4, <3>1, <3>3 DEF Behind, Servers, AtMostOne
    <3>5. IdentOf(k) = None
      BY <3>4, Identified
    <3>6. Busy' = Busy \ {None}
      <4>1. f \notin Busy
        BY <2>9, <3>1 DEF Busy
      <4>2. None \notin Busy
        BY AgentAssumption, SMT DEF Busy, Fd
      <4> QED BY <2>7, <4>1, <4>2
    <3>7. \A x \in Client : client'[x] = client[x]
      BY <2>6, <2>9, <3>1
    <3>8. \A j \in Conn, g \in Fd : Behind(g, j)' <=> Behind(g, j)
      BY <2>6, <2>9, <3>1, <3>7, AgentAssumption DEF Behind
    <3> QED BY <1>1, <2>4, <2>5, <3>5, <3>6, <3>8, ReportPromised
  <2> QED BY <2>3, <2>8, <2>9 DEF Owns
<1> QED BY <1>2, <1>3 DEF scan_connection_info, polled

\* The daemon announces a connection or refuses a request.
LEMMA SendPromised ==
    ASSUME IInv, IInv',
           \/ \E k \in Conn : daemon_exec(k)
           \/ \E f \in Fd : daemon_refuse(f)
           \/ \E f \in Fd, k \in Conn : daemon_connect(f, k)
    PROVE  \/ \E k \in Conn : Promise!announce(k)
           \/ \E f \in Fd : Promise!refuse(f)
<1>1. UNCHANGED <<fdt, client, to_daemon>>
  BY DEF daemon_exec, daemon_refuse, daemon_connect, DaemonStep, peers
<1>2. Busy' = Busy /\ \A k \in Conn, f \in Fd : Behind(f, k)' <=> Behind(f, k)
  BY <1>1 DEF Busy, Behind
<1>3. to_agent \in Seq(ToAgentMsg)
  BY DEF IInv, TypeOK
<1>4. ASSUME NEW k \in Conn, NEW m \in ToAgentMsg, m.type # "SERVICE_REFUSED", m.conn = k,
             k \notin used, used' = used \cup {k}, to_agent' = Append(to_agent, m)
      PROVE  Conns' = Conns
  <2>1. m \in Announcing(k) /\ \A j \in Conn : j # k => m \notin Announcing(j)
    BY <1>4, Messages
  <2>2. /\ Occurs(to_agent', Announcing(k))
        /\ \A j \in Conn : j # k =>
              (Occurs(to_agent', Announcing(j)) <=> Occurs(to_agent, Announcing(j)))
    BY <1>3, <1>4, <2>1, AppendOccurs
  <2>3. \A j \in Conn : j \in Held' <=> j \in Held
    BY <1>1, <1>4, <2>2, HeldConn, HeldConnNext
  <2> QED BY <1>2, <2>3, HeldAreConns, ConnsKept
<1>5. ASSUME NEW k \in Conn, daemon_exec(k) PROVE Promise!announce(k)
  <2> DEFINE m == [type |-> "EXEC", conn |-> k]
  <2>1. m \in ToAgentMsg /\ m.type = "EXEC" /\ m.conn = k
    BY DEF ToAgentMsg
  <2>2. /\ k \notin used /\ used' = used \cup {k} /\ Len(to_agent) < VCHAN_SPACE
        /\ to_agent' = Append(to_agent, m) /\ asked' = asked
    BY <1>5 DEF daemon_exec, ToAgent
  <2>3. Conns' = Conns
    BY <1>4, <2>1, <2>2
  <2> QED BY <1>1, <1>2, <2>2, <2>3 DEF Promise!announce
<1>6. ASSUME NEW f \in Fd, NEW k \in Conn, daemon_connect(f, k) PROVE Promise!announce(k)
  <2> DEFINE m == [type |-> "SERVICE_CONNECT", fd |-> f, conn |-> k]
  <2>1. m \in ToAgentMsg /\ m.type = "SERVICE_CONNECT" /\ m.conn = k
    BY DEF ToAgentMsg
  <2>2. /\ k \notin used /\ used' = used \cup {k} /\ Len(to_agent) < VCHAN_SPACE
        /\ to_agent' = Append(to_agent, m) /\ f \in asked /\ asked' = asked \ {f}
    BY <1>6 DEF daemon_connect, ToAgent
  <2>3. Conns' = Conns
    BY <1>4, <2>1, <2>2
  <2> QED BY <1>1, <1>2, <2>2, <2>3 DEF Promise!announce
<1>7. ASSUME NEW f \in Fd, daemon_refuse(f) PROVE Promise!refuse(f)
  <2> DEFINE m == [type |-> "SERVICE_REFUSED", fd |-> f]
  <2>1. m \in ToAgentMsg /\ m.type = "SERVICE_REFUSED"
    BY DEF ToAgentMsg
  <2>2. /\ f \in asked /\ asked' = asked \ {f} /\ Len(to_agent) < VCHAN_SPACE
        /\ to_agent' = Append(to_agent, m) /\ used' = used
    BY <1>7 DEF daemon_refuse, ToAgent
  <2>3. \A k \in Conn : m \notin Announcing(k)
    BY <2>1, Messages
  <2>4. \A k \in Conn : Occurs(to_agent', Announcing(k)) <=> Occurs(to_agent, Announcing(k))
    BY <1>3, <2>1, <2>2, <2>3, AppendOccurs, SMT
  <2>5. \A k \in Conn : k \in Held' <=> k \in Held
    BY <1>1, <2>2, <2>4, HeldConn, HeldConnNext
  <2>6. Conns' = Conns
    BY <1>2, <2>5, HeldAreConns, ConnsKept
  <2> QED BY <1>1, <1>2, <2>2, <2>6 DEF Promise!refuse
<1> QED BY <1>5, <1>6, <1>7

\* The daemon reads a request, or a report of a connection the agent gave up.
LEMMA HearPromised ==
    ASSUME IInv, IInv', daemon_receive
    PROVE  Promise!hear
<1>1. PICK m : m = Head(to_daemon)
  OBVIOUS
<1>2. /\ UNCHANGED <<fdt, client, to_agent>>
      /\ to_daemon # <<>>
      /\ to_daemon' = Tail(to_daemon)
      /\ \/ m.type = "TRIGGER_SERVICE" /\ asked' = asked \cup {m.fd} /\ used' = used
         \/ m.type = "CONNECTION_TERMINATED" /\ used' = used \ {m.conn} /\ asked' = asked
  BY <1>1 DEF daemon_receive, DaemonStep, peers
<1>3. to_daemon \in Seq(ToDaemonMsg)
  BY DEF IInv, TypeOK
<1>4. m \in ToDaemonMsg
  BY <1>1, <1>2, <1>3, SMT
<1>5. Busy' = Busy /\ \A k \in Conn, f \in Fd : Behind(f, k)' <=> Behind(f, k)
  BY <1>2 DEF Busy, Behind
<1>6. ASSUME NEW k \in Conn PROVE k \in Held' <=> k \in Held
  <2>1. CASE m \in Reporting(k)
    <3>1. m.type = "CONNECTION_TERMINATED" /\ m.conn = k /\ Occurs(to_daemon, Reporting(k))
      BY <1>1, <1>2, <1>3, <1>4, <2>1, Messages, TailOccurs
    <3>2. k \notin used'
      BY <1>2, <3>1
    <3> QED BY <3>1, <3>2, HeldConn, HeldConnNext
  <2>2. CASE m \notin Reporting(k)
    <3>1. Occurs(to_daemon', Reporting(k)) <=> Occurs(to_daemon, Reporting(k))
      BY <1>1, <1>2, <1>3, <2>2, TailOccurs
    <3>2. k \in used' <=> k \in used
      BY <1>2, <1>4, <2>2, Messages
    <3> QED BY <1>2, <3>1, <3>2, HeldConn, HeldConnNext
  <2> QED BY <2>1, <2>2
<1>7. Conns' = Conns
  BY <1>5, <1>6, HeldAreConns, ConnsKept
<1> QED BY <1>1, <1>2, <1>5, <1>7 DEF Promise!hear

\* Every step of the agent, of its clients and of the daemon is a step of the
\* promise, or changes nothing of it.
LEMMA StepPromised ==
    ASSUME IInv, IInv', [Next]_vars
    PROVE  [Promise!Next]_(Promise!vars)
<1>1. ASSUME UNCHANGED <<fdt, client, to_agent, to_daemon, asked, used>>
      PROVE  UNCHANGED Promise!vars
  BY <1>1, UnseenStep
<1>2. CASE UNCHANGED vars
  BY <1>1, <1>2 DEF vars, peers, daemon
<1>3. CASE \/ loop_top \/ reap_children_done \/ ppoll_ready \/ ppoll_eintr \/ no_server_cmd
           \/ handle_trigger_io_accept_failed \/ no_trigger_io \/ sigterm_handler \/ Exited
  BY <1>1, <1>3 DEF loop_top, reap_children_done, ppoll_ready, ppoll_eintr, no_server_cmd,
     handle_trigger_io_accept_failed, no_trigger_io, sigterm_handler, Exited, vars, peers, daemon
<1>4. CASE (\E k \in Conn : fork_server_close(k)) \/ (\E p \in Pid : process_exit(p))
  BY <1>1, <1>4 DEF fork_server_close, process_exit, LocalStep, daemon
<1>5. ASSUME NEW c \in Client, client_connect(c) \/ client_request(c) \/ client_close(c)
      PROVE  UNCHANGED Promise!vars
  <2>1. UNCHANGED <<fdt, to_agent, to_daemon, asked, used>>
    BY <1>5 DEF client_connect, client_request, client_close, LocalStep, daemon
  <2>2. \E s : client' = [client EXCEPT ![c].st = s]
    BY <1>5 DEF client_connect, client_request, client_close
  <2>3. \A x \in Client : client'[x].conn = client[x].conn
    BY <2>2, SMT DEF IInv, TypeOK, ClientState
  <2> QED BY <2>1, <2>3, UnseenStep
<1>6. CASE handle_trigger_io_error
  <2>1. UNCHANGED <<fdt, to_agent, to_daemon, asked, used>>
    BY <1>6 DEF handle_trigger_io_error, daemon
  <2>2. backlog \in Seq(Client) /\ backlog # <<>>
    BY <1>6 DEF handle_trigger_io_error, IInv, TypeOK, ClientInv
  <2>3. PICK c \in Client : c = Head(backlog)
    BY <2>2, SMT
  <2>4. Occurs(backlog, {c})
    BY <2>2, <2>3, TailOccurs
  <2>5. client[c].conn = None /\ client' = [client EXCEPT ![c] = Idle]
    BY <1>6, <2>3, <2>4 DEF IInv, ClientInv, handle_trigger_io_error
  <2>6. \A x \in Client : client'[x].conn = client[x].conn
    BY <2>5 DEF IInv, TypeOK, Idle
  <2> QED BY <2>1, <2>6, UnseenStep
<1>7. CASE reap_children_session
  <2>1. UNCHANGED <<to_agent, to_daemon, asked, used, requester>>
    BY <1>7 DEF reap_children_session, daemon
  <2>2. CASE requests_waiting_for_session = <<>>
    BY <1>1, <1>7, <2>1, <2>2 DEF reap_children_session
  <2>3. CASE requests_waiting_for_session # <<>>
    <3>1. requests_waiting_for_session \in Seq(Conn)
      BY DEF IInv, TypeOK
    <3>2. PICK k \in Conn : k = Head(requests_waiting_for_session)
      BY <2>3, <3>1, SMT
    <3>3. Occurs(requests_waiting_for_session, {k})
      BY <2>3, <3>1, <3>2, TailOccurs
    <3>4. Registered(k) = {} /\ Servers(k) = {} /\ handle_server_exec_request_do(k)
      BY <1>7, <2>3, <3>2, <3>3 DEF IInv, ConnInv, ConnOK, reap_children_session
    <3>5. client' = client /\ \A f \in Fd : fdt'[f] # fdt[f] => fdt[f] = None /\ fdt'[f] = k
      BY <2>1, <3>4, Starting
    <3> QED BY <2>1, <3>5, UnseenStep, AgentAssumption
  <2> QED BY <2>2, <2>3
<1>8. CASE handle_trigger_io \/ handle_server_cmd \/ daemon_receive
  BY <1>8, TriggerPromised, ReceivePromised, HearPromised DEF Promise!Next
<1>9. CASE (\E p \in Pid : reap_children(p)) \/ scan_connection_info
  BY <1>9, ReapPromised, ScanPromised DEF Promise!Next
<1>10. CASE \/ \E k \in Conn : daemon_exec(k)
            \/ \E f \in Fd : daemon_refuse(f)
            \/ \E f \in Fd, k \in Conn : daemon_connect(f, k)
  BY <1>10, SendPromised DEF Promise!Next
<1> QED BY <1>2, <1>3, <1>4, <1>5, <1>6, <1>7, <1>8, <1>9, <1>10 DEF Next, Agent

\* The agent implements what it promises its daemon: no identifier is reused
\* while its request or connection is open, and every connection is reported
\* at most once, after it was announced.
THEOREM PromiseKept == Spec => KeepsPromise
<1>1. Init => Promise!Init
  <2> SUFFICES ASSUME Init PROVE Promise!Init
    OBVIOUS
  <2>1. Busy = {}
    BY AgentAssumption DEF Init, Busy
  <2>2. Conns = {}
    BY DEF Init, Conns, Held
  <2> QED BY <2>1, <2>2 DEF Init, Promise!Init
<1>2. IInv /\ IInv' /\ [Next]_vars => [Promise!Next]_(Promise!vars)
  BY StepPromised
<1> QED BY <1>1, <1>2, Invariance, PTL DEF Spec, KeepsPromise, Promise!Spec

=============================================================================
