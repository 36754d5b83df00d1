---------------------------- MODULE ServiceCalls ----------------------------
(***************************************************************************)
(* Service calls between domains: the processes of dom0 that set a call up *)
(* and the daemons and agents of the two domains involved.                 *)
(*                                                                         *)
(* Every domain with an agent has its own qrexec-daemon in dom0, with its  *)
(* own table of vchan ports.  A call from VM S to VM T takes a port from   *)
(* the table of T's daemon, T's agent opens the client end of the data     *)
(* vchan, and S's agent, told the port through S's daemon, opens the       *)
(* server end.  Each agent reports the end of its own end to its own       *)
(* daemon, and both daemons look the reported port up in their own table.  *)
(* The process that sets the call up is one of                             *)
(*   "vm"        qrexec_execute_vm(): VM to VM, or to a new disposable,    *)
(*               which it also creates, starts and kills;                  *)
(*   "to_dom0"   run_qrexec_to_dom0(): VM to dom0;                         *)
(*   "from_dom0" qrexec-client: dom0 to VM, with -k killing it afterwards. *)
(*                                                                         *)
(* A daemon's sockets, request table and main loop are those of module     *)
(* QrexecDaemon; here a daemon is what its peers see of it, one step per   *)
(* request.  Messages of one vchan may overtake each other here, which     *)
(* only adds behaviours.  An agent keeps running until its domain dies.    *)
(***************************************************************************)
EXTENDS Integers, FiniteSets

CONSTANTS
    Dom,               \* Xen identifiers of the domains other than dom0
    Call,              \* the calls, each set up by a process of its own
    MAX_CLIENTS,       \* size of a daemon's port table
    Plans,             \* what the calls ask for: a set of functions on Call
    MayDie,            \* the domains that may shut down or crash on their own
    None

Kind == {"vm", "to_dom0", "from_dom0"}
Domain == Dom \cup {0}

\* For a disposable, `target' is the identifier its domain will have.  `wait'
\* is qrexec-client's -W, `kill' its -k.
Plan == [kind : Kind, source : Domain, target : Domain, disposable : BOOLEAN,
         autostart : BOOLEAN, wait : BOOLEAN, kill : BOOLEAN]

\* A call connects two different domains, one of which is dom0 exactly if it
\* is not a call between VMs.  Each disposable is created by one call.
WellFormed(q) ==
    /\ q.source # q.target
    /\ q.disposable \/ q.wait => q.kind = "vm"
    /\ q.kill => q.kind = "from_dom0"
    /\ q.kind = "vm" => q.source # 0 /\ q.target # 0
    /\ q.kind = "to_dom0" => q.target = 0
    /\ q.kind = "from_dom0" => q.source = 0

ASSUME DomAssumption == Dom \subseteq Nat \ {0} /\ MayDie \subseteq Dom
ASSUME SizeAssumption == MAX_CLIENTS \in Nat
ASSUME PlansAssumption ==
    /\ Plans \subseteq [Call -> Plan]
    /\ \A f \in Plans : \A c \in Call : WellFormed(f[c])
    /\ \A f \in Plans : \A c, d \in Call :
          f[c].disposable /\ f[d].disposable /\ f[c].target = f[d].target => c = d
ASSUME NoneAssumption == None \notin Call /\ None \notin Int

VARIABLES
    plan,              \* the parameters of each call
    pc,                \* where the process setting it up is
    vm,                \* what there is of each domain
    used,              \* used_vchan_ports of each daemon
    notify,            \* vchan_port_notify_client: a call's process, or None
    port,              \* the port the process was told
    server, client,    \* the two ends of each call's data vchan
    joined,            \* the call whose client end a server end is connected to
    expired,           \* history: calls one end of which gave up waiting
    lost               \* history: calls whose admin.vm.Start had no answer, or
                       \* whose admin.vm.Kill was not carried out

daemonVars == <<used, notify>>
dataVars == <<server, client, joined, expired>>
vars == <<plan, pc, vm, daemonVars, port, dataVars, lost>>

-----------------------------------------------------------------------------
(* State *)

VCHAN_PORT_UNUSED == -1
Index == 0 .. MAX_CLIENTS - 1          \* a port, less VCHAN_BASE_DATA_PORT

Stage == {"idle", "create", "connect", "start", "reconnect", "negotiate",
          "connect_source", "wait", "prepare", "data", "kill", "done"}
VmState == {"absent", "halted", "running", "gone"}

\* An end of a data vchan: announced to the agent, waiting for the other end,
\* connected, over but not yet reported to the daemon, and reported.
End == {"none", "sent", "waiting", "open", "ended", "gone"}

\* The daemon that allocates the port of a call, and the domain it is for
Host(c) == IF plan[c].kind = "to_dom0" THEN plan[c].source ELSE plan[c].target
Remote(c) == IF plan[c].kind = "vm" THEN plan[c].source ELSE 0

Running(d) == IF d = 0 THEN TRUE ELSE vm[d] = "running"

Creates(c, d) == plan[c].disposable /\ plan[c].target = d

Init ==
    /\ plan \in Plans
    /\ pc = [c \in Call |-> "idle"]
    /\ vm \in [Dom -> {"absent", "halted", "running"}]
    /\ \A d \in Dom : vm[d] = "absent" <=> \E c \in Call : Creates(c, d)
    /\ \A d \in Dom : vm[d] = "halted" => \A c \in Call : plan[c].source # d
    /\ \A d \in Dom : vm[d] = "running" => \E c \in Call : d \in {plan[c].source, plan[c].target}
    /\ used = [d \in Dom |-> [i \in Index |-> VCHAN_PORT_UNUSED]]
    /\ notify = [d \in Dom |-> [i \in Index |-> None]]
    /\ port = [c \in Call |-> None]
    /\ server = [c \in Call |-> "none"]
    /\ client = [c \in Call |-> "none"]
    /\ joined = [c \in Call |-> None]
    /\ expired = {}
    /\ lost = {}

-----------------------------------------------------------------------------
(* The daemons *)

\* allocate_vchan_port() of the daemon of h: the ports a connection with
\* domain d may get.  For X < Y, the daemon of X gives out every other port
\* starting from the second and the daemon of Y every other from the first.
OwnPorts_any(h, d) == Index
OwnPorts(h, d) ==
    IF d = 0 THEN Index ELSE {i \in Index : i % 2 = IF d > h THEN 1 ELSE 0}

FreePorts_taken(h, d) == OwnPorts(h, d)
FreePorts(h, d) == {i \in OwnPorts(h, d) : used[h][i] = VCHAN_PORT_UNUSED}

allocate_vchan_port(c, i) ==
    /\ i \in FreePorts(Host(c), Remote(c))
    /\ \A j \in FreePorts(Host(c), Remote(c)) : i <= j
    /\ used' = [used EXCEPT ![Host(c)][i] = Remote(c)]
    /\ notify' = [notify EXCEPT ![Host(c)][i] = c]

\* release_vchan_port(): closing the client's connection is what the process
\* waiting for the end of the call sees.
release_vchan_port_silently(h, i, d) ==
    IF used[h][i] = d
    THEN used' = [used EXCEPT ![h][i] = VCHAN_PORT_UNUSED] /\ UNCHANGED notify
    ELSE UNCHANGED daemonVars
release_vchan_port(h, i, d) ==
    IF used[h][i] = d
    THEN /\ used' = [used EXCEPT ![h][i] = VCHAN_PORT_UNUSED]
         /\ notify' = [notify EXCEPT ![h][i] = None]
    ELSE UNCHANGED daemonVars

\* terminate_client() of the daemon that had c's connection, once c closed it
Disconnected(c) ==
    [notify EXCEPT ![Host(c)] = [i \in Index |-> IF @[i] = c THEN None ELSE @[i]]]

\* MSG_CONNECTION_TERMINATED of the agent with the server, or the client, end
server_terminated(c) ==
    /\ server[c] = "ended"
    /\ server' = [server EXCEPT ![c] = "gone"]
    /\ release_vchan_port(plan[c].source, port[c], plan[c].target)
    /\ UNCHANGED <<plan, pc, vm, port, client, joined, expired, lost>>
client_terminated(c) ==
    /\ client[c] = "ended"
    /\ client' = [client EXCEPT ![c] = "gone"]
    /\ release_vchan_port(plan[c].target, port[c], plan[c].source)
    /\ UNCHANGED <<plan, pc, vm, port, server, joined, expired, lost>>

-----------------------------------------------------------------------------
(* A domain that goes away takes its agent's processes with it, and its    *)
(* daemon exits.                                                           *)

Lost(e, at) == [c \in Call |-> IF at[c] /\ e[c] # "none" THEN "gone" ELSE e[c]]

Shutdown(d) ==
    /\ vm' = [vm EXCEPT ![d] = "gone"]
    /\ used' = [used EXCEPT ![d] = [i \in Index |-> VCHAN_PORT_UNUSED]]
    /\ notify' = [notify EXCEPT ![d] = [i \in Index |-> None]]
    /\ server' = Lost(server, [c \in Call |-> plan[c].source = d])
    /\ client' = Lost(client, [c \in Call |-> plan[c].target = d])
    /\ UNCHANGED <<joined, expired>>

domain_dies(d) ==
    /\ vm[d] = "running"
    /\ Shutdown(d)
    /\ UNCHANGED <<plan, pc, port, lost>>

-----------------------------------------------------------------------------
(* The processes that set the calls up *)

Goto(c, stage) == pc' = [pc EXCEPT ![c] = stage]

\* The labels `kill:' of qrexec_execute_vm() and `cleanup:' of qrexec-client
AtEnd(c) == IF plan[c].disposable \/ plan[c].kill THEN "kill" ELSE "done"

\* A request of a VM needs a VM that runs.
begin(c) ==
    /\ pc[c] = "idle"
    /\ Running(plan[c].source)
    /\ IF plan[c].disposable
       THEN Goto(c, IF plan[c].autostart THEN "create" ELSE "done")
       ELSE Goto(c, "connect")
    /\ UNCHANGED <<plan, vm, daemonVars, port, dataVars, lost>>

create_disposable(c) ==
    /\ pc[c] = "create"
    /\ \/ /\ vm' = [vm EXCEPT ![plan[c].target] = "halted"]
          /\ Goto(c, "start")
       \/ Goto(c, "done") /\ UNCHANGED vm
    /\ UNCHANGED <<plan, daemonVars, port, dataVars, lost>>

\* connect_unix_socket(): -2 if nothing listens, which is when it makes sense
\* to start the domain, -1 on other errors and a failed handshake
connect(c) ==
    /\ pc[c] = "connect"
    /\ \/ Running(Host(c)) /\ Goto(c, "negotiate")
       \/ Running(Host(c)) /\ Goto(c, AtEnd(c))
       \/ /\ ~Running(Host(c))
          /\ Goto(c, IF plan[c].kind = "vm" /\ plan[c].autostart THEN "start" ELSE AtEnd(c))
    /\ UNCHANGED <<plan, vm, daemonVars, port, dataVars, lost>>

\* admin.vm.Start.  A domain that runs already is an error that counts as
\* success.  qubesd removes a disposable it cannot start.  Without an answer
\* the domain may have been started or not.
start(c) ==
    LET t == plan[c].target IN
    /\ pc[c] = "start"
    /\ \/ /\ vm[t] \in {"halted", "running"}
          /\ vm' = [vm EXCEPT ![t] = "running"]
          /\ Goto(c, "reconnect")
          /\ UNCHANGED lost
       \/ /\ vm[t] # "running"
          /\ vm' = [vm EXCEPT ![t] = IF plan[c].disposable THEN "gone" ELSE @]
          /\ Goto(c, "done")
          /\ UNCHANGED lost
       \/ /\ \/ UNCHANGED vm
             \/ vm[t] = "halted" /\ vm' = [vm EXCEPT ![t] = "running"]
          /\ Goto(c, "done")
          /\ lost' = lost \cup {c}
    /\ UNCHANGED <<plan, daemonVars, port, dataVars>>

reconnect(c) ==
    /\ pc[c] = "reconnect"
    /\ \/ Running(Host(c)) /\ Goto(c, "negotiate")
       \/ Goto(c, AtEnd(c))
    /\ UNCHANGED <<plan, vm, daemonVars, port, dataVars, lost>>

\* negotiate_connection_params(): the daemon allocates a port, forwards the
\* request to its agent and replies, or drops a client it has no port for.
negotiate_connection_params(c) ==
    /\ pc[c] = "negotiate"
    /\ \/ /\ Running(Host(c))
          /\ \E i \in Index :
                /\ allocate_vchan_port(c, i)
                /\ port' = [port EXCEPT ![c] = i]
          /\ IF plan[c].kind = "to_dom0"
             THEN server' = [server EXCEPT ![c] = "sent"] /\ UNCHANGED client
             ELSE client' = [client EXCEPT ![c] = "sent"] /\ UNCHANGED server
          /\ Goto(c, IF plan[c].kind = "vm" THEN "connect_source" ELSE "prepare")
       \/ /\ Running(Host(c)) => FreePorts(Host(c), Remote(c)) = {}
          /\ Goto(c, AtEnd(c))
          /\ UNCHANGED <<daemonVars, port, server, client>>
    /\ UNCHANGED <<plan, vm, joined, expired, lost>>

WaitsForEnd_as_asked(c) == plan[c].wait
\* wait_connection_end, which a disposable forces
WaitsForEnd(c) == plan[c].wait \/ plan[c].disposable

\* The rest of qrexec_execute_vm(): the port goes to the daemon of the caller,
\* which drops the message if the request is no longer pending.
send_service_connect(c) ==
    /\ pc[c] = "connect_source"
    /\ \/ /\ Running(plan[c].source)
          /\ server' = [server EXCEPT ![c] = "sent"]
       \/ UNCHANGED server
    /\ notify' = IF WaitsForEnd(c) THEN notify ELSE Disconnected(c)
    /\ Goto(c, IF WaitsForEnd(c) THEN "wait" ELSE AtEnd(c))
    /\ UNCHANGED <<plan, vm, used, port, client, joined, expired, lost>>

\* poll() returns when the daemon closes the connection or exits.
wait_connection_end(c) ==
    /\ pc[c] = "wait"
    /\ \A i \in Index : notify[Host(c)][i] # c
    /\ Goto(c, AtEnd(c))
    /\ UNCHANGED <<plan, vm, daemonVars, port, dataVars, lost>>

\* dom0's own end of the data vchan: run_qrexec_to_dom0() prepares the command
\* and opens the client end, qrexec-client opens the server end.
prepare(c) ==
    /\ pc[c] = "prepare"
    /\ IF plan[c].kind = "to_dom0"
       THEN /\ client' = [client EXCEPT ![c] = "waiting"]
            /\ UNCHANGED server
       ELSE /\ server' = [server EXCEPT ![c] = "waiting"]
            /\ UNCHANGED client
    /\ Goto(c, "data")
    /\ UNCHANGED <<plan, vm, daemonVars, port, joined, expired, lost>>

\* handshake_and_go() returned, or the vchan could not be set up.
data_done(c) ==
    /\ \/ pc[c] = "prepare"
       \/ pc[c] = "data" /\ IF plan[c].kind = "to_dom0" THEN client[c] = "gone"
                                                        ELSE server[c] = "gone"
    /\ notify' = Disconnected(c)
    /\ Goto(c, AtEnd(c))
    /\ UNCHANGED <<plan, vm, used, port, dataVars, lost>>

\* admin.vm.Kill, of which nobody looks at the result: it may fail.
kill(c) ==
    /\ pc[c] = "kill"
    /\ \/ /\ vm[plan[c].target] = "running"
          /\ Shutdown(plan[c].target)
          /\ UNCHANGED lost
       \/ /\ vm[plan[c].target] = "running"
          /\ lost' = lost \cup {c}
          /\ UNCHANGED <<vm, daemonVars, dataVars>>
       \/ /\ vm[plan[c].target] # "running"
          /\ UNCHANGED <<vm, daemonVars, dataVars, lost>>
    /\ Goto(c, "done")
    /\ UNCHANGED <<plan, port>>

-----------------------------------------------------------------------------
(* The ends of the data vchans *)

\* The agent starts handle_new_process(), or hands the port to the waiting
\* qrexec-client-vm, which runs handle_data_client().
agent_opens_server(c) ==
    /\ server[c] = "sent"
    /\ server' = [server EXCEPT ![c] = "waiting"]
    /\ UNCHANGED <<plan, pc, vm, daemonVars, port, client, joined, expired, lost>>
agent_opens_client(c) ==
    /\ client[c] = "sent"
    /\ client' = [client EXCEPT ![c] = "waiting"]
    /\ UNCHANGED <<plan, pc, vm, daemonVars, port, server, joined, expired, lost>>

\* libvchan: a client end finds the server end by domain and port alone.
SameVchan(c, d) ==
    /\ plan[c].source = plan[d].source
    /\ plan[c].target = plan[d].target
    /\ port[c] = port[d]

vchan_connects(c, d) ==
    /\ server[c] = "waiting"
    /\ client[d] = "waiting"
    /\ SameVchan(c, d)
    /\ server' = [server EXCEPT ![c] = "open"]
    /\ client' = [client EXCEPT ![d] = "open"]
    /\ joined' = [joined EXCEPT ![c] = d]
    /\ UNCHANGED <<plan, pc, vm, daemonVars, port, expired, lost>>

\* An agent reports the end of its process; dom0's process just returns.
Over(d) == IF d = 0 THEN "gone" ELSE "ended"

\* qubes_wait_for_vchan_connection_with_timeout() fails.
server_times_out(c) ==
    /\ server[c] = "waiting"
    /\ server' = [server EXCEPT ![c] = Over(plan[c].source)]
    /\ expired' = expired \cup {c}
    /\ UNCHANGED <<plan, pc, vm, daemonVars, port, client, joined, lost>>
client_times_out(c) ==
    /\ client[c] = "waiting"
    /\ client' = [client EXCEPT ![c] = Over(plan[c].target)]
    /\ expired' = expired \cup {c}
    /\ UNCHANGED <<plan, pc, vm, daemonVars, port, server, joined, lost>>

\* qrexec_process_io() returns: when it pleases, or because the peer is gone.
server_closes(c) ==
    /\ server[c] = "open"
    /\ server' = [server EXCEPT ![c] = Over(plan[c].source)]
    /\ UNCHANGED <<plan, pc, vm, daemonVars, port, client, joined, expired, lost>>
client_closes(c) ==
    /\ client[c] = "open"
    /\ client' = [client EXCEPT ![c] = Over(plan[c].target)]
    /\ UNCHANGED <<plan, pc, vm, daemonVars, port, server, joined, expired, lost>>

-----------------------------------------------------------------------------

Process(c) ==
    \/ begin(c) \/ create_disposable(c) \/ connect(c) \/ start(c) \/ reconnect(c)
    \/ negotiate_connection_params(c) \/ send_service_connect(c)
    \/ wait_connection_end(c) \/ prepare(c) \/ data_done(c) \/ kill(c)

Ends(c) ==
    \/ agent_opens_server(c) \/ agent_opens_client(c)
    \/ \E d \in Call : vchan_connects(c, d)
    \/ server_times_out(c) \/ client_times_out(c)
    \/ server_closes(c) \/ client_closes(c)
    \/ server_terminated(c) \/ client_terminated(c)

Next ==
    \/ \E c \in Call : Process(c) \/ Ends(c)
    \/ \E d \in MayDie : domain_dies(d)

Spec == Init /\ [][Next]_vars

PeerOpen(c) == \E s \in Call : joined[s] = c /\ server[s] = "open"

\* A process of dom0, a daemon or an agent that can go on does so; a wait for
\* a connection is bounded by a timeout; qrexec_process_io() returns once the
\* peer has closed.  Services and their callers may talk for ever.
MustGoOn(c) ==
    \/ agent_opens_client(c)
    \/ client_times_out(c)
    \/ ~PeerOpen(c) /\ client_closes(c)
    \/ client_terminated(c)

Fairness == \A c \in Call : WF_vars(Process(c)) /\ WF_vars(MustGoOn(c))

FairSpec == Spec /\ Fairness

-----------------------------------------------------------------------------
(* Properties *)

\* The processes, the daemons' tables and the ends of the vchans keep their
\* types; in particular a process is only ever told a port of the table.
TypeOK ==
    /\ plan \in [Call -> Plan]
    /\ pc \in [Call -> Stage]
    /\ vm \in [Dom -> VmState]
    /\ used \in [Dom -> [Index -> Domain \cup {VCHAN_PORT_UNUSED}]]
    /\ notify \in [Dom -> [Index -> Call \cup {None}]]
    /\ port \in [Call -> Index \cup {None}]
    /\ server \in [Call -> End]
    /\ client \in [Call -> End]
    /\ joined \in [Call -> Call \cup {None}]
    /\ expired \subseteq Call
    /\ lost \subseteq Call

\* The end of a call's vchan at the domain whose daemon allocated the port,
\* and whether that daemon has yet to be told that the call is over
HostEnd(c) == IF plan[c].kind = "to_dom0" THEN server[c] ELSE client[c]
Live(c) == HostEnd(c) \in {"sent", "waiting", "open", "ended"}

\* allocate_vchan_port(): "Make sure the allocated ports numbers are unique for
\* a given {domX, domY} set", whichever of the two daemons allocated them,
\* although each looks at its own table only and frees a port on the word of
\* an agent that also reports connections the other daemon allocated.
PortsUnique ==
    \A c, d \in Call :
        /\ c # d
        /\ Live(c) /\ Live(d)
        /\ {plan[c].source, plan[c].target} = {plan[d].source, plan[d].target}
        => port[c] # port[d]

\* A call with the port of c was given up by one of its ends.
GivenUp(c) == \E e \in expired : SameVchan(e, c)

\* A data vchan connects the two ends of one call.  The ends of two calls can
\* meet only after some call that had the same port was given up by one of its
\* ends, which waited in vain: the port was then free to be used again while
\* the other end was still to come.  That end takes the place of an end of the
\* next call, which is left over in turn.
ConnectsOwnCall ==
    \A c \in Call : joined[c] \notin {None, c} => GivenUp(c)

\* qrexec_execute_vm() kills a disposable only once the service in it has
\* ended and its agent has said so, not as soon as the call is set up.
KilledAfterUse ==
    \A c \in Call :
        pc[c] = "kill" /\ plan[c].disposable => ~Live(c)

\* A disposable that runs is eventually killed, on every path through
\* qrexec_execute_vm(), unless the service and its caller keep talking, the
\* answer to admin.vm.Start got lost or admin.vm.Kill failed: the process asks
\* once and then forgets the disposable.
Talking(c) == client[c] = "open" /\ PeerOpen(c)
DisposableReleased ==
    \A c \in Call :
        (plan[c].disposable /\ Running(plan[c].target))
            ~> (~Running(plan[c].target) \/ Talking(c) \/ c \in lost)
=============================================================================
