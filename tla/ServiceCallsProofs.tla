------------------------- MODULE ServiceCallsProofs -------------------------
(***************************************************************************)
(* Vchan ports are unique for every pair of domains, whatever the domains, *)
(* the calls between them and the size of the port tables.                 *)
(*                                                                         *)
(* PortsUnique is about two daemons that never talk to each other, so the  *)
(* induction needs what makes their choices independent: every port in use *)
(* has the parity its daemon may give out for that domain (EntriesOwn), so *)
(* an agent's report about a connection the other daemon allocated never   *)
(* matches an entry of its own daemon.  That a reported port belongs to    *)
(* the call that is over (PortsReserved), and that no process allocates    *)
(* twice (StagesFit), completes it.                                        *)
(***************************************************************************)
EXTENDS ServiceCalls, TLAPS

\* Most leaves are first-order reasoning, which is Zenon's; a leaf that needs
\* arithmetic, or functions and records taken apart, names SMT.
USE Zenon

\* Stages before a port is allocated, and those that know one
Before == {"idle", "create", "connect", "start", "reconnect", "negotiate"}
Told == {"connect_source", "wait", "prepare", "data"}

StagesFit ==
    \A c \in Call :
        /\ pc[c] \in Before => server[c] = "none" /\ client[c] = "none"
        /\ pc[c] \in {"connect_source", "wait"} => plan[c].kind = "vm"
        /\ pc[c] \in {"prepare", "data"} => plan[c].kind # "vm"
        /\ pc[c] = "kill" => plan[c].kind # "to_dom0"

\* A port in use by an end, or known to a process, is one the daemon may give out.
PortsOwn ==
    \A c \in Call :
        (server[c] # "none" \/ client[c] # "none" \/ pc[c] \in Told)
            => port[c] \in OwnPorts(Host(c), Remote(c))

EntriesOwn ==
    \A h \in Dom : \A i \in Index :
        used[h][i] # VCHAN_PORT_UNUSED => i \in OwnPorts(h, used[h][i])

\* dom0 has no agent that would report anything.
NoAgentInDom0 ==
    \A c \in Call :
        /\ plan[c].source = 0 => server[c] \notin {"sent", "ended"}
        /\ plan[c].target = 0 => client[c] \notin {"sent", "ended"}

PortsReserved ==
    /\ \A c \in Call : Live(c) => used[Host(c)][port[c]] = Remote(c)
    /\ \A c, d \in Call :
          c # d /\ Live(c) /\ Live(d) /\ Host(c) = Host(d) => port[c] # port[d]

IInv ==
    /\ TypeOK
    /\ \A c \in Call : WellFormed(plan[c])
    /\ StagesFit
    /\ PortsOwn
    /\ EntriesOwn
    /\ NoAgentInDom0
    /\ PortsReserved
-----------------------------------------------------------------------------
(* Types *)

\* The tables start empty and no call has begun.
LEMMA InitType == Init => TypeOK /\ \A c \in Call : WellFormed(plan[c])
<1> SUFFICES ASSUME Init PROVE TypeOK /\ \A c \in Call : WellFormed(plan[c])
  OBVIOUS
<1>1. plan \in [Call -> Plan] /\ \A c \in Call : WellFormed(plan[c])
  BY PlansAssumption DEF Init
<1>2. pc \in [Call -> Stage] /\ vm \in [Dom -> VmState]
  BY DEF Init, Stage, VmState
<1>3. used \in [Dom -> [Index -> Domain \cup {VCHAN_PORT_UNUSED}]]
      /\ notify \in [Dom -> [Index -> Call \cup {None}]]
  BY DEF Init
<1>4. port \in [Call -> Index \cup {None}] /\ server \in [Call -> End]
      /\ client \in [Call -> End] /\ joined \in [Call -> Call \cup {None}]
      /\ expired \subseteq Call /\ lost \subseteq Call
  BY DEF Init, End
<1> QED
  BY <1>1, <1>2, <1>3, <1>4 DEF TypeOK

\* Where a call's port is allocated, there is a daemon.
LEMMA HostType ==
  ASSUME TypeOK, NEW c \in Call, WellFormed(plan[c])
  PROVE  /\ Host(c) \in Dom
         /\ Remote(c) \in Domain
         /\ Host(c) # Remote(c)
<1>1. plan[c] \in Plan
  BY DEF TypeOK
<1>2. plan[c].source \in Dom \cup {0} /\ plan[c].target \in Dom \cup {0} /\ plan[c].kind \in Kind
  BY <1>1 DEF Plan, Domain
<1> QED
  BY <1>2, DomAssumption DEF Host, Remote, WellFormed, Kind, Domain

\* release_vchan_port() keeps the tables well typed.
LEMMA ReleaseType ==
  ASSUME TypeOK, NEW h \in Dom, NEW i \in Index, NEW d, release_vchan_port(h, i, d)
  PROVE  /\ used' \in [Dom -> [Index -> Domain \cup {VCHAN_PORT_UNUSED}]]
         /\ notify' \in [Dom -> [Index -> Call \cup {None}]]
<1>1. CASE used[h][i] = d
  <2>1. used' = [used EXCEPT ![h][i] = VCHAN_PORT_UNUSED]
        /\ notify' = [notify EXCEPT ![h][i] = None]
    BY <1>1 DEF release_vchan_port
  <2>2. used' \in [Dom -> [Index -> Domain \cup {VCHAN_PORT_UNUSED}]]
    BY <2>1 DEF TypeOK
  <2>3. notify' \in [Dom -> [Index -> Call \cup {None}]]
    BY <2>1 DEF TypeOK
  <2> QED
    BY <2>2, <2>3
<1>2. CASE used[h][i] # d
  BY <1>2 DEF TypeOK, release_vchan_port, daemonVars
<1> QED
  BY <1>1, <1>2

\* A domain that goes away leaves everything well typed.
LEMMA ShutdownType ==
  ASSUME TypeOK, NEW d \in Dom, Shutdown(d)
  PROVE  /\ vm' \in [Dom -> VmState]
         /\ used' \in [Dom -> [Index -> Domain \cup {VCHAN_PORT_UNUSED}]]
         /\ notify' \in [Dom -> [Index -> Call \cup {None}]]
         /\ server' \in [Call -> End] /\ client' \in [Call -> End]
         /\ joined' = joined /\ expired' = expired
<1>1. vm' \in [Dom -> VmState]
  BY DEF TypeOK, Shutdown, VmState
<1>2. used' \in [Dom -> [Index -> Domain \cup {VCHAN_PORT_UNUSED}]]
  BY DEF TypeOK, Shutdown
<1>3. notify' \in [Dom -> [Index -> Call \cup {None}]]
  BY DEF TypeOK, Shutdown
<1>4. server' \in [Call -> End] /\ client' \in [Call -> End]
  BY DEF TypeOK, Shutdown, Lost, End
<1> QED
  BY <1>1, <1>2, <1>3, <1>4 DEF Shutdown

\* A port an end of a call uses is an index of the table.
LEMMA PortType ==
  ASSUME IInv, NEW c \in Call, server[c] # "none" \/ client[c] # "none" \/ pc[c] \in Told
  PROVE  port[c] \in Index
<1>1. port[c] \in OwnPorts(Host(c), Remote(c))
  BY DEF IInv, PortsOwn
<1> QED
  BY <1>1 DEF OwnPorts

\* The process that sets a call up keeps the state well typed.
LEMMA ProcessType == ASSUME IInv, NEW c \in Call, Process(c) PROVE TypeOK'
<1> USE DEF TypeOK
<1>0. TypeOK /\ Host(c) \in Dom /\ Remote(c) \in Domain
  BY HostType DEF IInv
<1>1. ASSUME NEW stage \in Stage, Goto(c, stage) PROVE pc' \in [Call -> Stage]
  BY <1>0, <1>1 DEF Goto
<1>a. AtEnd(c) \in Stage
  BY DEF AtEnd, Stage
<1>2. CASE begin(c)
  <2>1. pc' \in [Call -> Stage]
    BY <1>0, <1>1, <1>2 DEF begin, Stage
  <2> QED
    BY <1>0, <1>2, <2>1 DEF begin, daemonVars, dataVars
<1>3. CASE create_disposable(c)
  <2>1. pc' \in [Call -> Stage]
    BY <1>0, <1>1, <1>3 DEF create_disposable, Stage
  <2>2. vm' \in [Dom -> VmState]
    BY <1>0, <1>3 DEF create_disposable, VmState
  <2> QED
    BY <1>0, <1>3, <2>1, <2>2 DEF create_disposable, daemonVars, dataVars
<1>4. CASE connect(c)
  <2>1. pc' \in [Call -> Stage]
    BY <1>0, <1>1, <1>4, <1>a DEF connect, Stage
  <2> QED
    BY <1>0, <1>4, <2>1 DEF connect, daemonVars, dataVars
<1>5. CASE start(c)
  <2>1. pc' \in [Call -> Stage]
    BY <1>0, <1>1, <1>5 DEF start, Stage
  <2>2. vm' \in [Dom -> VmState]
    BY <1>0, <1>5 DEF start, VmState
  <2>3. lost' \subseteq Call
    BY <1>0, <1>5 DEF start
  <2> QED
    BY <1>0, <1>5, <2>1, <2>2, <2>3 DEF start, daemonVars, dataVars
<1>6. CASE reconnect(c)
  <2>1. pc' \in [Call -> Stage]
    BY <1>0, <1>1, <1>6, <1>a DEF reconnect, Stage
  <2> QED
    BY <1>0, <1>6, <2>1 DEF reconnect, daemonVars, dataVars
<1>7. CASE negotiate_connection_params(c)
  <2>1. pc' \in [Call -> Stage]
    BY <1>0, <1>1, <1>7, <1>a DEF negotiate_connection_params, Stage
  <2>2. CASE UNCHANGED <<daemonVars, port, server, client>>
    BY <1>0, <1>7, <2>1, <2>2 DEF negotiate_connection_params, daemonVars
  <2>3. ASSUME NEW i \in Index, allocate_vchan_port(c, i), port' = [port EXCEPT ![c] = i]
        PROVE  /\ used' \in [Dom -> [Index -> Domain \cup {VCHAN_PORT_UNUSED}]]
               /\ notify' \in [Dom -> [Index -> Call \cup {None}]]
               /\ port' \in [Call -> Index \cup {None}]
    <3>1. used' \in [Dom -> [Index -> Domain \cup {VCHAN_PORT_UNUSED}]]
      BY <1>0, <2>3 DEF allocate_vchan_port
    <3>2. notify' \in [Dom -> [Index -> Call \cup {None}]]
      BY <1>0, <2>3 DEF allocate_vchan_port
    <3> QED
      BY <1>0, <2>3, <3>1, <3>2
  <2>4. CASE ~UNCHANGED <<daemonVars, port, server, client>>
    <3>1. PICK i \in Index : allocate_vchan_port(c, i) /\ port' = [port EXCEPT ![c] = i]
      BY <1>7, <2>4 DEF negotiate_connection_params
    <3>2. server' \in [Call -> End] /\ client' \in [Call -> End]
      BY <1>0, <1>7, <2>4 DEF negotiate_connection_params, End
    <3> QED
      BY <1>0, <1>7, <2>1, <2>3, <3>1, <3>2 DEF negotiate_connection_params
  <2> QED
    BY <2>2, <2>4
<1>b. Disconnected(c) \in [Dom -> [Index -> Call \cup {None}]]
  BY <1>0 DEF Disconnected
<1>8. CASE send_service_connect(c)
  <2>1. pc' \in [Call -> Stage]
    BY <1>0, <1>1, <1>8, <1>a DEF send_service_connect, Stage
  <2>2. server' \in [Call -> End]
    BY <1>0, <1>8 DEF send_service_connect, End
  <2>3. notify' \in [Dom -> [Index -> Call \cup {None}]]
    BY <1>0, <1>8, <1>b DEF send_service_connect
  <2> QED
    BY <1>0, <1>8, <2>1, <2>2, <2>3 DEF send_service_connect
<1>9. CASE wait_connection_end(c)
  <2>1. pc' \in [Call -> Stage]
    BY <1>0, <1>1, <1>9, <1>a DEF wait_connection_end, Stage
  <2> QED
    BY <1>0, <1>9, <2>1 DEF wait_connection_end, daemonVars, dataVars
<1>10. CASE prepare(c)
  <2>1. pc' \in [Call -> Stage]
    BY <1>0, <1>1, <1>10 DEF prepare, Stage
  <2>2. server' \in [Call -> End] /\ client' \in [Call -> End]
    BY <1>0, <1>10 DEF prepare, End
  <2> QED
    BY <1>0, <1>10, <2>1, <2>2 DEF prepare, daemonVars
<1>11. CASE data_done(c)
  <2>1. pc' \in [Call -> Stage]
    BY <1>0, <1>1, <1>11, <1>a DEF data_done, Stage
  <2> QED
    BY <1>0, <1>11, <1>b, <2>1 DEF data_done, dataVars
<1>12. CASE kill(c)
  <2>1. pc' \in [Call -> Stage]
    BY <1>0, <1>1, <1>12 DEF kill, Stage
  <2>a. lost' \subseteq Call
    BY <1>0, <1>12 DEF kill
  <2>2. CASE Shutdown(plan[c].target)
    <3>1. Host(c) = plan[c].target
      BY <1>12 DEF kill, IInv, StagesFit, Host
    <3> QED
      BY <1>0, <1>12, <2>a, <2>1, <2>2, <3>1, ShutdownType DEF kill
  <2>3. CASE UNCHANGED <<vm, daemonVars, dataVars>>
    BY <1>0, <1>12, <2>a, <2>1, <2>3 DEF kill, daemonVars, dataVars
  <2> QED
    BY <1>0, <1>12, <2>2, <2>3 DEF kill
<1> QED
  BY <1>2, <1>3, <1>4, <1>5, <1>6, <1>7, <1>8, <1>9, <1>10, <1>11, <1>12 DEF Process

\* The ends of the data vchans and the daemons they are reported to keep the
\* state well typed.
LEMMA EndsType == ASSUME IInv, NEW c \in Call, Ends(c) PROVE TypeOK'
<1> USE DEF TypeOK
<1>0. TypeOK /\ plan[c] \in Plan
  BY DEF IInv
<1>1. plan[c].source \in Domain /\ plan[c].target \in Domain
  BY <1>0 DEF Plan
<1>2. CASE agent_opens_server(c) \/ agent_opens_client(c)
  BY <1>0, <1>2 DEF agent_opens_server, agent_opens_client, End, daemonVars
<1>3. ASSUME NEW d \in Call, vchan_connects(c, d) PROVE TypeOK'
  BY <1>0, <1>3 DEF vchan_connects, End, daemonVars
<1>4. CASE server_times_out(c) \/ server_closes(c)
  BY <1>0, <1>4 DEF server_times_out, server_closes, Over, End, daemonVars
<1>5. CASE client_times_out(c) \/ client_closes(c)
  BY <1>0, <1>5 DEF client_times_out, client_closes, Over, End, daemonVars
<1>6. CASE server_terminated(c)
  <2>1. plan[c].source \in Dom /\ port[c] \in Index
    BY <1>1, <1>6, PortType DEF server_terminated, IInv, NoAgentInDom0, Domain
  <2>2. server' \in [Call -> End]
    BY <1>0, <1>6 DEF server_terminated, End
  <2> QED
    BY <1>0, <1>6, <2>1, <2>2, ReleaseType DEF server_terminated
<1>7. CASE client_terminated(c)
  <2>1. plan[c].target \in Dom /\ port[c] \in Index
    BY <1>1, <1>7, PortType DEF client_terminated, IInv, NoAgentInDom0, Domain
  <2>2. client' \in [Call -> End]
    BY <1>0, <1>7 DEF client_terminated, End
  <2> QED
    BY <1>0, <1>7, <2>1, <2>2, ReleaseType DEF client_terminated
<1> QED
  BY <1>2, <1>3, <1>4, <1>5, <1>6, <1>7 DEF Ends

-----------------------------------------------------------------------------
(* The induction *)

\* What is fixed for good: the calls' parameters, and so which daemon
\* allocates the port of a call.
Fixed == plan' = plan

\* Only a process with a domain to kill gets there.
LEMMA EndStage ==
  ASSUME NEW c \in Call, WellFormed(plan[c])
  PROVE  AtEnd(c) = "done" \/ (AtEnd(c) = "kill" /\ plan[c].kind # "to_dom0")
<1>1. CASE plan[c].disposable
  BY <1>1 DEF AtEnd, WellFormed
<1>2. CASE plan[c].kill
  BY <1>2 DEF AtEnd, WellFormed
<1>3. CASE ~(plan[c].disposable \/ plan[c].kill)
  BY <1>3 DEF AtEnd
<1> QED
  BY <1>1, <1>2, <1>3

\* A step that leaves ports and tables alone and brings no call to life keeps
\* what is in the tables.
LEMMA TablesKept ==
  ASSUME IInv, Fixed, used' = used, port' = port, \A c \in Call : Live(c)' => Live(c)
  PROVE  EntriesOwn' /\ PortsReserved'
<1>1. EntriesOwn'
  BY DEF IInv, EntriesOwn, OwnPorts
<1>2. \A c \in Call : Host(c)' = Host(c) /\ Remote(c)' = Remote(c)
  BY DEF Fixed, Host, Remote
<1>3. PortsReserved'
  BY <1>2 DEF IInv, PortsReserved
<1> QED
  BY <1>1, <1>3

\* Steps of the process that neither allocate a port nor kill a domain
LEMMA ProcessKeeps ==
  ASSUME IInv, NEW c \in Call,
         \/ begin(c) \/ create_disposable(c) \/ connect(c) \/ start(c) \/ reconnect(c)
         \/ send_service_connect(c) \/ wait_connection_end(c) \/ prepare(c) \/ data_done(c)
  PROVE  StagesFit' /\ PortsOwn' /\ EntriesOwn' /\ NoAgentInDom0' /\ PortsReserved'
<1>0. TypeOK /\ WellFormed(plan[c]) /\ plan[c] \in Plan
  BY DEF IInv, TypeOK
<1>1. Fixed /\ used' = used /\ port' = port
  BY DEF Fixed, begin, create_disposable, connect, start, reconnect, send_service_connect,
         wait_connection_end, prepare, data_done, daemonVars
<1>2. \A d \in Call : d # c => pc'[d] = pc[d] /\ server'[d] = server[d] /\ client'[d] = client[d]
  BY <1>0 DEF TypeOK, begin, create_disposable, connect, start, reconnect, send_service_connect,
         wait_connection_end, prepare, data_done, dataVars, Goto
<1>3. AtEnd(c) = "done" \/ (AtEnd(c) = "kill" /\ plan[c].kind # "to_dom0")
  BY <1>0, EndStage
<1>4. CASE begin(c) \/ create_disposable(c) \/ connect(c) \/ start(c) \/ reconnect(c)
  <2>1. server' = server /\ client' = client
    BY <1>4 DEF begin, create_disposable, connect, start, reconnect, dataVars
  <2>2. pc[c] \in Before
    BY <1>4 DEF Before, begin, create_disposable, connect, start, reconnect
  <2>3. \/ pc'[c] \in Before
        \/ pc'[c] = "done"
        \/ pc'[c] = "kill" /\ plan[c].kind # "to_dom0"
    BY <1>0, <1>3, <1>4 DEF TypeOK, Before, begin, create_disposable, connect, start, reconnect, Goto
  <2>4. StagesFit'
    BY <1>1, <1>2, <2>1, <2>2, <2>3 DEF IInv, StagesFit, Fixed, Before
  <2>5. PortsOwn'
    BY <1>1, <1>2, <2>1, <2>3 DEF IInv, PortsOwn, Fixed, Before, Told, Host, Remote
  <2>6. NoAgentInDom0'
    BY <1>1, <2>1 DEF IInv, NoAgentInDom0, Fixed
  <2> QED
    BY <1>1, <2>1, <2>4, <2>5, <2>6, TablesKept DEF Fixed, Live, HostEnd
<1>5. CASE send_service_connect(c) \/ wait_connection_end(c) \/ prepare(c) \/ data_done(c)
  <2>1. pc[c] \in Told
    BY <1>5 DEF Told, send_service_connect, wait_connection_end, prepare, data_done
  <2>2. \/ pc'[c] = "wait" /\ plan[c].kind = "vm"
        \/ pc'[c] = "data" /\ plan[c].kind # "vm"
        \/ pc'[c] = "done"
        \/ pc'[c] = "kill" /\ plan[c].kind # "to_dom0"
    BY <1>0, <1>3, <1>5 DEF TypeOK, IInv, StagesFit, send_service_connect, wait_connection_end,
                            prepare, data_done, Goto
  <2>3. StagesFit'
    BY <1>1, <1>2, <2>2 DEF IInv, StagesFit, Fixed, Before
  <2>4. PortsOwn'
    BY <1>1, <1>2, <2>1 DEF IInv, PortsOwn, Fixed, Told, Host, Remote
  <2>5. /\ server'[c] = server[c] \/ (server'[c] = "sent" /\ plan[c].kind = "vm")
                                  \/ (server'[c] = "waiting" /\ plan[c].kind = "from_dom0")
        /\ client'[c] = client[c] \/ (client'[c] = "waiting" /\ plan[c].kind = "to_dom0")
    BY <1>0, <1>5 DEF TypeOK, IInv, StagesFit, send_service_connect, wait_connection_end,
                      prepare, data_done, dataVars, Plan, Kind
  <2>6. NoAgentInDom0'
    BY <1>0, <1>1, <1>2, <2>5 DEF IInv, NoAgentInDom0, Fixed, WellFormed
  <2>7. \A d \in Call : Live(d)' => Live(d)
    BY <1>1, <1>2, <2>5 DEF Live, HostEnd, Fixed
  <2> QED
    BY <1>1, <2>3, <2>4, <2>6, <2>7, TablesKept
<1> QED
  BY <1>4, <1>5

\* negotiate_connection_params(): the port a call gets was free, so no other
\* call of the same daemon uses it.
LEMMA AllocationKeeps ==
  ASSUME IInv, NEW c \in Call, negotiate_connection_params(c)
  PROVE  StagesFit' /\ PortsOwn' /\ EntriesOwn' /\ NoAgentInDom0' /\ PortsReserved'
<1>0. TypeOK /\ WellFormed(plan[c]) /\ plan[c] \in Plan /\ Host(c) \in Dom /\ Remote(c) \in Domain
  BY HostType DEF IInv, TypeOK
<1>1. Fixed /\ pc[c] = "negotiate" /\ server[c] = "none" /\ client[c] = "none"
  BY DEF Fixed, negotiate_connection_params, IInv, StagesFit, Before
<1>2. \A d \in Call : Host(d)' = Host(d) /\ Remote(d)' = Remote(d)
  BY <1>1 DEF Fixed, Host, Remote
<1>3. AtEnd(c) = "done" \/ (AtEnd(c) = "kill" /\ plan[c].kind # "to_dom0")
  BY <1>0, EndStage
<1>4. CASE UNCHANGED <<daemonVars, port, server, client>> /\ Goto(c, AtEnd(c))
  <2>1. used' = used /\ port' = port /\ server' = server /\ client' = client
    BY <1>4 DEF daemonVars
  <2>2. \A d \in Call : pc'[d] = IF d = c THEN AtEnd(c) ELSE pc[d]
    BY <1>0, <1>4 DEF TypeOK, Goto
  <2>3. StagesFit'
    BY <1>1, <1>3, <2>1, <2>2 DEF IInv, StagesFit, Fixed, Before
  <2>4. PortsOwn'
    BY <1>1, <1>2, <1>3, <2>1, <2>2 DEF IInv, PortsOwn, Told, OwnPorts
  <2>5. NoAgentInDom0'
    BY <1>1, <2>1 DEF IInv, NoAgentInDom0, Fixed
  <2> QED
    BY <1>1, <2>1, <2>3, <2>4, <2>5, TablesKept DEF Live, HostEnd, Fixed
<1>5. ASSUME NEW i \in Index, allocate_vchan_port(c, i), port' = [port EXCEPT ![c] = i],
             IF plan[c].kind = "to_dom0"
             THEN server' = [server EXCEPT ![c] = "sent"] /\ UNCHANGED client
             ELSE client' = [client EXCEPT ![c] = "sent"] /\ UNCHANGED server,
             Goto(c, IF plan[c].kind = "vm" THEN "connect_source" ELSE "prepare")
      PROVE  StagesFit' /\ PortsOwn' /\ EntriesOwn' /\ NoAgentInDom0' /\ PortsReserved'
  <2>1. i \in OwnPorts(Host(c), Remote(c)) /\ used[Host(c)][i] = VCHAN_PORT_UNUSED
    BY <1>5 DEF allocate_vchan_port, FreePorts
  <2>2. \A h \in Dom : \A j \in Index :
           used'[h][j] = IF h = Host(c) /\ j = i THEN Remote(c) ELSE used[h][j]
    BY <1>0, <1>5 DEF allocate_vchan_port, TypeOK
  <2>3. \A d \in Call : port'[d] = IF d = c THEN i ELSE port[d]
    BY <1>0, <1>5 DEF TypeOK
  <2>4. /\ \A d \in Call : d # c => server'[d] = server[d] /\ client'[d] = client[d]
        /\ server'[c] = IF plan[c].kind = "to_dom0" THEN "sent" ELSE "none"
        /\ client'[c] = IF plan[c].kind = "to_dom0" THEN "none" ELSE "sent"
    BY <1>0, <1>1, <1>5 DEF TypeOK
  <2>5. \A d \in Call :
           pc'[d] = IF d # c THEN pc[d]
                    ELSE IF plan[c].kind = "vm" THEN "connect_source" ELSE "prepare"
    BY <1>0, <1>5 DEF TypeOK, Goto
  <2>6. StagesFit'
    BY <1>1, <2>4, <2>5, SMT DEF IInv, StagesFit, Fixed, Before
  <2>7. PortsOwn'
    BY <1>1, <1>2, <2>1, <2>3, <2>4, <2>5, SMT DEF IInv, PortsOwn, Told, OwnPorts
  <2>8. EntriesOwn'
    BY <1>0, <2>1, <2>2, SMT DEF IInv, EntriesOwn, OwnPorts
  <2>9. NoAgentInDom0'
    BY <1>0, <1>1, <2>4 DEF IInv, NoAgentInDom0, Fixed, WellFormed, Plan, Kind
  <2>10. \A d \in Call : d # c => (Live(d)' <=> Live(d))
    BY <1>1, <2>4 DEF Live, HostEnd, Fixed
  <2>11. \A d \in Call : Live(d) => port[d] \in Index /\ Host(d) \in Dom
    BY HostType, PortType DEF IInv, Live, HostEnd
  <2>12. \A d \in Call : Live(d) => Remote(d) \in Domain /\ Remote(d) # VCHAN_PORT_UNUSED
    BY HostType, DomAssumption, SMT DEF IInv, Domain, VCHAN_PORT_UNUSED
  <2>13. \A d \in Call : Live(d) => ~(Host(d) = Host(c) /\ port[d] = i)
    BY <2>1, <2>12 DEF IInv, PortsReserved
  <2>14. \A d \in Call : Live(d)' => used'[Host(d)][port'[d]] = Remote(d)
    BY <1>0, <2>2, <2>3, <2>10, <2>11, <2>13, SMT DEF IInv, PortsReserved
  <2>15. \A d, e \in Call :
            d # e /\ Live(d)' /\ Live(e)' /\ Host(d) = Host(e) => port'[d] # port'[e]
    BY <2>3, <2>10, <2>13 DEF IInv, PortsReserved
  <2>16. PortsReserved'
    BY <1>2, <2>14, <2>15 DEF PortsReserved
  <2> QED
    BY <2>6, <2>7, <2>8, <2>9, <2>16
<1> QED
  BY <1>4, <1>5 DEF negotiate_connection_params

\* A domain that goes away takes its table, and the calls in it, with it.
LEMMA ShutdownKeeps ==
  ASSUME IInv, NEW d \in Dom, Shutdown(d), Fixed, port' = port,
         \A c \in Call : pc'[c] = pc[c] \/ pc'[c] = "done"
  PROVE  StagesFit' /\ PortsOwn' /\ EntriesOwn' /\ NoAgentInDom0' /\ PortsReserved'
<1>0. TypeOK
  BY DEF IInv
<1>1. \A c \in Call : Host(c)' = Host(c) /\ Remote(c)' = Remote(c)
  BY DEF Fixed, Host, Remote
<1>2. \A h \in Dom : \A i \in Index :
         used'[h][i] = IF h = d THEN VCHAN_PORT_UNUSED ELSE used[h][i]
  BY <1>0 DEF Shutdown, TypeOK
<1>3. \A c \in Call :
         /\ server'[c] = IF plan[c].source = d /\ server[c] # "none" THEN "gone" ELSE server[c]
         /\ client'[c] = IF plan[c].target = d /\ client[c] # "none" THEN "gone" ELSE client[c]
  BY <1>0 DEF Shutdown, Lost
<1>4. StagesFit'
  BY <1>3 DEF IInv, StagesFit, Fixed, Before
<1>5. PortsOwn'
  BY <1>1, <1>3 DEF IInv, PortsOwn, Told, OwnPorts
<1>6. EntriesOwn'
  BY <1>2, SMT DEF IInv, EntriesOwn, OwnPorts
<1>7. NoAgentInDom0'
  BY <1>3 DEF IInv, NoAgentInDom0, Fixed
<1>8. \A c \in Call : Live(c)' => Live(c) /\ Host(c) # d
  BY <1>3 DEF Live, HostEnd, Host, Fixed
<1>9. \A c \in Call : Live(c) => port[c] \in Index /\ Host(c) \in Dom
  BY HostType, PortType DEF IInv, Live, HostEnd
<1>10. PortsReserved'
  BY <1>1, <1>2, <1>8, <1>9, SMT DEF IInv, PortsReserved
<1> QED
  BY <1>4, <1>5, <1>6, <1>7, <1>10

\* Two daemons never give out the same port for connections between their
\* domains.
LEMMA Parity ==
  ASSUME NEW x \in Dom, NEW y \in Dom, x # y
  PROVE  OwnPorts(x, y) \cap OwnPorts(y, x) = {}
<1>1. x \in Nat \ {0} /\ y \in Nat \ {0}
  BY DomAssumption
<1>2. CASE x < y
  BY <1>1, <1>2, SMT DEF OwnPorts
<1>3. CASE y < x
  BY <1>1, <1>3, SMT DEF OwnPorts
<1> QED
  BY <1>1, <1>2, <1>3, SMT

\* A report of the agent of h about the end of call c, whose port it is, frees
\* the port of no other call.
LEMMA ReleaseKeeps ==
  ASSUME IInv, NEW c \in Call, NEW h \in Dom, NEW d \in Domain,
         {h, d} = {plan[c].source, plan[c].target},
         port[c] \in OwnPorts(Host(c), Remote(c)),
         release_vchan_port(h, port[c], d), Fixed, port' = port,
         \A e \in Call : Live(e)' => Live(e),
         h = Host(c) => Live(c) /\ ~Live(c)'
  PROVE  /\ EntriesOwn' /\ PortsReserved'
         /\ \A e \in Call : Live(e)' => notify'[Host(e)][port[e]] = notify[Host(e)][port[e]]
<1>0. TypeOK /\ port[c] \in Index /\ plan[c].kind \in Kind /\ WellFormed(plan[c])
      /\ Host(c) \in Dom /\ Remote(c) \in Domain /\ Host(c) # Remote(c)
  BY HostType DEF IInv, OwnPorts, TypeOK, Plan
<1>a. d # VCHAN_PORT_UNUSED
  BY DomAssumption, SMT DEF Domain, VCHAN_PORT_UNUSED
<1>1. CASE h = Host(c)
  <2>1. d = Remote(c)
    BY <1>0, <1>1 DEF Host, Remote, WellFormed, Kind
  <2>2. used[h][port[c]] = d
    BY <1>1, <2>1 DEF IInv, PortsReserved
  <2>3. \A g \in Dom : \A i \in Index :
           used'[g][i] = IF g = h /\ i = port[c] THEN VCHAN_PORT_UNUSED ELSE used[g][i]
    BY <1>0, <2>2, SMT DEF release_vchan_port, TypeOK
  <2>4. EntriesOwn'
    BY <2>3, SMT DEF IInv, EntriesOwn, OwnPorts
  <2>5. \A e \in Call : Live(e)' => e # c /\ ~(Host(e) = h /\ port[e] = port[c])
    BY <1>1 DEF IInv, PortsReserved
  <2>6. \A e \in Call : Live(e) => port[e] \in Index /\ Host(e) \in Dom
    BY HostType, PortType DEF IInv, Live, HostEnd
  <2>7. \A e \in Call : Host(e)' = Host(e) /\ Remote(e)' = Remote(e)
    BY DEF Fixed, Host, Remote
  <2>8. PortsReserved'
    BY <2>3, <2>5, <2>6, <2>7, SMT DEF IInv, PortsReserved
  <2>9. \A g \in Dom : \A i \in Index :
           g # h \/ i # port[c] => notify'[g][i] = notify[g][i]
    BY <1>0, <2>2, SMT DEF release_vchan_port, TypeOK
  <2>10. \A e \in Call : Live(e)' => notify'[Host(e)][port[e]] = notify[Host(e)][port[e]]
    BY <2>5, <2>6, <2>9
  <2> QED
    BY <2>4, <2>8, <2>10
<1>2. CASE h # Host(c)
  <2>1. h = Remote(c) /\ d = Host(c) /\ Remote(c) \in Dom
    BY <1>0, <1>2, DomAssumption DEF Host, Remote, WellFormed, Kind, Domain
  <2>2. port[c] \notin OwnPorts(h, d)
    BY <1>0, <2>1, Parity
  <2>3. used[h][port[c]] # d
    BY <1>0, <1>a, <2>2 DEF IInv, EntriesOwn
  <2>4. used' = used /\ notify' = notify
    BY <2>3 DEF release_vchan_port, daemonVars
  <2> QED
    BY <2>4, TablesKept
<1> QED
  BY <1>1, <1>2

\* Where the ends of the data vchans go: none is announced here, and what is
\* reported stays so.
LEMMA EndsMove ==
  ASSUME IInv, NEW c \in Call, Ends(c)
  PROVE  \A e \in Call :
            /\ server[e] = "none" <=> server'[e] = "none"
            /\ client[e] = "none" <=> client'[e] = "none"
            /\ server'[e] = "sent" => server[e] = "sent"
            /\ client'[e] = "sent" => client[e] = "sent"
            /\ server'[e] = "ended" => server[e] = "ended" \/ plan[e].source # 0
            /\ client'[e] = "ended" => client[e] = "ended" \/ plan[e].target # 0
            /\ server[e] = "gone" => server'[e] = "gone"
            /\ client[e] = "gone" => client'[e] = "gone"
            /\ Live(e)' => Live(e)
<1>0. TypeOK /\ plan[c] \in Plan /\ WellFormed(plan[c])
  BY DEF IInv, TypeOK
<1>1. plan' = plan
  BY DEF Ends, agent_opens_server, agent_opens_client, vchan_connects, server_times_out,
         client_times_out, server_closes, client_closes, server_terminated, client_terminated
<1>2. \A e \in Call :
         /\ server[e] = "none" <=> server'[e] = "none"
         /\ client[e] = "none" <=> client'[e] = "none"
         /\ server'[e] = "sent" => server[e] = "sent"
         /\ client'[e] = "sent" => client[e] = "sent"
         /\ server'[e] = "ended" => server[e] = "ended" \/ plan[e].source # 0
         /\ client'[e] = "ended" => client[e] = "ended" \/ plan[e].target # 0
         /\ server[e] = "gone" => server'[e] = "gone"
         /\ client[e] = "gone" => client'[e] = "gone"
  <2>1. CASE agent_opens_server(c) \/ agent_opens_client(c)
    BY <1>0, <2>1 DEF TypeOK, agent_opens_server, agent_opens_client
  <2>2. CASE \E e \in Call : vchan_connects(c, e)
    BY <1>0, <2>2, SMT DEF TypeOK, vchan_connects
  <2>3. CASE server_times_out(c) \/ server_closes(c)
    BY <1>0, <2>3 DEF TypeOK, server_times_out, server_closes, Over
  <2>4. CASE client_times_out(c) \/ client_closes(c)
    BY <1>0, <2>4 DEF TypeOK, client_times_out, client_closes, Over
  <2>5. CASE server_terminated(c) \/ client_terminated(c)
    BY <1>0, <2>5 DEF TypeOK, server_terminated, client_terminated
  <2> QED
    BY <2>1, <2>2, <2>3, <2>4, <2>5 DEF Ends
<1>3. \A e \in Call : Live(e)' => Live(e)
  <2> SUFFICES ASSUME NEW e \in Call, Live(e)' PROVE Live(e)
    OBVIOUS
  <2>1. server[e] \in End /\ client[e] \in End
    BY <1>0 DEF TypeOK
  <2>2. CASE plan[e].kind = "to_dom0"
    BY <1>1, <1>2, <2>1, <2>2 DEF Live, HostEnd, End
  <2>3. CASE plan[e].kind # "to_dom0"
    BY <1>1, <1>2, <2>1, <2>3 DEF Live, HostEnd, End
  <2> QED
    BY <2>2, <2>3
<1> QED
  BY <1>2, <1>3

\* The ends of the data vchans, and the daemons their agents report to
LEMMA EndsKeep ==
  ASSUME IInv, NEW c \in Call, Ends(c)
  PROVE  /\ StagesFit' /\ PortsOwn' /\ EntriesOwn' /\ NoAgentInDom0' /\ PortsReserved'
         /\ \A e \in Call : Live(e)' => notify'[Host(e)][port[e]] = notify[Host(e)][port[e]]
<1>0. TypeOK /\ plan[c] \in Plan /\ WellFormed(plan[c])
  BY DEF IInv, TypeOK
<1>1. Fixed /\ port' = port /\ pc' = pc
  BY DEF Ends, Fixed, agent_opens_server, agent_opens_client, vchan_connects, server_times_out,
         client_times_out, server_closes, client_closes, server_terminated, client_terminated
<1>2. \A e \in Call :
         /\ server[e] = "none" <=> server'[e] = "none"
         /\ client[e] = "none" <=> client'[e] = "none"
         /\ server'[e] = "sent" => server[e] = "sent"
         /\ client'[e] = "sent" => client[e] = "sent"
         /\ server'[e] = "ended" => server[e] = "ended" \/ plan[e].source # 0
         /\ client'[e] = "ended" => client[e] = "ended" \/ plan[e].target # 0
         /\ server[e] = "gone" => server'[e] = "gone"
         /\ client[e] = "gone" => client'[e] = "gone"
  BY EndsMove
<1>3. StagesFit'
  BY <1>1, <1>2 DEF IInv, StagesFit, Fixed
<1>4. PortsOwn'
  BY <1>1, <1>2 DEF IInv, PortsOwn, Fixed, Host, Remote, OwnPorts
<1>5. NoAgentInDom0'
  BY <1>1, <1>2 DEF IInv, NoAgentInDom0, Fixed
<1>6. \A e \in Call : Live(e)' => Live(e)
  BY EndsMove
<1>7. CASE used' = used /\ notify' = notify
  BY <1>1, <1>3, <1>4, <1>5, <1>6, <1>7, TablesKept
<1>8. CASE server_terminated(c)
  <2>1. /\ plan[c].source \in Dom /\ plan[c].target \in Domain
        /\ port[c] \in OwnPorts(Host(c), Remote(c))
    BY <1>0, <1>8 DEF server_terminated, IInv, NoAgentInDom0, PortsOwn, Plan, Domain
  <2>2. plan[c].source = Host(c) => Live(c) /\ ~Live(c)'
    BY <1>0, <1>1, <1>8 DEF server_terminated, Host, Live, HostEnd, Fixed, WellFormed, TypeOK
  <2>3. /\ EntriesOwn' /\ PortsReserved'
        /\ \A e \in Call : Live(e)' => notify'[Host(e)][port[e]] = notify[Host(e)][port[e]]
    BY <1>1, <1>6, <1>8, <2>1, <2>2, ReleaseKeeps DEF server_terminated
  <2> QED
    BY <1>3, <1>4, <1>5, <2>3
<1>9. CASE client_terminated(c)
  <2>1. /\ plan[c].target \in Dom /\ plan[c].source \in Domain
        /\ port[c] \in OwnPorts(Host(c), Remote(c))
    BY <1>0, <1>9 DEF client_terminated, IInv, NoAgentInDom0, PortsOwn, Plan, Domain
  <2>2. plan[c].target = Host(c) => Live(c) /\ ~Live(c)'
    BY <1>0, <1>1, <1>9 DEF client_terminated, Host, Live, HostEnd, Fixed, WellFormed, TypeOK
  <2>3. /\ EntriesOwn' /\ PortsReserved'
        /\ \A e \in Call : Live(e)' => notify'[Host(e)][port[e]] = notify[Host(e)][port[e]]
    BY <1>1, <1>6, <1>9, <2>1, <2>2, ReleaseKeeps DEF client_terminated
  <2> QED
    BY <1>3, <1>4, <1>5, <2>3
<1> QED
  BY <1>7, <1>8, <1>9 DEF Ends, agent_opens_server, agent_opens_client, vchan_connects,
     server_times_out, client_times_out, server_closes, client_closes, daemonVars

\* No call has a port, and no table an entry, before the first call begins.
LEMMA InitInv == Init => IInv
<1> SUFFICES ASSUME Init PROVE IInv
  OBVIOUS
<1>1. TypeOK /\ \A c \in Call : WellFormed(plan[c])
  BY InitType
<1>2. StagesFit /\ NoAgentInDom0
  BY DEF Init, StagesFit, NoAgentInDom0
<1>3. PortsOwn
  BY DEF Init, PortsOwn, Told
<1>4. EntriesOwn
  BY DEF Init, EntriesOwn
<1>5. PortsReserved
  BY DEF Init, PortsReserved, Live, HostEnd
<1> QED
  BY <1>1, <1>2, <1>3, <1>4, <1>5 DEF IInv

\* Every step preserves the invariant.
LEMMA NextInv == IInv /\ [Next]_vars => IInv'
<1> SUFFICES ASSUME IInv, [Next]_vars PROVE IInv'
  OBVIOUS
<1> DEFINE Rest == StagesFit /\ PortsOwn /\ EntriesOwn /\ NoAgentInDom0 /\ PortsReserved
<1>1. ASSUME NEW c \in Call, Process(c) PROVE TypeOK' /\ Fixed /\ Rest'
  <2>1. TypeOK'
    BY <1>1, ProcessType
  <2>2. Fixed
    BY <1>1 DEF Fixed, Process, begin, create_disposable, connect, start, reconnect,
       negotiate_connection_params, send_service_connect, wait_connection_end, prepare,
       data_done, kill
  <2>3. CASE kill(c)
    <3>1. port' = port /\ \A d \in Call : pc'[d] = pc[d] \/ pc'[d] = "done"
      BY <2>3 DEF kill, Goto, IInv, TypeOK
    <3>2. CASE Shutdown(plan[c].target)
      <4>1. plan[c].target \in Dom
        BY <2>3, HostType DEF kill, IInv, StagesFit, Host
      <4> QED
        BY <2>1, <2>2, <3>1, <3>2, <4>1, ShutdownKeeps
    <3>3. CASE UNCHANGED <<vm, daemonVars, dataVars>>
      <4>1. used' = used /\ server' = server /\ client' = client
        BY <3>3 DEF daemonVars, dataVars
      <4>2. StagesFit'
        BY <2>2, <3>1, <4>1 DEF IInv, StagesFit, Fixed, Before
      <4>3. PortsOwn'
        BY <2>2, <3>1, <4>1 DEF IInv, PortsOwn, Fixed, Told, Host, Remote, OwnPorts
      <4>4. NoAgentInDom0'
        BY <2>2, <4>1 DEF IInv, NoAgentInDom0, Fixed
      <4>5. EntriesOwn' /\ PortsReserved'
        BY <2>2, <3>1, <4>1, TablesKept DEF Live, HostEnd, Fixed
      <4> QED
        BY <2>1, <2>2, <4>2, <4>3, <4>4, <4>5
    <3> QED
      BY <2>3, <3>2, <3>3 DEF kill
  <2>4. CASE ~kill(c)
    BY <1>1, <2>1, <2>2, <2>4, ProcessKeeps, AllocationKeeps DEF Process
  <2> QED
    BY <2>3, <2>4
<1>2. ASSUME NEW c \in Call, Ends(c) PROVE TypeOK' /\ Fixed /\ Rest'
  <2>1. Fixed
    BY <1>2 DEF Fixed, Ends, agent_opens_server, agent_opens_client, vchan_connects,
       server_times_out, client_times_out, server_closes, client_closes, server_terminated,
       client_terminated
  <2> QED
    BY <1>2, <2>1, EndsType, EndsKeep
<1>3. ASSUME NEW d \in MayDie, domain_dies(d) PROVE TypeOK' /\ Fixed /\ Rest'
  <2>1. d \in Dom /\ Fixed /\ Shutdown(d) /\ port' = port /\ pc' = pc /\ lost' = lost
    BY <1>3, DomAssumption DEF domain_dies, Fixed
  <2>2. TypeOK'
    BY <2>1, ShutdownType DEF IInv, TypeOK, Fixed
  <2> QED
    BY <2>1, <2>2, ShutdownKeeps
<1>4. ASSUME UNCHANGED vars PROVE TypeOK' /\ Fixed /\ Rest'
  <2>1. Fixed /\ used' = used /\ port' = port /\ server' = server /\ client' = client /\ pc' = pc
    BY <1>4 DEF vars, Fixed, daemonVars, dataVars
  <2>2. TypeOK'
    BY <1>4 DEF vars, IInv, TypeOK, daemonVars, dataVars
  <2>3. StagesFit' /\ NoAgentInDom0'
    BY <2>1 DEF IInv, StagesFit, NoAgentInDom0, Fixed
  <2>4. PortsOwn'
    BY <2>1 DEF IInv, PortsOwn, Fixed, Host, Remote, OwnPorts
  <2>5. EntriesOwn' /\ PortsReserved'
    BY <2>1, TablesKept DEF Live, HostEnd, Fixed
  <2> QED
    BY <2>1, <2>2, <2>3, <2>4, <2>5
<1>5. TypeOK' /\ Fixed /\ Rest'
  BY <1>1, <1>2, <1>3, <1>4 DEF Next
<1> QED
  BY <1>5 DEF IInv, Fixed

-----------------------------------------------------------------------------
(* Who waits for whom *)

\* The end of a call's vchan that is not at the domain with the port's daemon
OtherEnd(c) == IF plan[c].kind = "to_dom0" THEN client[c] ELSE server[c]

OnceCreated ==
    \A c, d \in Call :
        plan[c].disposable /\ plan[d].disposable /\ plan[c].target = plan[d].target => c = d

\* A disposable does not exist before the call that creates it does so.
NotYetCreated ==
    \A c \in Call :
        /\ pc[c] = "create" => plan[c].disposable
        /\ plan[c].disposable /\ pc[c] \in {"idle", "create"} => vm[plan[c].target] = "absent"

\* The daemon of a disposable will tell the process that waits for the call.
Notified ==
    \A c \in Call :
        plan[c].disposable /\ Live(c) /\ pc[c] \in {"connect_source", "wait"}
            => notify[Host(c)][port[c]] = c

\* The agent at the port's daemon is the first to hear of a call.
HostFirst ==
    \A c \in Call :
        /\ OtherEnd(c) # "none" \/ pc[c] \in Told => HostEnd(c) # "none"
        /\ pc[c] \in {"connect_source", "prepare"} => OtherEnd(c) = "none"

LiveRuns == \A c \in Call : Live(c) => vm[Host(c)] = "running"

Fresh == \A c \in Call : pc[c] \in Before => c \notin expired /\ joined[c] = None

\* An end that is still to be connected, while the other was connected or is
\* over, is one that came too late: to a port that was given up, or to a domain
\* that is gone for good.
LeftWaiting ==
    \A c \in Call :
        OtherEnd(c) \in {"none", "sent", "waiting"} /\ HostEnd(c) \in {"open", "ended", "gone"}
            => GivenUp(c) \/ vm[Host(c)] = "gone"

WInv ==
    /\ OnceCreated
    /\ NotYetCreated
    /\ Notified
    /\ KilledAfterUse
    /\ HostFirst
    /\ LiveRuns
    /\ Fresh
    /\ LeftWaiting
    /\ ConnectsOwnCall

\* What a step may do to the domains: none that runs stops and none that is
\* gone returns.
VmsKept ==
    \A d \in Dom : /\ vm[d] = "running" => vm'[d] = "running"
                   /\ vm[d] = "gone" => vm'[d] = "gone"

\* A port that was given up stays so: no call is given another port.
LEMMA GivenUpKept ==
  ASSUME IInv, WInv, Fixed, expired \subseteq expired',
         \A e \in Call : pc[e] \notin Before => port'[e] = port[e],
         NEW c \in Call, pc[c] \notin Before, GivenUp(c)
  PROVE  GivenUp(c)'
<1>1. PICK e \in expired : SameVchan(e, c)
  BY DEF GivenUp
<1>2. e \in Call /\ pc[e] \notin Before
  BY <1>1 DEF IInv, TypeOK, WInv, Fresh
<1>3. e \in expired' /\ SameVchan(e, c)'
  BY <1>1, <1>2 DEF SameVchan, Fixed
<1> QED
  BY <1>3 DEF GivenUp

\* Steps that move no end of a vchan but a second one that has just come
LEMMA MeetingsKept ==
  ASSUME IInv, WInv, Fixed, port' = port, joined' = joined, expired' = expired, VmsKept,
         \A e \in Call : HostEnd(e)' = HostEnd(e),
         \A e \in Call : OtherEnd(e)' = OtherEnd(e) \/ OtherEnd(e) = "none"
  PROVE  LiveRuns' /\ LeftWaiting' /\ ConnectsOwnCall'
<1>1. \A e \in Call : Host(e)' = Host(e) /\ Host(e) \in Dom
  BY HostType DEF Fixed, Host, IInv
<1>2. LiveRuns'
  BY <1>1 DEF WInv, LiveRuns, Live, VmsKept
<1>3. \A e \in Call : GivenUp(e) => GivenUp(e)'
  BY DEF GivenUp, SameVchan, Fixed
<1>4. LeftWaiting'
  BY <1>1, <1>3 DEF WInv, LeftWaiting, VmsKept
<1>5. ConnectsOwnCall'
  BY <1>3 DEF WInv, ConnectsOwnCall
<1> QED
  BY <1>2, <1>4, <1>5

\* The domains, as the processes create and start them
LEMMA ProcessVms ==
  ASSUME IInv, WInv, NEW c \in Call,
         \/ begin(c) \/ create_disposable(c) \/ connect(c) \/ start(c) \/ reconnect(c)
         \/ send_service_connect(c) \/ wait_connection_end(c) \/ prepare(c) \/ data_done(c)
  PROVE  VmsKept /\ NotYetCreated'
<1>0. TypeOK /\ plan[c] \in Plan /\ plan[c].target \in Dom \cup {0} /\ plan' = plan
  BY DEF IInv, TypeOK, Plan, Domain, begin, create_disposable, connect, start, reconnect,
     send_service_connect, wait_connection_end, prepare, data_done
<1>1. \A d \in Call : d # c => pc'[d] = pc[d]
  BY <1>0 DEF TypeOK, begin, create_disposable, connect, start, reconnect,
     send_service_connect, wait_connection_end, prepare, data_done, Goto
<1>2. CASE create_disposable(c)
  <2>1. plan[c].disposable /\ vm[plan[c].target] = "absent" /\ pc'[c] \in {"start", "done"}
    BY <1>0, <1>2 DEF create_disposable, WInv, NotYetCreated, Goto, TypeOK
  <2>2. \A d \in Dom : d # plan[c].target => vm'[d] = vm[d]
    BY <1>0, <1>2 DEF create_disposable, TypeOK
  <2>3. VmsKept
    BY <2>1, <2>2 DEF VmsKept
  <2>4. \A d \in Call : d # c /\ plan[d].disposable => vm'[plan[d].target] = vm[plan[d].target]
    <3> SUFFICES ASSUME NEW d \in Call, d # c, plan[d].disposable
                 PROVE  vm'[plan[d].target] = vm[plan[d].target]
      OBVIOUS
    <3>1. plan[d].target # plan[c].target
      BY <2>1 DEF WInv, OnceCreated
    <3>2. plan[d].target \in Dom
      BY HostType DEF IInv, WellFormed, Host
    <3> QED
      BY <2>2, <3>1, <3>2
  <2>5. NotYetCreated'
    BY <1>0, <1>1, <2>1, <2>4 DEF WInv, NotYetCreated
  <2> QED
    BY <2>3, <2>5
<1>3. CASE start(c)
  <2>1. pc[c] = "start" /\ pc'[c] \in {"reconnect", "done"}
    BY <1>0, <1>3 DEF start, Goto, TypeOK
  <2>2. \A d \in Dom : d # plan[c].target => vm'[d] = vm[d]
    BY <1>0, <1>3 DEF start, TypeOK
  <2>3. plan[c].target \in Dom =>
           \/ vm'[plan[c].target] = vm[plan[c].target]
           \/ vm[plan[c].target] = "halted"
           \/ vm[plan[c].target] # "running" /\ plan[c].disposable /\ vm'[plan[c].target] = "gone"
    BY <1>0, <1>3 DEF start, TypeOK
  <2>4. VmsKept
    BY <2>2, <2>3 DEF VmsKept
  <2>5. \A d \in Call : d # c /\ plan[d].disposable /\ vm[plan[d].target] = "absent"
           => vm'[plan[d].target] = "absent"
    <3> SUFFICES ASSUME NEW d \in Call, d # c, plan[d].disposable, vm[plan[d].target] = "absent"
                 PROVE  vm'[plan[d].target] = "absent"
      OBVIOUS
    <3>1. plan[d].target # plan[c].target \/ ~plan[c].disposable
      BY DEF WInv, OnceCreated
    <3>2. plan[d].target \in Dom
      BY HostType DEF IInv, WellFormed, Host
    <3> QED
      BY <2>2, <2>3, <3>1, <3>2
  <2>6. NotYetCreated'
    BY <1>0, <1>1, <2>1, <2>5 DEF WInv, NotYetCreated
  <2> QED
    BY <2>4, <2>6
<1>4. CASE ~create_disposable(c) /\ ~start(c)
  <2>1. vm' = vm
    BY <1>4 DEF begin, connect, reconnect, send_service_connect, wait_connection_end, prepare,
       data_done
  <2>2. /\ pc'[c] = "create" => pc[c] = "idle" /\ plan[c].disposable
        /\ pc'[c] # "idle"
    BY <1>0, <1>4 DEF begin, connect, reconnect, send_service_connect, wait_connection_end, prepare,
       data_done, Goto, TypeOK, AtEnd
  <2>3. NotYetCreated'
    BY <1>0, <1>1, <2>1, <2>2 DEF WInv, NotYetCreated
  <2> QED
    BY <2>1, <2>3 DEF VmsKept
<1> QED
  BY <1>2, <1>3, <1>4

\* Steps of the process that neither allocate a port nor kill a domain: a
\* disposable is killed after the daemon has dropped the connection, or when
\* there was no call.
LEMMA ProcessWaits ==
  ASSUME IInv, WInv, NEW c \in Call,
         \/ begin(c) \/ create_disposable(c) \/ connect(c) \/ start(c) \/ reconnect(c)
         \/ send_service_connect(c) \/ wait_connection_end(c) \/ prepare(c) \/ data_done(c)
  PROVE  WInv'
<1>0. TypeOK /\ WellFormed(plan[c]) /\ plan[c] \in Plan
  BY DEF IInv, TypeOK
<1>1. Fixed /\ used' = used /\ port' = port /\ joined' = joined /\ expired' = expired
  BY DEF Fixed, begin, create_disposable, connect, start, reconnect, send_service_connect,
         wait_connection_end, prepare, data_done, daemonVars, dataVars
<1>2. \A d \in Call : d # c => pc'[d] = pc[d] /\ server'[d] = server[d] /\ client'[d] = client[d]
  BY <1>0 DEF TypeOK, begin, create_disposable, connect, start, reconnect, send_service_connect,
         wait_connection_end, prepare, data_done, dataVars, Goto
<1>3. VmsKept /\ NotYetCreated'
  BY ProcessVms
<1>4. HostEnd(c)' = HostEnd(c) /\ (OtherEnd(c)' = OtherEnd(c) \/ pc[c] \in {"connect_source", "prepare"})
  <2>1. CASE send_service_connect(c)
    BY <1>0, <1>1, <2>1 DEF send_service_connect, HostEnd, OtherEnd, Fixed, IInv, StagesFit
  <2>2. CASE prepare(c)
    BY <1>0, <1>1, <2>2 DEF prepare, HostEnd, OtherEnd, Fixed
  <2>3. CASE ~send_service_connect(c) /\ ~prepare(c)
    BY <1>1, <2>3 DEF HostEnd, OtherEnd, Fixed, begin, create_disposable, connect, start, reconnect,
       wait_connection_end, data_done, dataVars
  <2> QED
    BY <2>1, <2>2, <2>3
<1>5. \A d \in Call : /\ HostEnd(d)' = HostEnd(d)
                      /\ OtherEnd(d)' = OtherEnd(d) \/ OtherEnd(d) = "none"
  BY <1>1, <1>2, <1>4 DEF WInv, HostFirst, HostEnd, OtherEnd, Fixed
<1>6. LiveRuns' /\ LeftWaiting' /\ ConnectsOwnCall'
  BY <1>1, <1>3, <1>5, MeetingsKept
<1>7. /\ pc'[c] \in Before => pc[c] \in Before
      /\ pc'[c] \in Told => pc[c] \in Told
      /\ pc'[c] \notin {"connect_source", "prepare"}
  BY <1>0 DEF TypeOK, begin, create_disposable, connect, start, reconnect, send_service_connect,
         wait_connection_end, prepare, data_done, Goto, Before, Told, AtEnd
<1>8. Fresh'
  BY <1>1, <1>2, <1>7 DEF WInv, Fresh
<1>9. HostFirst'
  <2>1. OtherEnd(c)' # "none" => HostEnd(c)' # "none"
    BY <1>4 DEF WInv, HostFirst, Told
  <2>2. \A d \in Call : d # c => OtherEnd(d)' = OtherEnd(d)
    BY <1>1, <1>2 DEF OtherEnd, Fixed
  <2> QED
    BY <1>2, <1>5, <1>7, <2>1, <2>2 DEF WInv, HostFirst
<1>10. \A d \in Call : (d # c \/ plan[c].disposable) =>
          \A h \in Dom : \A i \in Index : notify[h][i] = d => notify'[h][i] = d
  <2>1. CASE notify' = notify
    BY <2>1
  <2>2. CASE notify' = Disconnected(c) /\ ~plan[c].disposable
    BY <1>0, <2>2 DEF Disconnected, TypeOK
  <2>3. plan[c].disposable => notify' = notify
    BY <1>0 DEF begin, create_disposable, connect, start, reconnect, send_service_connect,
         wait_connection_end, prepare, data_done, daemonVars, WaitsForEnd, IInv, StagesFit, WellFormed
  <2>4. notify' = notify \/ notify' = Disconnected(c)
    BY DEF begin, create_disposable, connect, start, reconnect, send_service_connect,
         wait_connection_end, prepare, data_done, daemonVars
  <2> QED
    BY <2>1, <2>2, <2>3, <2>4
<1>11. \A d \in Call : Live(d)' <=> Live(d)
  BY <1>5 DEF Live
<1>12. \A d \in Call : /\ Host(d)' = Host(d) /\ Host(d) \in Dom
                       /\ Live(d) => port[d] \in Index
  BY <1>1, HostType, PortType DEF IInv, Live, HostEnd, Host, Fixed
<1>13. plan[c].disposable /\ pc'[c] \in {"connect_source", "wait"} => pc[c] = "connect_source"
  BY <1>0 DEF TypeOK, begin, create_disposable, connect, start, reconnect, send_service_connect,
         wait_connection_end, prepare, data_done, Goto, AtEnd
<1>14. Notified'
  <2> SUFFICES ASSUME NEW d \in Call, plan[d].disposable, Live(d), pc'[d] \in {"connect_source", "wait"}
               PROVE  notify'[Host(d)][port[d]] = d
    BY <1>1, <1>11, <1>12 DEF Notified, Fixed
  <2>1. notify[Host(d)][port[d]] = d
    BY <1>2, <1>13 DEF WInv, Notified
  <2> QED
    BY <1>10, <1>12, <2>1
<1>15. plan[c].disposable /\ pc'[c] = "kill" =>
          \/ pc[c] \in Before
          \/ pc[c] = "wait" /\ \A i \in Index : notify[Host(c)][i] # c
  BY <1>0 DEF TypeOK, IInv, StagesFit, WellFormed, begin, create_disposable, connect, start, reconnect,
         send_service_connect, wait_connection_end, prepare, data_done, Goto, AtEnd, Before, WaitsForEnd
<1>16. KilledAfterUse'
  <2>1. plan[c].disposable /\ pc'[c] = "kill" => ~Live(c)
    BY <1>12, <1>15 DEF WInv, Notified, IInv, StagesFit, Live, HostEnd
  <2> QED
    BY <1>1, <1>2, <1>11, <2>1 DEF WInv, KilledAfterUse, Fixed
<1>17. OnceCreated'
  BY <1>1 DEF WInv, OnceCreated, Fixed
<1> QED
  BY <1>3, <1>6, <1>8, <1>9, <1>14, <1>16, <1>17 DEF WInv

\* negotiate_connection_params(): the port goes to a domain that runs, and
\* the entry of the process with it.
LEMMA AllocationWaits ==
  ASSUME IInv, WInv, NEW c \in Call, negotiate_connection_params(c)
  PROVE  WInv'
<1>0. TypeOK /\ WellFormed(plan[c]) /\ plan[c] \in Plan /\ Host(c) \in Dom /\ Remote(c) \in Domain
  BY HostType DEF IInv, TypeOK
<1>1. /\ Fixed /\ pc[c] = "negotiate" /\ server[c] = "none" /\ client[c] = "none"
      /\ vm' = vm /\ joined' = joined /\ expired' = expired
      /\ c \notin expired /\ joined[c] = None
  BY DEF Fixed, negotiate_connection_params, IInv, StagesFit, Before, WInv, Fresh
<1>2. \A d \in Call : Host(d)' = Host(d) /\ Host(d) \in Dom
  BY <1>1, HostType DEF Fixed, Host, IInv
<1> DEFINE Effect ==
      /\ \A d \in Call : d # c => pc'[d] = pc[d] /\ port'[d] = port[d] /\ server'[d] = server[d]
                                  /\ client'[d] = client[d]
      /\ pc'[c] \in {"connect_source", "prepare", "kill", "done"}
      /\ OtherEnd(c)' = "none" /\ HostEnd(c)' \in {"none", "sent"}
      /\ pc'[c] \in Told \/ HostEnd(c)' # "none" =>
            HostEnd(c)' = "sent" /\ vm[Host(c)] = "running" /\ pc'[c] # "kill"
<1>3. Effect
  <2>1. CASE UNCHANGED <<daemonVars, port, server, client>> /\ Goto(c, AtEnd(c))
    BY <1>0, <1>1, <2>1 DEF TypeOK, Goto, AtEnd, OtherEnd, HostEnd, Fixed, Told
  <2>2. ASSUME NEW i \in Index, Running(Host(c)), port' = [port EXCEPT ![c] = i],
             IF plan[c].kind = "to_dom0"
             THEN server' = [server EXCEPT ![c] = "sent"] /\ UNCHANGED client
             ELSE client' = [client EXCEPT ![c] = "sent"] /\ UNCHANGED server,
             Goto(c, IF plan[c].kind = "vm" THEN "connect_source" ELSE "prepare")
        PROVE Effect
    <3>1. vm[Host(c)] = "running"
      BY <1>0, <2>2, DomAssumption DEF Running
    <3>2. \A d \in Call : d # c => pc'[d] = pc[d] /\ port'[d] = port[d] /\ server'[d] = server[d]
                                   /\ client'[d] = client[d]
      BY <1>0, <2>2 DEF TypeOK, Goto
    <3>3. pc'[c] \in {"connect_source", "prepare"}
      BY <1>0, <2>2 DEF TypeOK, Goto
    <3>4. OtherEnd(c)' = "none" /\ HostEnd(c)' = "sent"
      BY <1>0, <1>1, <2>2 DEF TypeOK, OtherEnd, HostEnd, Fixed
    <3> QED
      BY <3>1, <3>2, <3>3, <3>4
  <2> QED
    BY <2>1, <2>2 DEF negotiate_connection_params
<1>4. \A d \in Call : d # c => /\ HostEnd(d)' = HostEnd(d) /\ OtherEnd(d)' = OtherEnd(d)
                               /\ Live(d)' = Live(d)
  BY <1>1, <1>3 DEF HostEnd, OtherEnd, Live, Fixed
<1>5. NotYetCreated' /\ OnceCreated'
  BY <1>1, <1>3 DEF WInv, NotYetCreated, OnceCreated, Fixed
<1>6. HostFirst'
  BY <1>3, <1>4 DEF WInv, HostFirst
<1>7. LiveRuns'
  BY <1>1, <1>2, <1>3, <1>4 DEF WInv, LiveRuns, Live
<1>8. Fresh'
  BY <1>1, <1>3 DEF WInv, Fresh, Before
<1>9. KilledAfterUse'
  BY <1>1, <1>3, <1>4 DEF WInv, KilledAfterUse, Live, Fixed
<1>10. \A d \in Call : pc[d] \notin Before => d # c /\ port'[d] = port[d]
  BY <1>1, <1>3 DEF Before
<1>11. \A d \in Call : pc[d] \notin Before /\ GivenUp(d) => GivenUp(d)'
  BY <1>1, <1>10, GivenUpKept
<1>12. LeftWaiting'
  <2>1. \A d \in Call : HostEnd(d) # "none" => pc[d] \notin Before
    BY DEF IInv, StagesFit, HostEnd
  <2> SUFFICES ASSUME NEW d \in Call, OtherEnd(d)' \in {"none", "sent", "waiting"},
                      HostEnd(d)' \in {"open", "ended", "gone"}
               PROVE  GivenUp(d)' \/ vm[Host(d)] = "gone"
    BY <1>1, <1>2 DEF LeftWaiting
  <2>2. d # c
    BY <1>3
  <2> QED
    BY <1>4, <1>11, <2>1, <2>2 DEF WInv, LeftWaiting
<1>13. ConnectsOwnCall'
  BY <1>1, <1>11 DEF WInv, ConnectsOwnCall, Fresh
<1>14. Notified'
  <2>1. CASE UNCHANGED <<daemonVars, port, server, client>> /\ Goto(c, AtEnd(c))
    <3>1. pc'[c] \notin {"connect_source", "wait"}
      BY <1>0, <2>1 DEF Goto, AtEnd, TypeOK
    <3> QED
      BY <1>1, <1>2, <1>3, <1>4, <2>1, <3>1 DEF WInv, Notified, daemonVars, Fixed
  <2>2. ASSUME NEW i \in Index, allocate_vchan_port(c, i), port' = [port EXCEPT ![c] = i]
        PROVE  Notified'
    <3>1. used[Host(c)][i] = VCHAN_PORT_UNUSED
      BY <2>2 DEF allocate_vchan_port, FreePorts
    <3>2. \A h \in Dom : \A j \in Index :
             notify'[h][j] = IF h = Host(c) /\ j = i THEN c ELSE notify[h][j]
      BY <1>0, <2>2 DEF allocate_vchan_port, TypeOK
    <3>3. port'[c] = i
      BY <1>0, <2>2 DEF TypeOK
    <3> SUFFICES ASSUME NEW d \in Call, plan[d].disposable, Live(d)', pc'[d] \in {"connect_source", "wait"}
                 PROVE  notify'[Host(d)][port'[d]] = d
      BY <1>1, <1>2 DEF Notified, Fixed
    <3>4. CASE d = c
      BY <1>2, <3>2, <3>3, <3>4
    <3>5. CASE d # c
      <4>1. Live(d) /\ port[d] \in Index /\ port'[d] = port[d] /\ notify[Host(d)][port[d]] = d
        BY <1>3, <1>4, <3>5, PortType DEF Live, HostEnd, WInv, Notified
      <4>2. used[Host(d)][port[d]] # VCHAN_PORT_UNUSED
        <5>1. Remote(d) \in Domain
          BY HostType DEF IInv
        <5>2. used[Host(d)][port[d]] = Remote(d)
          BY <4>1 DEF IInv, PortsReserved
        <5> QED
          BY <5>1, <5>2, DomAssumption, SMT DEF Domain, VCHAN_PORT_UNUSED
      <4>3. Host(d) # Host(c) \/ port[d] # i
        BY <3>1, <4>2
      <4> QED
        BY <1>2, <3>2, <4>1, <4>3, SMT
    <3> QED
      BY <3>4, <3>5
  <2> QED
    BY <2>1, <2>2 DEF negotiate_connection_params
<1> QED
  BY <1>5, <1>6, <1>7, <1>8, <1>9, <1>12, <1>13, <1>14 DEF WInv

\* A domain that goes away takes the calls in its table with it, for good.
LEMMA ShutdownWaits ==
  ASSUME IInv, WInv, NEW d \in Dom, vm[d] = "running", Shutdown(d), Fixed, port' = port,
         \A c \in Call : pc'[c] = pc[c] \/ pc'[c] = "done"
  PROVE  WInv'
<1>0. TypeOK /\ joined' = joined /\ expired' = expired
  BY DEF IInv, Shutdown
<1>1. \A c \in Call : Host(c)' = Host(c) /\ Host(c) \in Dom
  BY HostType DEF Fixed, Host, IInv
<1>2. \A h \in Dom : /\ vm'[h] = IF h = d THEN "gone" ELSE vm[h]
                     /\ h # d => notify'[h] = notify[h]
  BY <1>0 DEF Shutdown, TypeOK
<1>3. \A c \in Call :
         /\ server'[c] = IF plan[c].source = d /\ server[c] # "none" THEN "gone" ELSE server[c]
         /\ client'[c] = IF plan[c].target = d /\ client[c] # "none" THEN "gone" ELSE client[c]
  BY <1>0 DEF Shutdown, Lost
<1>4. \A c \in Call :
         /\ Host(c) = d => HostEnd(c)' \in {"none", "gone"}
         /\ Host(c) # d => HostEnd(c)' = HostEnd(c)
         /\ HostEnd(c)' = "none" <=> HostEnd(c) = "none"
         /\ OtherEnd(c)' = "none" <=> OtherEnd(c) = "none"
         /\ OtherEnd(c)' \in {"gone", OtherEnd(c)}
  BY <1>3 DEF Host, HostEnd, OtherEnd, Fixed
<1>5. \A c \in Call : Live(c)' => Live(c) /\ Host(c) # d
  BY <1>4 DEF Live
<1>6. NotYetCreated' /\ OnceCreated'
  <2>1. \A c \in Call : plan[c].disposable => plan[c].target \in Dom
    BY <1>1 DEF IInv, WellFormed, Host
  <2>2. \A c \in Call : plan[c].disposable /\ vm[plan[c].target] = "absent"
                          => vm'[plan[c].target] = "absent"
    BY <1>2, <2>1
  <2> QED
    BY <2>2 DEF WInv, NotYetCreated, OnceCreated, Fixed
<1>7. Notified'
  <2> SUFFICES ASSUME NEW c \in Call, plan[c].disposable, Live(c)', pc'[c] \in {"connect_source", "wait"}
               PROVE  notify'[Host(c)][port[c]] = c
    BY <1>1 DEF Notified, Fixed
  <2>1. Live(c) /\ Host(c) # d /\ pc[c] \in {"connect_source", "wait"}
    BY <1>5
  <2> QED
    BY <1>1, <1>2, <2>1 DEF WInv, Notified
<1>8. KilledAfterUse'
  BY <1>5 DEF WInv, KilledAfterUse, Fixed
<1>9. HostFirst'
  BY <1>4 DEF WInv, HostFirst, Told
<1>10. LiveRuns'
  BY <1>1, <1>2, <1>5 DEF WInv, LiveRuns
<1>11. Fresh'
  BY <1>0 DEF WInv, Fresh, Before
<1>12. \A c \in Call : GivenUp(c) => GivenUp(c)'
  BY <1>0 DEF GivenUp, SameVchan, Fixed
<1>13. LeftWaiting'
  BY <1>1, <1>2, <1>4, <1>12 DEF WInv, LeftWaiting
<1>14. ConnectsOwnCall'
  BY <1>0, <1>12 DEF WInv, ConnectsOwnCall
<1> QED
  BY <1>6, <1>7, <1>8, <1>9, <1>10, <1>11, <1>13, <1>14 DEF WInv

\* A step that only ends processes changes nothing for the others.
LEMMA StillWaits ==
  ASSUME WInv, Fixed, port' = port, UNCHANGED <<vm, daemonVars, dataVars>>,
         \A c \in Call : pc'[c] = pc[c] \/ pc'[c] = "done"
  PROVE  WInv'
<1>1. /\ vm' = vm /\ notify' = notify /\ server' = server /\ client' = client
      /\ joined' = joined /\ expired' = expired
  BY DEF daemonVars, dataVars
<1>2. \A c \in Call : /\ Host(c)' = Host(c) /\ HostEnd(c)' = HostEnd(c)
                      /\ OtherEnd(c)' = OtherEnd(c) /\ GivenUp(c)' = GivenUp(c)
  BY <1>1 DEF Host, HostEnd, OtherEnd, GivenUp, SameVchan, Fixed
<1>3. NotYetCreated' /\ OnceCreated'
  BY <1>1 DEF WInv, NotYetCreated, OnceCreated, Fixed
<1>4. Notified' /\ KilledAfterUse' /\ LiveRuns'
  BY <1>1, <1>2 DEF WInv, Notified, KilledAfterUse, LiveRuns, Live, Fixed
<1>5. HostFirst' /\ LeftWaiting'
  BY <1>1, <1>2 DEF WInv, HostFirst, LeftWaiting, Told
<1>6. Fresh' /\ ConnectsOwnCall'
  BY <1>1, <1>2 DEF WInv, Fresh, ConnectsOwnCall, Before
<1> QED
  BY <1>3, <1>4, <1>5, <1>6 DEF WInv

\* Two calls whose ends meet: the one whose host end is no longer there had
\* been given up, as its domain still runs.
LEMMA Meeting ==
  ASSUME IInv, WInv, NEW c \in Call, NEW d \in Call, c # d,
         server[c] = "waiting", client[d] = "waiting", SameVchan(c, d)
  PROVE  GivenUp(c) /\ GivenUp(d)
<1>1. plan[c].kind = plan[d].kind /\ Host(c) = Host(d) /\ port[c] = port[d]
  <2>1. /\ WellFormed(plan[c]) /\ plan[c].kind \in Kind
        /\ WellFormed(plan[d]) /\ plan[d].kind \in Kind
    BY DEF IInv, TypeOK, Plan
  <2> QED
    BY <2>1 DEF SameVchan, WellFormed, Kind, Host
<1>2. GivenUp(c) <=> GivenUp(d)
  BY DEF GivenUp, SameVchan
<1>3. ~(Live(c) /\ Live(d))
  BY <1>1 DEF IInv, PortsReserved
<1>4. \A e \in Call : HostEnd(e) \in End
  BY DEF IInv, TypeOK, HostEnd
<1>5. ASSUME NEW e \in {c, d}, OtherEnd(e) = "waiting", ~Live(e), vm[Host(e)] = "running"
      PROVE  GivenUp(e)
  <2>1. HostEnd(e) = "gone"
    BY <1>4, <1>5 DEF WInv, HostFirst, Live, End
  <2> QED
    BY <1>5, <2>1 DEF WInv, LeftWaiting
<1>6. CASE plan[c].kind = "to_dom0"
  <2>1. Live(c) /\ OtherEnd(d) = "waiting"
    BY <1>1, <1>6 DEF Live, HostEnd, OtherEnd
  <2>2. vm[Host(d)] = "running"
    BY <1>1, <2>1 DEF WInv, LiveRuns
  <2> QED
    BY <1>2, <1>3, <1>5, <2>1, <2>2
<1>7. CASE plan[c].kind # "to_dom0"
  <2>1. Live(d) /\ OtherEnd(c) = "waiting"
    BY <1>1, <1>7 DEF Live, HostEnd, OtherEnd
  <2>2. vm[Host(c)] = "running"
    BY <1>1, <2>1 DEF WInv, LiveRuns
  <2> QED
    BY <1>2, <1>3, <1>5, <2>1, <2>2
<1> QED
  BY <1>6, <1>7

\* The ends of the data vchans, and the daemons their agents report to
LEMMA EndsWait ==
  ASSUME IInv, WInv, NEW c \in Call, Ends(c)
  PROVE  WInv'
<1>0. TypeOK /\ plan[c] \in Plan /\ WellFormed(plan[c])
  BY DEF IInv, TypeOK
<1>1. Fixed /\ port' = port /\ pc' = pc /\ vm' = vm
  BY DEF Ends, Fixed, agent_opens_server, agent_opens_client, vchan_connects, server_times_out,
         client_times_out, server_closes, client_closes, server_terminated, client_terminated
<1>2. \A e \in Call : Host(e)' = Host(e) /\ Host(e) \in Dom
  BY <1>1, HostType DEF Fixed, Host, IInv
<1>3. \A e \in Call : /\ server[e] = "none" <=> server'[e] = "none"
                      /\ client[e] = "none" <=> client'[e] = "none"
                      /\ Live(e)' => Live(e)
  BY EndsMove
<1>4. NotYetCreated' /\ OnceCreated'
  BY <1>1 DEF WInv, NotYetCreated, OnceCreated, Fixed
<1>5. KilledAfterUse'
  BY <1>1, <1>3 DEF WInv, KilledAfterUse, Fixed
<1>6. HostFirst'
  BY <1>1, <1>3 DEF WInv, HostFirst, HostEnd, OtherEnd, Fixed
<1>7. LiveRuns'
  BY <1>1, <1>2, <1>3 DEF WInv, LiveRuns
<1>8. CASE \E d \in Call : vchan_connects(c, d)
  <2>1. PICK d \in Call : vchan_connects(c, d)
    BY <1>8
  <2>2. /\ expired' = expired /\ notify' = notify
        /\ \A e \in Call : /\ server'[e] = IF e = c THEN "open" ELSE server[e]
                           /\ client'[e] = IF e = d THEN "open" ELSE client[e]
                           /\ joined'[e] = IF e = c THEN d ELSE joined[e]
    BY <1>0, <2>1 DEF vchan_connects, TypeOK, daemonVars
  <2>3. c # d => GivenUp(c) /\ GivenUp(d)
    BY <2>1, Meeting DEF vchan_connects
  <2>4. \A e \in Call : GivenUp(e) => GivenUp(e)'
    BY <1>1, <2>2 DEF GivenUp, SameVchan, Fixed
  <2>5. Fresh'
    BY <1>1, <2>1, <2>2 DEF WInv, Fresh, IInv, StagesFit, vchan_connects
  <2>6. Notified'
    BY <1>1, <1>2, <1>3, <2>2, ZenonT(30) DEF WInv, Notified, Fixed
  <2>7. ConnectsOwnCall'
    BY <2>2, <2>3, <2>4 DEF WInv, ConnectsOwnCall
  <2>8. LeftWaiting'
    <3> SUFFICES ASSUME NEW e \in Call, OtherEnd(e)' \in {"none", "sent", "waiting"},
                        HostEnd(e)' \in {"open", "ended", "gone"}
                 PROVE  GivenUp(e)' \/ vm[Host(e)] = "gone"
      BY <1>1, <1>2 DEF LeftWaiting
    <3>1. CASE e \in {c, d}
      <4>1. c # d
        BY <1>1, <2>2, <3>1 DEF OtherEnd, HostEnd, Fixed
      <4> QED
        BY <2>3, <2>4, <3>1, <4>1
    <3>2. CASE e \notin {c, d}
      <4>1. OtherEnd(e)' = OtherEnd(e) /\ HostEnd(e)' = HostEnd(e)
        BY <1>1, <2>2, <3>2 DEF OtherEnd, HostEnd, Fixed
      <4> QED
        BY <2>4, <4>1 DEF WInv, LeftWaiting
    <3> QED
      BY <3>1, <3>2
  <2> QED
    BY <1>4, <1>5, <1>6, <1>7, <2>5, <2>6, <2>7, <2>8 DEF WInv
<1>9. CASE ~\E d \in Call : vchan_connects(c, d)
  <2>1. joined' = joined /\ expired \subseteq expired'
    BY <1>9 DEF Ends, agent_opens_server, agent_opens_client, server_times_out,
         client_times_out, server_closes, client_closes, server_terminated, client_terminated
  <2>2. \A e \in Call : e \in expired' => e \in expired \/ server[e] # "none" \/ client[e] # "none"
    BY <1>9 DEF Ends, agent_opens_server, agent_opens_client, server_times_out,
         client_times_out, server_closes, client_closes, server_terminated, client_terminated
  <2>3. Fresh'
    BY <1>1, <2>1, <2>2 DEF WInv, Fresh, IInv, StagesFit
  <2>4. \A e \in Call : GivenUp(e) => GivenUp(e)'
    BY <1>1, <2>1 DEF GivenUp, SameVchan, Fixed
  <2>5. ConnectsOwnCall'
    BY <2>1, <2>4 DEF WInv, ConnectsOwnCall
  <2>6. \A e \in expired' : GivenUp(e)'
    BY DEF GivenUp, SameVchan
  <2>7. ASSUME NEW e \in Call, OtherEnd(e)' \in {"none", "sent", "waiting"},
               HostEnd(e)' \in {"open", "ended", "gone"}
        PROVE  \/ e \in expired'
               \/ /\ OtherEnd(e) \in {"none", "sent", "waiting"}
                  /\ HostEnd(e) \in {"open", "ended", "gone"}
    <3>0. e = c \/ (server'[e] = server[e] /\ client'[e] = client[e])
      BY <1>0, <1>9 DEF TypeOK, Ends, agent_opens_server, agent_opens_client, server_times_out,
         client_times_out, server_closes, client_closes, server_terminated, client_terminated
    <3>1. CASE e # c
      BY <1>1, <2>7, <3>0, <3>1 DEF OtherEnd, HostEnd, Fixed
    <3>2. CASE e = c
      <4>1. CASE agent_opens_server(c) \/ server_closes(c) \/ server_terminated(c)
        BY <1>0, <1>1, <2>7, <3>2, <4>1 DEF TypeOK, OtherEnd, HostEnd, Fixed,
           agent_opens_server, server_closes, server_terminated, Over
      <4>2. CASE agent_opens_client(c) \/ client_closes(c) \/ client_terminated(c)
        BY <1>0, <1>1, <2>7, <3>2, <4>2 DEF TypeOK, OtherEnd, HostEnd, Fixed,
           agent_opens_client, client_closes, client_terminated, Over
      <4>3. CASE server_times_out(c) \/ client_times_out(c)
        BY <3>2, <4>3 DEF server_times_out, client_times_out
      <4> QED
        BY <1>9, <4>1, <4>2, <4>3 DEF Ends
    <3> QED
      BY <3>1, <3>2
  <2>8. LeftWaiting'
    BY <1>1, <1>2, <2>4, <2>6, <2>7 DEF WInv, LeftWaiting
  <2>9. \A e \in Call : Live(e)' => notify'[Host(e)][port[e]] = notify[Host(e)][port[e]]
    BY <1>9, EndsKeep
  <2>10. Notified'
    BY <1>1, <1>2, <1>3, <2>9 DEF WInv, Notified, Fixed
  <2> QED
    BY <1>4, <1>5, <1>6, <1>7, <2>3, <2>5, <2>8, <2>10 DEF WInv
<1> QED
  BY <1>8, <1>9

\* Nothing has been announced, given up or killed before the first call begins.
LEMMA InitWaits == Init => WInv
<1> SUFFICES ASSUME Init PROVE WInv
  OBVIOUS
<1>1. IInv
  BY InitInv
<1>2. OnceCreated
  BY PlansAssumption DEF Init, OnceCreated
<1>3. NotYetCreated
  <2>1. \A c \in Call : plan[c].disposable => plan[c].target \in Dom
    BY <1>1, HostType DEF IInv, WellFormed, Host
  <2>2. \A c \in Call : pc[c] = "idle"
    BY DEF Init
  <2>3. \A c \in Call : plan[c].disposable => vm[plan[c].target] = "absent"
    BY <2>1 DEF Init, Creates
  <2> QED
    BY <2>2, <2>3 DEF NotYetCreated
<1>4. Notified /\ KilledAfterUse /\ LiveRuns
  BY DEF Init, Notified, KilledAfterUse, LiveRuns, Live, HostEnd
<1>5. HostFirst /\ LeftWaiting
  BY DEF Init, HostFirst, LeftWaiting, HostEnd, OtherEnd, Told
<1>6. Fresh /\ ConnectsOwnCall
  BY DEF Init, Fresh, ConnectsOwnCall
<1> QED
  BY <1>2, <1>3, <1>4, <1>5, <1>6 DEF WInv

\* Every step preserves the second invariant.
LEMMA NextWaits == IInv /\ WInv /\ [Next]_vars => WInv'
<1> SUFFICES ASSUME IInv, WInv, [Next]_vars PROVE WInv'
  OBVIOUS
<1>1. ASSUME NEW c \in Call, Process(c) PROVE WInv'
  <2>1. CASE kill(c)
    <3>1. Fixed /\ port' = port /\ \A d \in Call : pc'[d] = IF d = c THEN "done" ELSE pc[d]
      BY <2>1 DEF kill, Goto, IInv, TypeOK, Fixed
    <3>2. CASE vm[plan[c].target] = "running" /\ Shutdown(plan[c].target)
      <4>1. plan[c].target \in Dom
        BY <2>1, HostType DEF kill, IInv, StagesFit, Host
      <4> QED
        BY <2>1, <3>1, <3>2, <4>1, ShutdownWaits DEF kill
    <3>3. CASE UNCHANGED <<vm, daemonVars, dataVars>>
      BY <3>1, <3>3, StillWaits
    <3> QED
      BY <2>1, <3>2, <3>3 DEF kill
  <2>2. CASE negotiate_connection_params(c)
    BY <2>2, AllocationWaits
  <2> QED
    BY <1>1, <2>1, <2>2, ProcessWaits DEF Process
<1>2. ASSUME NEW c \in Call, Ends(c) PROVE WInv'
  BY <1>2, EndsWait
<1>3. ASSUME NEW d \in MayDie, domain_dies(d) PROVE WInv'
  <2>1. d \in Dom /\ vm[d] = "running" /\ Fixed /\ Shutdown(d) /\ port' = port /\ pc' = pc
    BY <1>3, DomAssumption DEF domain_dies, Fixed
  <2> QED
    BY <2>1, ShutdownWaits
<1>4. CASE UNCHANGED vars
  <2>1. Fixed /\ port' = port /\ pc' = pc /\ UNCHANGED <<vm, daemonVars, dataVars>>
    BY <1>4 DEF vars, Fixed
  <2> QED
    BY <2>1, StillWaits
<1> QED
  BY <1>1, <1>2, <1>3, <1>4 DEF Next

-----------------------------------------------------------------------------
(* Theorems *)

\* The state of daemons, agents and processes stays well typed.
THEOREM TypeCorrect == Spec => []TypeOK
<1>1. IInv => TypeOK
  BY DEF IInv
<1> QED
  BY <1>1, InitInv, NextInv, PTL DEF Spec

\* allocate_vchan_port(): no two calls between the same two domains that are
\* not over use the same port, for any domains, calls and table size.
THEOREM PortsCorrect == Spec => []PortsUnique
<1>1. IInv => PortsUnique
  <2> SUFFICES ASSUME IInv, NEW c \in Call, NEW d \in Call, c # d, Live(c), Live(d),
                      {plan[c].source, plan[c].target} = {plan[d].source, plan[d].target}
               PROVE  port[c] # port[d]
    BY DEF PortsUnique
  <2>1. CASE Host(c) = Host(d)
    BY <2>1 DEF IInv, PortsReserved
  <2>2. CASE Host(c) # Host(d)
    <3>1. /\ WellFormed(plan[c]) /\ plan[c].kind \in Kind
          /\ WellFormed(plan[d]) /\ plan[d].kind \in Kind
      BY DEF IInv, TypeOK, Plan
    <3>2. Host(c) \in Dom /\ Host(d) \in Dom
      BY HostType DEF IInv
    <3>3. Remote(c) = Host(d) /\ Remote(d) = Host(c)
      BY <2>2, <3>1 DEF Host, Remote, WellFormed, Kind
    <3>4. port[c] \in OwnPorts(Host(c), Host(d)) /\ port[d] \in OwnPorts(Host(d), Host(c))
      BY <3>3 DEF IInv, PortsOwn, Live, HostEnd
    <3> QED
      BY <2>2, <3>2, <3>4, Parity
  <2> QED
    BY <2>1, <2>2
<1> QED
  BY <1>1, InitInv, NextInv, PTL DEF Spec

\* The disposable of a call is killed only when its own agent has reported the
\* end of the service, or the call never reached it.
THEOREM KillCorrect == Spec => []KilledAfterUse
<1>1. WInv => KilledAfterUse
  BY DEF WInv
<1> QED
  BY <1>1, InitInv, NextInv, InitWaits, NextWaits, PTL DEF Spec

\* libvchan connects by domain and port alone, and still the two ends of a data
\* vchan belong to one call, whatever the calls and the sizes of the tables,
\* unless an end of a call with that port gave up waiting for the other.
THEOREM ConnectionsCorrect == Spec => []ConnectsOwnCall
<1>1. WInv => ConnectsOwnCall
  BY DEF WInv
<1> QED
  BY <1>1, InitInv, NextInv, InitWaits, NextWaits, PTL DEF Spec

=============================================================================
