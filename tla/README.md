# A TLA+ model of qrexec

This directory holds a formal model of the qrexec framework of Qubes OS, the
code of this repository: TLA+ modules translated from the C and Python sources,
TLC configurations that check them on small instances, and proofs for the TLA+
proof system. `PROJECT.json` says which lines each definition stands for, which
runs there are, which mutant of the code each property detects, and what could go
wrong where.

## The system

```
        dom0                                          VM
  local clients, policy children              qrexec-client-vm ...
        | unix socket                                 | trigger socket
  qrexec-daemon  <------- control vchan ------->  qrexec-agent
        | asks                                        | starts
  qrexec-policy-daemon / -exec                    services, fork server
        | reads                                       |
  /etc/qubes/policy.d  <-- policy admin API       process_io <-- data vchan --> process_io
```

| Part | State | Operations | Hard because |
|---|---|---|---|
| `daemon/qrexec-daemon.c` | client table, pending requests, ports, whom to notify | main loop: reap, poll, accept, agent message, client message, restart | children, clients and the agent act between any two phases; the agent may restart; fork fails |
| `agent/qrexec-agent.c` | connection table, queue of requests waiting for a session | main loop: reap, poll, scan, commands, trigger socket | descriptors are identities and are reused; tables fill up; fork fails |
| `libqrexec/process_io.c` | descriptors, buffer, statuses of a call | one loop at each end of a data vchan | two programs, two loops and signals interleave; each descriptor can close at any time |
| `qrexec/policy/parser.py`, `tools/qrexec_policy_*.py` | a policy, a request | match, expand, collect choices, ask, answer | first-match and backward passes must agree; many kinds of tokens |
| `daemon/qrexec-daemon-common.c`, `qrexec-client.c` | a call being set up, the port tables of several daemons, disposables | create, start, connect, negotiate, wait, kill; the two ends of the data vchan | each daemon sees its own table only; every step can fail; domains die; ends time out |
| `libqrexec/exec.c`, `toml.c`, `qubes-rpc-multiplexer`, fork server | a command, its configuration, the service directories | parse, configure, wait for the session, dispatch, look up, connect or execute | two ways to run a service and two lookups that must agree; files change meanwhile |
| `policy/utils.py`, `policy/admin.py` | policy directory, cache, lock | load, watch, Get, Replace, Remove | a load overlaps with changes; processes crash |

How they interact: a `qrexec-client-vm` asks the agent, which sends a trigger to
the daemon; the daemon forks a child that asks the policy and then makes the
target's daemon start the service; the child connects to the daemon of the
caller with `MSG_SERVICE_CONNECT`, and the daemon passes the port of a data
vchan to the agent, which passes it to its client. The two ends then run
`process_io`; when an end is over, its agent reports `MSG_CONNECTION_TERMINATED`
and the daemon frees the port.

## Modules

| Module | Models | State and actions |
|---|---|---|
| `QrexecDaemon` | the daemon of one VM, its policy children, local clients, and what it sees of the agent | the C tables are functions on `Index`; `pc` is the phase of `main()`'s loop; one action per handler, named after it |
| `QrexecDaemonProofs` | | proofs about `QrexecDaemon` |
| `QrexecAgent` | the agent, its clients, children, fork server, and any daemon that answers a request once | `connection_info`, the queue and `wait_for_session_pid` as in C; `fdt` is the descriptor table of the kernel |
| `QrexecAgentProofs` | | proofs about `QrexecAgent`, and that it implements `AgentPromise` |
| `AgentPromise` | what agent and daemon promise each other on the control vchan | abstract: identifiers in use, connections held |
| `QrexecAgentRefinement` | that `QrexecAgent` implements `AgentPromise` | the refinement mapping |
| `ProcessIO` | both ends of a call | `io[side]` holds the local variables of `process_io()`; `prog[side]` is the program |
| `ProcessIOSteps`, `ProcessIOProofs` | | proofs about `ProcessIO` |
| `ServiceCalls` | calls between domains: the processes of dom0 that set them up, the daemons and agents of all domains involved, disposables | `pc[c]` is where the process of call `c` is; `used` and `notify` are the port tables of the daemons; `server[c]` and `client[c]` the ends of its data vchan |
| `ServiceCallsProofs` | | proofs about `ServiceCalls` |
| `ServiceExec` | one command from its receipt to a running service or an exit code, in a VM or in dom0 | `cmd` is `struct qrexec_parsed_command`; a lookup is one step per path; others `install` and remove files in between |
| `ServiceExecProofs` | | proofs about `ServiceExec` |
| `PolicyEvaluation` | evaluations and then a request, from the connection to the answer | pure operators named after the methods (`match`, `expand`, `evaluate`, `collect_targets_for_ask`), and the life of a request; `evaluated` keeps the last evaluation and what it said |
| `PolicyEvaluationProofs` | | proofs about `PolicyEvaluation` |
| `PolicyStore` | policy directory, cache and watcher, admin API, somebody who writes files in place | a load is one step per file |
| `PolicyStoreProofs` | | proofs about `PolicyStore` |

`AgentPromise` ties the two sides of the control vchan together: the
agent of `QrexecDaemon` (`agent_trigger`, `agent_receive`, `agent_terminated`)
takes just the steps `AgentPromise` allows it, and `QrexecAgent` is shown to
take no others. So what the daemon's model assumes is what the agent does.
`ServiceCalls` composes several daemons and agents, each reduced to what the
others see of it: a table of ports, and messages that announce and report
connections. `QrexecDaemon` has the same allocation and release of ports inside
the daemon's full main loop. `ServiceExec` starts where a `MSG_EXEC_CMDLINE` or
`MSG_JUST_EXEC` arrives at an agent and ends where `ProcessIO` starts.

Abstractions. Names, tags, commands and payloads are members of small sets.
`MSG_EXEC_CMDLINE` and `MSG_JUST_EXEC` are one kind where the receiver treats
them alike. Data is numbered chunks, one to a message. A vchan is a pair of bounded
queues; a send to a full one blocks, a send to a closed one fails. `ppoll()`
reports ready descriptors before it reports a signal. A process identifier is
not reused in `QrexecDaemon` and is in `QrexecAgent`. Contents of policy files are
records of their syntax being right, what they include and a version. In
`ServiceCalls` messages of one vchan may overtake each other and a timeout may fire
at any time while an end waits, which only adds behaviours. In `ServiceExec` a path is
what `lstat()`, `stat()` and `readlink()` tell of it, a configuration file is a
sequence of lines already split into key, type and value, and a port is a sequence of digits,
because `validate_port()` compares text.

Definitions with a suffix and no use (`lock_directory_shared`,
`Choices_unfiltered`, ...) are mutants: plausible wrong versions
of the definition that follows, which a property must reject.

## Runs

Each `MC*.cfg` is one question. `violation` runs show a disagreement between the
code and what a comment, a document or an assertion says of it; the findings in
`PROJECT.json` quote both.

| Run | Expected | Shows |
|---|---|---|
| `daemon` | pass | requests, ports, clients, marks and descriptors stay consistent; two requests, a local client, tables of two |
| `daemon_restart` | pass | ports stay accounted for with the daemon at its limits (no slot, no descriptor, no port), with a crash of the agent, agents of two versions, a killed child, invalid requests and SIGTERM |
| `daemon_live` | pass | every request is answered, under fairness and but for the cases below; two requests, a local client, one port, one descriptor, one child that may be killed |
| `daemon_reap` | violation | a call that was allowed is lost when its child is reaped before its message is read |
| `agent` | pass | reports, descriptors, identifiers, the order of `fds[]` and the queue stay consistent, with a table that fills up; the agent implements `AgentPromise` |
| `agent_live` | pass | what ends is reported, what waits is served, who asks is answered, unless SIGTERM ends the agent |
| `io` | pass | order and completeness of data, EOF before exit code, success only when it is real, children collected; for processes, sockets, failures to start, prefixes, SIGUSR1, local children and killed sides |
| `io_live` | pass | the caller returns; a loop whose peer has gone ends |
| `policy` | pass | what is allowed can be used and respects `autostart=no`; `policy.EvalSimple` and `policy.EvalGUI` predict the call; choices agree with first match |
| `store` | pass | tokens exclude lost updates, the files keep parsing together, the cache is current unless marked, and a change is in force in the end; two editors, or one and a daemon and files written in place; processes killed at any step |
| `calls` | pass | ports are unique for each pair of domains, a vchan connects the ends of one call, a disposable is killed after use and not left behind; failing steps, timeouts and dying domains |
| `service` | pass | the lookup follows the documented order, the multiplexer executes what was found, a service runs with its configuration on every way to it, a TCP link connects where it says |

Some properties hold with a restriction, each for something the code really does:

- `RequestAnswered` names the requests that the daemon leaves without an answer
  (`LeftUnanswered`): the case of `daemon_reap`; a child killed by a signal, on which
  `reap_children()` does nothing (`daemon/qrexec-daemon.c:795`); a call that was marked
  as allowed (`:591`) and then found no free port (`:611`), so that the failure of its
  child is not a reason to refuse it any more (`:799`); a crash of the agent. The daemon of the
  run has one port and one descriptor, so that the second and the third happen. It also
  supposes that the agent pauses in the end (`AgentPauses`): a daemon that always finds
  its vchan or its sockets ready neither reads its clients' messages nor notices SIGCHLD.
- `AnsweredByOwnChild` is checked without a restart of the agent. With one it fails:
  `handle_agent_restart()` clears the slots ("Abort pending qrexec requests",
  `daemon/qrexec-daemon.c:1476`) but leaves the children running, and the message of
  one of them is matched by identifier (`:582`) with a request of the new agent. The
  theorem says the same: it holds up to the first crash of the agent.
- `OutputComplete` leaves out services with `exit_on_stdin_eof`: `close_stdin()` also
  runs on `POLLHUP` of the service's own socket (`libqrexec/process_io.c:314`), so
  a service that answers and closes can lose its answer. It also leaves out services
  that switched to one socket, where the pipe is abandoned.
- `DisconnectEndsLoopUnlessBuffered`: with data in `stdin_buf` for a stdin that is closed
  `flush_client_data()` never empties it and the check at `libqrexec/process_io.c:246`
  never holds.
- `AllowedTargetUsable` names two targets that are handed out as they are configured. A
  disposable of the caller's `default_dispvm` is not checked to be one of a template for
  disposables (`qrexec/policy/parser.py:545`, `:608`). And `Ask.evaluate()` (`:1080`)
  offers the `target=` of an ask rule unexpanded, so that the answer can be `@dispvm`.
- `EvaluationPredicts` is about calls to a domain by its name. What is said of a call holds
  unless the user decides otherwise, there is nobody to ask, or a rule sends the call
  back to its source, which `AllowResolution.execute()` alone refuses (`parser.py:691`).
- `ChoicesAreGranted` leaves out dom0 (tags and `@type:AdminVM` expand to it although
  they never match it, `parser.py:490`), disposables (`@dispvm` is expanded after the
  rules were applied, `parser.py:1667`), and rules with `target=`.
- `ConnectsOwnCall` leaves out ports on which a call was given up, an end of it having
  timed out: the daemon then frees the port, and the other end, when it comes late, meets
  the next call with that port. It takes the place of an end of that call, which is left
  over in turn and can meet the call after it, although neither of these timed out.
- `DisposableReleased` leaves out a lost answer to `admin.vm.Start`:
  `qrexec_execute_vm()` returns at `daemon/qrexec-daemon-common.c:142` without
  a kill, and the disposable may be running. It leaves out a failing `admin.vm.Kill` too,
  whose result nobody looks at.
- `LookupOrder` says nothing of a search with a dangling link among its paths: a link whose
  target does not exist counts as absent and is passed, against the comment at
  `libqrexec/exec.c:207` and `doc/execution.rst:170`.
- `EndpointAsNamed` says nothing of an argument for a `/dev/tcp/HOST/PORT` link: the code
  refuses it (`exec.c:728`), `doc/execution.rst:219` says that it is ignored.
- `MultiplexerAgrees` leaves out two cases. `qubes-rpc-multiplexer` tries both names in
  one directory before the next directory, where `find_qrexec_service()` tries one name
  everywhere first: with `/usr/local/etc/qubes-rpc/SERVICE` and `/etc/qubes-rpc/SERVICE+ARG`
  the latter is found and the former is executed. And it skips empty files (`-s`).
- `OutcomeAsConfigured` does not ask for `force-user` in dom0, whose `do_exec()` ignores the user,
  nor for any setting of a `nogui:` command there, which loads no configuration
  (`daemon/qrexec-daemon-common.c:336`).
- `CacheFresh` and `EventuallyInForce` leave out a change between the first load and the watch,
  and speak of a policy in use: after an admin process was killed with its temporary file
  in the directory no load succeeds.
- `StaysLoadable` is about contents. Names are another matter: the temporary file of a
  replacement (`qrexec/policy/admin.py:204`) has a name `filter_filepaths()` refuses,
  so that calls are denied while it exists, and the admin API accepts names with
  upper-case letters, which `filter_filepaths()` refuses too.

Further disagreements between code and comments the models exhibit, without a
run of their own: with the agent's table full a client is told its connection and
never registered (`agent/qrexec-agent.c:504`, against the comment at `:642`); the daemon keeps
the protocol version of the previous agent (`daemon/qrexec-daemon.c:1502`);
`default_target=` that is not among the choices fails the assertion at
`parser.py:733`; a rule for the disposables of a removed VM raises `KeyError`
(`parser.py:571`); `--assume-yes-for-ask` refuses `@adminvm` and `@dispvm`
(`qrexec/tools/qrexec_policy_exec.py:56`); a caller that fails to send input returns 1 with
the exit code of the service unread (`libqrexec/process_io.c:349`, against
`agent/qrexec-agent-data.c:322`); a call from a domain that is gone, when it is
refused or the user would have to be asked, raises `KeyError`, and its caller gets no answer.

### Bounds

- Tables of one or two entries and two processes of each kind: the code's
  invariants relate at most two entries (two requests with one identifier, two
  ports of one client, a slot before and one after), and every "table
  full" path is taken (`daemon_restart`, `daemon_live`, `agent`).
- `Calls` of `ProcessIO` lists the calls that are looked at, each with its own bounds.
  A ring of one message makes every send that can block do so; the calls with a
  prefix have three, for a message, an EOF and an exit code
  under way. Three chunks are more than a pipe, `stdin_buf` and a ring of one hold.
- One crash and one kill: after the restart the daemon is in a state it cannot
  tell from an earlier one, but for ports it keeps, which `PortAccounted` counts.
- Policies of two rules, three when they overlap: a rule that adds a target,
  one that removes it, and one in between. Three systems, one of them with a
  `default_dispvm` that is no template; requests with every kind of target, an invalid one
  included, and from a domain that is gone; one call after any number of evaluations.
- `Workloads` of `PolicyStore`: two admin processes and three requests (get, a
  replacement by the other, a replacement with the token), without the daemon; and
  one admin process, files written in place and the daemon, with two files that include a third,
  which a load reads once for each.
- `Plans` of `ServiceCalls`: three calls at a time, over one pair of domains in one direction
  (a port given up, used again, and used once more) and in both, to dom0 and from it with the ports shared with a VM's, to a disposable and back
  from it; tables of two ports, so that each parity has one and runs out. The theorems
  `PortsCorrect`, `ConnectionsCorrect` and `KillCorrect` are about any number of calls.
- `Scenarios` of `ServiceExec`: two directories; every content of the four paths (files,
  sockets, links, dangling links, directories, errors); every
  pair of configuration lines; ports on both sides of every comparison in
  `validate_port()`; two files that change during a call.

Symmetry is used for processes, clients and identifiers in safety runs only.

### Fairness

- Daemon, agent and `process_io` loops are running programs: weak fairness.
- Policy children end their work; the agent keeps reading its vchan.
- In `agent_live` the daemon answers every request of an agent (strong fairness in
  `QrexecAgent`). `daemon_live` shows that it does but for `LeftUnanswered`, and in
  those cases a client waits for ever: `ClientAnswered` is about the agent's part, that an
  answer of the daemon gets to the client.
- In `QrexecAgent` new work stops in the end: `ppoll()` prefers ready
  descriptors to SIGCHLD, so an agent under endless load may never reap. In
  `QrexecDaemon` this is `AgentPauses`, a condition of `RequestAnswered`.
- A program reads what it is given unless it closed its stdin, and exits after
  its stdin was closed.
- The policy daemon is asked again and again. Admin processes go on unless killed.
- In `ServiceCalls` the processes of dom0, the daemons and the agents go on; waiting
  for a connection ends by a timeout, and `process_io` returns once its peer has
  closed (`io_live`). Services and callers may talk for ever.

Clients, signals, crashes and users are under no obligation.

## Proofs

Every safety property that a passing run checks is also proved, and so is the refinement of
`AgentPromise`; liveness is left to TLC.

`QrexecDaemonProofs` proves, for every value of the
constants that satisfies `DaemonAssumption` (table sizes and vchan capacity at
least one, domains other than the daemon's own, distinct processes):

| Theorem | Says | Inductive invariant |
|---|---|---|
| `TypeCorrect` | `Spec => []TypeOK` | `TInv`: `TypeOK`, a client entry is used iff a connection is behind it (`PeerInv`), the listening socket is reported ready only with a connection in the backlog (`ListenInv`: `handle_new_client()` takes its head), and a child that connects has a destination (`DestInv`) |
| `NotifyCorrect` | `Spec => []NotifyConsistent` | `NotifyConsistent` with `TInv` |
| `AnswerCorrect` | `Spec => []AnsweredAtMostOnce` | `PendingInv`: a process is in one slot at most, is unanswered while its slot is PENDING, and is unanswered before it is forked (`SlotInv`) |
| `MarksCorrect` | `Spec => []MarksCoverTables` | `PendingInv` and `ClientMark` |
| `DescriptorCorrect` | `Spec => []NoStaleDescriptor` | `ReadyInv`: before the accept phase is over a reported descriptor still is the connection it was reported for; later it may also be closed |
| `NotifiedCorrect` | `Spec => []RunningClientNotified` | `LocalInv`: what a local process may have in its socket at each stage (`SockOK`, `ChildOK`); a connection is behind one descriptor and in the backlog once at most, and has been told no port before its request is read (`LinkInv`) |
| `PortsCorrect` | `Spec => []PortAccounted` | `PortInv`: a free port is that of no connection; a reserved one is that of exactly one, with the domain it is reserved for, which is announced, held by the agent, reported as ended, or left behind by an agent that crashed |
| `AnswererCorrect` | `Spec => [](agent.crashes = 0 => AnsweredByOwnChild)` | `IdentInv`: the request an identifier names is in one place only: a trigger on its way (`IdentRequested`), a child and the slot that waits for it (`IdentHandled`), an answer on its way (`IdentAnswered`), a connection (`IdentConnected`) |

The argument is the same each time: a frame lemma (`ClientFrame`, `PendingFrame`,
`ReadyFrame`, and `PortSame` and `IdentSame` for one port and one identifier) says that all but a few handlers leave the tables in question alone,
and each of those few is one step of the proof. `NoStaleDescriptor` rests on the
order of the phases: new connections are accepted before the agent's messages
close any.

`PortAccounted` counts connections in four places, and a count is awkward to reason about; `PortInv`
says in which of the four the one connection is, and each step that concerns a port moves it from one
place to the next. `AnsweredByOwnChild` compares the child that a message came from with the one whose slot
it was matched to. The message carries only an identifier, so what has to be invariant is who can hold
that identifier: the agent does not use it again before the connection or the refusal has ended it, hence
at most one slot waits for it, and the only child that may still ask in its name is the one of that slot.
A crash breaks this, because the next agent starts with no identifier in use while the children
of the last one go on; the theorem therefore has `agent.crashes = 0` in it.

`ServiceCallsProofs` proves, for any set of domains and calls, any table size and any
plans that satisfy the assumptions of `ServiceCalls`:

| Theorem | Says | Inductive invariant |
|---|---|---|
| `TypeCorrect` | `Spec => []TypeOK` | `IInv`, below |
| `PortsCorrect` | `Spec => []PortsUnique` | `IInv`: `TypeOK`; a process has ends of a vchan only after it was told a port, and is only at the stages of its kind of call (`StagesFit`); a port told is one its daemon may give out for the other domain (`PortsOwn`), and so is every entry of a table (`EntriesOwn`); dom0 has no agent that reports (`NoAgentInDom0`); a live call's port is marked in its daemon's table with the other domain, and no two live calls of one daemon have the same (`PortsReserved`) |
| `KillCorrect` | `Spec => []KilledAfterUse` | `IInv` and `WInv`, below |
| `ConnectionsCorrect` | `Spec => []ConnectsOwnCall` | `WInv`: a disposable does not exist before its call creates it (`NotYetCreated`), and its daemon will notify the process that waits for that call (`Notified`); the agent at the daemon with the port hears of a call first (`HostFirst`), and a live call's daemon runs (`LiveRuns`); an end still to be connected when the other is past it belongs to a port that was given up, or to a domain that is gone (`LeftWaiting`) |

`PortsUnique` alone is not inductive. That a report frees only the port of the call it
is about needs the table and the calls tied together (`PortsReserved`): an agent also
reports connections whose port the *other* daemon gave out, and
`release_vchan_port()` goes by port and domain alone. Such a report names a port of the
wrong parity, and by `EntriesOwn` no entry of the table fits it. For two calls of
different daemons parity is the whole argument (`PortsOwn`).

For `ConnectsOwnCall`, two ends of different calls can meet only if both wait on the same port. By
`PortsUnique` one of the calls is no longer live, so the end at the daemon with the port is over while the
other still waits, and `LeftWaiting` says how that came about. The assumption that disposables of
different calls are different (`PlansAssumption`) is what qubesd does: `admin.vm.CreateDisposable` gives each a
name of its own. An earlier form of the property, which excused only the calls that themselves timed
out, is false: the attempt to prove it led to the three calls above, and TLC confirmed them.

`ServiceExecProofs` proves, for any number of directories and any scenarios (any files, changes,
arguments, and configurations of any number of lines) that satisfy `ScenariosAssumption`:

| Theorem | Says | Inductive invariant |
|---|---|---|
| `LookupCorrect` | `Spec => []LookupOrder` | `IInv`: while `find_file` searches, every path it has passed is missing or was changed by somebody (`Searched`); what was found can exist and, when nothing changed, is executable (`Executable`); nothing is found or reported before the search (`Progress`) |
| `MultiplexerCorrect` | `Spec => []MultiplexerAgrees` | the same, with: every file the multiplexer has passed is not one `test -s` accepts (`Tested`) |
| `ConfigurationApplied` | `Spec => []OutcomeAsConfigured` | `ConfigInv`: from the moment the configuration is loaded until the service is started, the command's user is the one the lines name (`AsUser`), its settings for a socket are those of the lines (`AsSocket`), and the session was waited for if they say so (`Waited`) |
| `EndpointCorrect` | `Spec => []EndpointAsNamed` | `Types` of `IInv`; the rest is about `validate_port()` |

For the first two the core is the lemma `Agreement`: a file that is before the one found in the multiplexer's
order, and not before it in `find_file`'s, is a `SERVICE` in an earlier directory than a
`SERVICE+ARG`. It needs both orders as numbers (`OrderFacts`, `MultiplexerOrderFacts`).

The other two rest on what two loops of the code compute, for an input of any length. `OutcomeAsConfigured`
speaks of the lines of the file and the parser of a state it carries from line to line: `ParseCorrect` shows
by induction over the lines that this state says of them what `Read` states. `EndpointAsNamed` speaks of
the number that a port denotes, and `validate_port()` compares its length and then its digits as text:
`ValidatePort` shows that both accept the same ports, by the values of its digits (`Numbers`) for five digits and
by induction over the digits for more. The induction is by a least counterexample: a set
of natural numbers that is not empty has a least element (`Least`), so that a set with 0 in it and closed
under the successor has all numbers up to a bound (`UpTo`). `Parses` and `Numbers` are
recursive functions; that they satisfy their defining equations is proved the same way (`ParsesStep`, `NumbersStep`).

`QrexecAgentProofs` proves, for any sizes of the tables and the ring, any number of clients,
connections and process identifiers (`AgentAssumption`: the sizes are at least one, and
clients, connections and processes are different things):

| Theorem | Says |
|---|---|
| `TypeCorrect` | `Spec => []TypeOK` |
| `AnswersCorrect` | `Spec => []AnswerReachesRequester` |
| `WatchedCorrect` | `Spec => []WatchedFdOwned` |
| `AssertionsHold` | `Spec => []PollAligned` |
| `ServedCorrect` | `Spec => []NotReportedWhileServed` |
| `PromiseKept` | `Spec => KeepsPromise`: the refinement of `AgentPromise` |

All follow from one `IInv`:

- `RequestInv`: an identifier is in one place only, as a trigger, as a request the daemon
  has, or as an answer, and while it is anywhere the descriptor of that number is still the client's.
- `ClientInv`: a client is behind one descriptor at most, and behind none while it is in the backlog.
- `ConnInv`: for each connection, where it can be (announced, waiting, registered, reported, free)
  and who may serve it there. A connection has one slot at most and one server at most;
  one that is neither registered nor lost for want of a slot has none. Four of the
  theorems rest on it.
- `TableInv`, `SessionInv`: a slot waits for a process that has the slot's connection, or watches a
  descriptor whose owner has it and which is no longer a request; the process that waits
  for the session serves no connection.
- `ScanInv`: during the pass over `connection_info` there is an increasing map from what is left of
  the results of `ppoll()` onto the watched slots that are left. It is what makes the
  assertion in the loop hold while slots are released behind it.

`PollAligned`, that the program is not at the failed assertion, says nothing by itself that a step
could preserve; `ScanInv` does. For `PromiseKept` each action is one lemma (`ReceivePromised`,
`SendPromised`, ...): under `IInv` it is one step of `AgentPromise` or leaves its variables unchanged.

`ProcessIOSteps` and `ProcessIOProofs` prove, for any set of calls that satisfies `IOAssumption` (any
kinds of programs at both ends, rings and prefixes and amounts of data of any size):

| Theorem | Says |
|---|---|
| `TypeCorrect` | `Spec => []TypeOK` |
| `DataInOrder` | `Spec => []InOrder` |
| `OutputIsComplete` | `Spec => []OutputComplete` |
| `StatusCorrect` | `Spec => []SuccessIsReal` |
| `EndsInOrder` | `Spec => []EofBeforeExitCode` |
| `ChildrenCollected` | `Spec => []ChildCollected` |

`IInv` has three layers. For each side (`SideInv`): where its loop can be given what is open and which
kind of program it has (`Control`), what is known of its child (`Child`), and its pipes (`Pipes`).
For each direction (`FlowInv`): the chunks in the ring, in `stdin_buf`, in the pipe and
read are consecutive, and end with the last one the other side has taken from its program, so that none
is lost, doubled or overtaken. For the answer of a service (`AnswerInv`): an exit code
on its way or known is the final one of the service (`Codes`), the end of the output is
before it (`Ends`), and nothing follows that end, so that a caller that
has seen it was given all the output, unless its program closed its stdin
(`Whole`). `OutputComplete` needs the last one, and `FlowInv` to turn an amount of data into the data
itself. The parts are operators on values, so that a handler that
changes one side is proved for that side, and a lemma (`Assemble`) puts the sides together.

`PolicyEvaluationProofs` proves, for any policies, any systems and any requests that
satisfy `SystemAssumption` and `RequestAssumption`:

| Theorem | Says |
|---|---|
| `TargetsCorrect` | `Spec => []AllowedTargetUsable` |
| `AutostartCorrect` | `Spec => []AutostartRespected` |
| `EvaluationCorrect` | `Spec => []EvaluationPredicts` |
| `ChoicesCorrect` | `Spec => []ChoicesAreGranted` |

`SystemAssumption` is what qubesd ensures of the information it gives: dom0 is there, only dom0 is an
AdminVM, and a `default_dispvm` is a domain, of whatever kind. `RequestAssumption` is what a caller can
write as its target, valid or not, and that the evaluation services take names. What a rule may be is not assumed: `Acceptable` is the
checks of `Rule.__init__()`, and `handle_rule` drops the others. `IInv` keeps what is
true of a resolution until it is used (`Sound`): it comes from the first rule that matches, its target or its choices can be used, and the
choices are those the rules grant. Most of the work is in lemmas about the pure operators:
what `expand()`, `verify()` and the three `evaluate()` methods return. `ChoicesAreGranted` compares two passes in opposite
directions; the proof goes by the rule that decides for a domain: the first one that matches it is the last one
that the backward pass applies to it. `EvaluationPredicts` relates two requests. `EInv` keeps, for the last
evaluation, that its result fits what `evaluate()` returns for the call it was about (`Agree`): denied means
that the target is not among the choices of an ask rule and the rule is no allow, allowed the opposite. A
call with the same fields has the same resolution (`EvaluateSame`), whatever its kind, because `evaluate()`
looks at no other field and policy and system did not change (`EvaluateKept`).

`PolicyStoreProofs` proves, for any files, contents, workloads and number of admin processes
that satisfy `StoreAssumption` (an include names a file of the include directory) and `InitialAssumption`
(the directory parses at first). The first is narrower than the code, where an include may name any path:
a file outside the directory (`qrexec/policy/parser.py:1808`) is neither watched nor validated by the admin API:

| Theorem | Says | Inductive invariant |
|---|---|---|
| `TokenCorrect` | `Spec => []TokenHolds` | `AdminInv`: whoever is past `lock` holds the lock, what is to be renamed is what was written, and between validation and change the directory as it will be parses |
| `DirectoryCorrect` | `Spec => []StaysLoadable` | the same |
| `CacheCorrect` | `Spec => []CacheFresh` | `CacheInv`: while the directory is watched a load in progress has marked the cache outdated or an event waits; with no event and nothing missed, what was read so far is what the directory has and what is left to read will complete it (`Reading`) |

`StaysLoadable` was first stated for moments when nobody holds the lock. The proof showed that it is true at every moment, since a
change is one `rename()` or `unlink()`, and it now says so.

Out of the prover's reach, and so only model-checked: what needs fairness or ENABLED, which
is `RequestAnswered` of the daemon; `EndedIsReported`, `PostponedIsServed` and `ClientAnswered` of the agent;
`CallerReturns` and `DisconnectEndsLoopUnlessBuffered` of `ProcessIO`; `EventuallyInForce` of `PolicyStore`;
and `DisposableReleased` of `ServiceCalls`.

## Not modelled

Strings and their syntax (command lines, service names, policy lines, TOML lines), the
handshakes beyond their outcome, errors of libvchan itself (`libqrexec/process_io.c:310`)
and messages neither end of a call sends (`libqrexec/remote.c:64`), since both ends are this
program, data on the agent's connection to the fork server (`agent/qrexec-agent.c:968`
logs it), on which the fork server never writes, time (a timeout may be a failure at
any point), PAM beyond its outcome and environments, notifications and the GTK dialogue, 4.0
compatibility, and command line tools that only print. Restarts of an agent are in
`QrexecDaemon` and not in `ServiceCalls`; the main loops of a daemon and an agent are not
composed, so that a mutual wait of both for space in the control vchan is not
examined. The components in `PROJECT.json` give the reasons.

## Open

- `ControlVchan`: can daemon and agent both be in `libvchan_send()` at once, each
  with a full ring before it?
- `QrexecAgent`: the reading of a request split in two, for slow clients.
