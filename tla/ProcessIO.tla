----------------------------- MODULE ProcessIO -----------------------------
(***************************************************************************)
(* libqrexec/process_io.c and remote.c: the loop that carries a call.  The *)
(* two sides of a data vchan run it, each between the vchan and a local    *)
(* program: the service and the caller.  Data is abstracted to numbered    *)
(* chunks, one of which fits a message, a write() or a pipe; the rings of  *)
(* the vchan hold a few messages.                                          *)
(*                                                                         *)
(* A local program is a child of process_io() ("process", local_pid > 0),  *)
(* a service behind one socket ("socket", local_pid = 0), or whoever is    *)
(* behind the descriptors of qrexec-client-vm ("self", with stdin and      *)
(* stdout apart or one socket).  A service that cannot be started          *)
(* ("failed") or is not waited for ("just_exec") has no loop: its messages *)
(* are those of handle_new_process_common().                               *)
(***************************************************************************)
EXTENDS Integers, Sequences, FiniteSets

CONSTANTS
    Calls,                     \* the calls that are looked at
    ExitCodes                  \* exit codes programs use

Side == {"service", "client"}
Other(s) == IF s = "service" THEN "client" ELSE "service"

\* service, client: the kinds of local program; stderr: whether the service has
\* one (a child of the agent does, one in dom0 does not); mode: which of
\* exit_on_stdin_eof and exit_on_stdout_eof are set; ring: messages a ring of
\* the vchan holds; output, input: chunks the service, and the caller, write at
\* most; prefix: chunks of qrexec-client-vm --prefix-data; kill: sides whose
\* process_io() process may be killed; switch: whether the child asks for one
\* socket with SIGUSR1.
CallType ==
    [service : {"process", "socket", "failed", "just_exec"},
     client : {"process", "self", "selfsocket"},
     stderr : BOOLEAN, mode : SUBSET {"stdin", "stdout"}, ring : Nat \ {0},
     output : Nat, input : Nat, prefix : Nat, kill : SUBSET Side, switch : BOOLEAN]

ASSUME IOAssumption ==
    /\ \A c \in Calls :
          /\ c \in CallType
          /\ c.mode # {} => c.service = "socket"
          /\ c.stderr => c.service = "process"
    /\ ExitCodes \subseteq 0 .. 255

VARIABLES
    io,                        \* the local variables of process_io(), per side
    prog,                      \* the local program, per side
    ring,                      \* the messages on their way to each side
    open                       \* which sides have their end of the vchan open

vars == <<io, prog, ring, open>>

-----------------------------------------------------------------------------
(* State *)

Phase == {"start", "top", "drained", "poll", "flush", "recv", "stdout", "stderr",
          "finish", "wait", "returned", "stdout_eof", "stderr_eof", "exit_code"}

Call == io["service"].call
DataLimit(s) == IF s = "service" THEN Call.output ELSE Call.prefix + Call.input
Chunk == Nat \ {0}
NoStatus == -1
Status == (0 .. 255) \cup {NoStatus}

\* MSG_DATA_STDIN and MSG_DATA_STDOUT are one kind, as for the receiver; data
\* on stderr is not modelled, only its end.
Data(n) == [type |-> "DATA", chunk |-> n]
Eof == [type |-> "EOF"]
StderrEof == [type |-> "STDERR_EOF"]
ExitCode(c) == [type |-> "EXIT_CODE", code |-> c]
Msg == [type : {"DATA"}, chunk : Chunk] \cup {Eof, StderrEof} \cup [type : {"EXIT_CODE"}, code : 0 .. 255]

\* stdin, stdout, stderr: whether the descriptor is not -1.  rev: revents of
\* the last ppoll().  died: exit(1) from handle_vchan_error().
IO == [call : CallType,
       kind : {"process", "socket", "failed", "just_exec", "self", "selfsocket"},
       mode : SUBSET {"stdin", "stdout"},
       pc : Phase, stdin : BOOLEAN, stdout : BOOLEAN, stderr : BOOLEAN,
       single : BOOLEAN, stdin_buf : Seq(Chunk), prefix : Nat,
       local_status : Status, remote_status : Status,
       sigchld : BOOLEAN, sigusr1 : BOOLEAN,
       rev : SUBSET {"stdin", "stdout", "stderr", "prefix"},
       ret : Status, died : BOOLEAN]

\* in, out: what is in the pipes; rd, wr, err: what the program has open; sock:
\* what it wrote to its stdin socket; written, got: its output and input so far.
Prog == [st : {"running", "zombie", "reaped"}, code : Status,
         in : Seq(Chunk), out : Seq(Chunk), sock : Seq(Chunk),
         rd : BOOLEAN, wr : BOOLEAN, err : BOOLEAN, switched : BOOLEAN,
         written : Nat, got : Seq(Chunk)]

HasPid(s) == io[s].kind = "process"
IsService(s) == s = "service"

InitialIO(c, k, m, p) ==
    [call |-> c, kind |-> k, mode |-> m,
     pc |-> IF k = "failed" THEN "stdout_eof" ELSE IF k = "just_exec" THEN "exit_code" ELSE "start",
     stdin |-> TRUE, stdout |-> TRUE, stderr |-> FALSE,
     single |-> k \in {"socket", "selfsocket"}, stdin_buf |-> <<>>, prefix |-> p,
     local_status |-> NoStatus, remote_status |-> NoStatus,
     sigchld |-> FALSE, sigusr1 |-> FALSE, rev |-> {}, ret |-> NoStatus, died |-> FALSE]

InitialProg(p) ==
    [st |-> "running", code |-> NoStatus, in |-> <<>>, out |-> <<>>, sock |-> <<>>,
     rd |-> TRUE, wr |-> TRUE, err |-> TRUE, switched |-> FALSE,
     written |-> p, got |-> <<>>]

\* exit-on-*-eof is for socket services.
Init ==
    /\ \E c \in Calls :
          /\ io = [s \in Side |->
                     IF s = "service"
                     THEN [InitialIO(c, c.service, c.mode, 0) EXCEPT !.stderr = c.stderr]
                     ELSE InitialIO(c, c.client, {}, c.prefix)]
          /\ prog = [s \in Side |-> InitialProg(IF s = "client" THEN c.prefix ELSE 0)]
    /\ ring = [s \in Side |-> <<>>]
    /\ open = [s \in Side |-> TRUE]

-----------------------------------------------------------------------------
(* The vchan *)

Space(s) == Len(ring[Other(s)]) < Call.ring           \* libvchan_buffer_space()
IsOpen(s) == open[Other(s)]                      \* libvchan_is_open()

\* libvchan_send() of side s: waits for room, fails once the peer has closed
Sent(s, m) == IsOpen(s) /\ Space(s) /\ ring' = [ring EXCEPT ![Other(s)] = Append(@, m)]
SendFails(s) == ~IsOpen(s) /\ UNCHANGED ring
\* ... of messages whose loss is ignored, with `in' left to be received
Attempt(s, in, msgs) ==
    /\ IsOpen(s) /\ msgs # <<>> => Space(s)
    /\ ring' = [ring EXCEPT ![s] = in, ![Other(s)] = IF IsOpen(s) THEN @ \o msgs ELSE @]

Goes(s, upd) == io' = [io EXCEPT ![s] = upd]

\* The record of a side whose process has ended with status c: the kernel
\* closes its descriptors.
Ended(r, c, d) == [r EXCEPT !.pc = "returned", !.stdin = FALSE, !.stdout = FALSE,
                            !.stderr = FALSE, !.rev = {}, !.ret = c, !.died = d]

handle_vchan_error(s) ==
    /\ Goes(s, Ended(io[s], 1, TRUE))
    /\ open' = [open EXCEPT ![s] = FALSE]

\* close_stdin(), where it has nothing to send, and close_stdout()
StdinClosed(r) == IF "stdin" \in r.mode THEN [r EXCEPT !.stdin = FALSE, !.stdout = FALSE]
                  ELSE [r EXCEPT !.stdin = FALSE]
StdoutClosed(r) == IF "stdout" \in r.mode THEN [r EXCEPT !.stdin = FALSE, !.stdout = FALSE]
                   ELSE [r EXCEPT !.stdout = FALSE]

\* close_stdin(): with exit-on-stdin-eof it sends EOF if stdout is still open.
close_stdin(s, r, in) ==
    /\ Goes(s, StdinClosed(r))
    /\ Attempt(s, in, IF "stdin" \in r.mode /\ r.stdout THEN <<Eof>> ELSE <<>>)

AllClosed_ignoring_stdout(r) == ~r.stdin /\ ~r.stderr
AllClosed(r) == ~r.stdin /\ ~r.stdout /\ ~r.stderr

-----------------------------------------------------------------------------
(* The loop *)

\* A service without a stderr of its own announces its end first.
start(s) ==
    /\ io[s].pc = "start"
    /\ Goes(s, [io[s] EXCEPT !.pc = "top"])
    /\ Attempt(s, ring[s], IF IsService(s) /\ ~io[s].stderr THEN <<StderrEof>> ELSE <<>>)
    /\ UNCHANGED <<prog, open>>

\* "React to SIGCHLD": the child is reaped and its stdin closed
Reaps(s) == io[s].sigchld /\ HasPid(s) /\ prog[s].st = "zombie"
AfterSigchld(s) ==
    IF Reaps(s)
    THEN StdinClosed([io[s] EXCEPT !.sigchld = FALSE, !.local_status = prog[s].code])
    ELSE [io[s] EXCEPT !.sigchld = FALSE]

LocalDone(r) == r.kind # "process" \/ r.local_status >= 0

\* "child signaled desire to use single socket": stdout is the stdin socket now
Switched(r) == IF r.sigusr1 /\ ~r.single
               THEN [StdoutClosed(r) EXCEPT !.stdout = TRUE, !.single = TRUE, !.sigusr1 = FALSE]
               ELSE r

AllDone_not_drained(r, service) == LocalDone(r) /\ (service \/ r.remote_status >= 0)
AllDone(r, service) == AllClosed(r) /\ LocalDone(r) /\ (service \/ r.remote_status >= 0)

\* "if all done, exit the loop"; the service sends the exit code first
send_exit_code_and_break(s, r) ==
    \/ /\ Sent(s, ExitCode(IF HasPid(s) THEN r.local_status ELSE 0))
       /\ Goes(s, [r EXCEPT !.pc = "finish"])
       /\ UNCHANGED open
    \/ SendFails(s) /\ handle_vchan_error(s)

loop_top(s) ==
    /\ io[s].pc = "top"
    /\ prog' = IF Reaps(s) THEN [prog EXCEPT ![s].st = "reaped"] ELSE prog
    /\ LET r == AfterSigchld(s) IN
       IF AllDone(r, IsService(s))
       THEN IF IsService(s) THEN send_exit_code_and_break(s, r)
            ELSE Goes(s, [r EXCEPT !.pc = "finish"]) /\ UNCHANGED <<ring, open>>
       ELSE /\ Goes(s, IF IsOpen(s) THEN [Switched(r) EXCEPT !.pc = "poll"]
                       ELSE [r EXCEPT !.pc = "drained"])
            /\ UNCHANGED <<ring, open>>

check_drained_never(s) ==
    /\ io[s].pc = "drained"
    /\ Goes(s, [Switched(io[s]) EXCEPT !.pc = "poll"])
    /\ UNCHANGED <<prog, ring, open>>
\* the vchan was found disconnected: leave unless something is still to be done
check_drained(s) ==
    /\ io[s].pc = "drained"
    /\ Goes(s, IF ring[s] = <<>> /\ io[s].stdin_buf = <<>>
               THEN [io[s] EXCEPT !.pc = "finish"]
               ELSE [Switched(io[s]) EXCEPT !.pc = "poll"])
    /\ UNCHANGED <<prog, ring, open>>

\* What stdout is read from, and whether the program has closed it.
OneSocket(s) == HasPid(s) /\ io[s].single
Out(s) == IF OneSocket(s) THEN prog[s].sock ELSE prog[s].out
OutEnd(s) == IF OneSocket(s) THEN ~prog[s].rd ELSE ~prog[s].wr

\* POLLHUP or POLLERR on stdin: a pipe without a reader, a socket that was closed
StdinHup(s) == ~prog[s].rd /\ (io[s].kind \in {"socket", "selfsocket"} => ~prog[s].wr)

\* Local output is polled only while the vchan has room, and after the prefix.
Revents(s) ==
    {f \in {"stdin", "stdout", "stderr"} :
        \/ f = "stdin" /\ io[s].stdin /\ StdinHup(s)
        \/ /\ f = "stdout" /\ io[s].stdout
           /\ Space(s) /\ io[s].prefix = 0 /\ (Out(s) # <<>> \/ OutEnd(s))
        \/ f = "stderr" /\ io[s].stderr /\ Space(s) /\ ~prog[s].err}

SigchldPending(s) == HasPid(s) /\ prog[s].st = "zombie"

\* ppoll() returns for a ready descriptor, the vchan's event or its timeout;
\* a pending SIGCHLD interrupts it if nothing is ready.
ppoll(s) ==
    /\ io[s].pc = "poll"
    /\ Revents(s) # {} \/ ring[s] # <<>> \/ ~SigchldPending(s)
    /\ Goes(s, [io[s] EXCEPT !.pc = "flush", !.rev = Revents(s)])
    /\ UNCHANGED <<prog, ring, open>>
ppoll_eintr(s) ==
    /\ io[s].pc = "poll"
    /\ Revents(s) = {}
    /\ SigchldPending(s)
    /\ Goes(s, [io[s] EXCEPT !.pc = "top", !.sigchld = TRUE])
    /\ UNCHANGED <<prog, ring, open>>

\* A write() to the program's stdin: taken, EAGAIN, or EPIPE
PipeRoom(s) == prog[s].in = <<>>
Broken(s) == ~prog[s].rd
Gives(s, n) == prog' = [prog EXCEPT ![s].in = Append(@, n)]

\* close_stdin() on POLLHUP, then flush_client_data(); with data left in the
\* buffer nothing is received.
flush_on_hup(s) ==
    /\ io[s].pc = "flush"
    /\ "stdin" \in io[s].rev
    /\ close_stdin(s, [io[s] EXCEPT !.rev = @ \ {"stdin"}], ring[s])
    /\ UNCHANGED <<prog, open>>
flush_client_data_closed_is_busy(s) ==
    /\ io[s].pc = "flush"
    /\ "stdin" \notin io[s].rev
    /\ LET r == io[s] IN
       \/ /\ r.stdin /\ r.stdin_buf = <<>>
          /\ Goes(s, [r EXCEPT !.pc = "recv"])
          /\ UNCHANGED prog
       \/ /\ ~r.stdin \/ r.stdin_buf # <<>>
          /\ Goes(s, [r EXCEPT !.pc = "stdout", !.stdin_buf = <<>>])
          /\ UNCHANGED prog
    /\ UNCHANGED <<ring, open>>
flush_client_data(s) ==
    /\ io[s].pc = "flush"
    /\ "stdin" \notin io[s].rev
    /\ LET r == io[s] IN
       \/ /\ ~r.stdin \/ r.stdin_buf = <<>>
          /\ Goes(s, [r EXCEPT !.pc = "recv"])
          /\ UNCHANGED <<prog, ring>>
       \/ /\ r.stdin /\ r.stdin_buf # <<>> /\ Broken(s)
          /\ close_stdin(s, [r EXCEPT !.pc = "stdout"], ring[s])
          /\ UNCHANGED prog
       \/ /\ r.stdin /\ r.stdin_buf # <<>> /\ ~Broken(s) /\ PipeRoom(s)
          /\ Gives(s, Head(r.stdin_buf))
          /\ Goes(s, [r EXCEPT !.stdin_buf = Tail(@)])
          /\ UNCHANGED ring
       \/ /\ r.stdin /\ r.stdin_buf # <<>> /\ ~Broken(s) /\ ~PipeRoom(s)
          /\ Goes(s, [r EXCEPT !.pc = "stdout"])
          /\ UNCHANGED <<prog, ring>>
    /\ UNCHANGED open

\* handle_remote_data_v2(): one round of its loop, with what process_io() does
\* about the result
write_stdin(s, n, in) ==
    \/ /\ Broken(s)
       /\ close_stdin(s, [io[s] EXCEPT !.pc = "stdout"], in)
       /\ UNCHANGED prog
    \/ /\ ~Broken(s) /\ PipeRoom(s)
       /\ Gives(s, n)
       /\ Attempt(s, in, <<>>)
       /\ UNCHANGED io
    \/ /\ ~Broken(s) /\ ~PipeRoom(s)
       /\ Goes(s, [io[s] EXCEPT !.pc = "stdout", !.stdin_buf = Append(@, n)])
       /\ Attempt(s, in, <<>>)
       /\ UNCHANGED prog

discard(s, in) == Attempt(s, in, <<>>) /\ UNCHANGED <<io, prog>>

remote_exited(s, c, in) ==
    /\ Goes(s, StdoutClosed([io[s] EXCEPT !.pc = "stdout", !.remote_status = c]))
    /\ Attempt(s, in, IF io[s].stdout THEN <<Eof>> ELSE <<>>)
    /\ UNCHANGED prog

handle_remote_data_v2(s) ==
    /\ io[s].pc = "recv"
    /\ ring[s] # <<>>
    /\ LET m == Head(ring[s])
           in == Tail(ring[s]) IN
       \/ m.type = "DATA" /\ io[s].stdin /\ write_stdin(s, m.chunk, in)
       \/ /\ m.type = "EOF" /\ io[s].stdin
          /\ close_stdin(s, [io[s] EXCEPT !.pc = "stdout"], in)
          /\ UNCHANGED prog
       \/ m.type \in {"DATA", "EOF"} /\ ~io[s].stdin /\ discard(s, in)
       \/ /\ m.type = "STDERR_EOF" \/ (m.type = "EXIT_CODE" /\ IsService(s))
          /\ discard(s, in)
       \/ m.type = "EXIT_CODE" /\ ~IsService(s) /\ remote_exited(s, m.code, in)
    /\ UNCHANGED open
no_remote_data(s) ==
    /\ io[s].pc = "recv"
    /\ ring[s] = <<>>
    /\ Goes(s, [io[s] EXCEPT !.pc = "stdout"])
    /\ UNCHANGED <<prog, ring, open>>

\* handle_input_v2() for stdout: one round of its loop.  A failure to send
\* data, or to read, ends the process; a failure to send EOF is ignored.
\* Once the prefix is sent, it goes on to read from stdout, even a closed one.
InputWanted(s) == \/ io[s].prefix > 0
                  \/ "prefix" \in io[s].rev
                  \/ io[s].stdout /\ "stdout" \in io[s].rev
no_input(s) ==
    /\ io[s].pc = "stdout"
    /\ \/ ~InputWanted(s)
       \/ ~Space(s)
       \/ io[s].prefix = 0 /\ io[s].stdout /\ Out(s) = <<>> /\ ~OutEnd(s)    \* EAGAIN
    /\ Goes(s, [io[s] EXCEPT !.pc = "stderr"])
    /\ UNCHANGED <<prog, ring, open>>
handle_input_prefix(s) ==
    /\ io[s].pc = "stdout"
    /\ io[s].prefix > 0 /\ Space(s)
    /\ \/ /\ Sent(s, Data(Call.prefix - io[s].prefix + 1))
          /\ Goes(s, [io[s] EXCEPT !.prefix = @ - 1, !.rev = @ \cup {"prefix"}])
          /\ UNCHANGED open
       \/ SendFails(s) /\ handle_vchan_error(s)
    /\ UNCHANGED prog
Taken_peeked(s) == UNCHANGED prog
Taken(s) == prog' = IF OneSocket(s) THEN [prog EXCEPT ![s].sock = Tail(@)]
                    ELSE [prog EXCEPT ![s].out = Tail(@)]
handle_input_v2(s) ==
    /\ io[s].pc = "stdout"
    /\ io[s].prefix = 0 /\ InputWanted(s) /\ Space(s)
    /\ \/ /\ io[s].stdout /\ Out(s) # <<>>
          /\ Taken(s)
          /\ \/ Sent(s, Data(Head(Out(s)))) /\ UNCHANGED <<io, open>>
             \/ SendFails(s) /\ handle_vchan_error(s)
       \/ /\ io[s].stdout /\ Out(s) = <<>> /\ OutEnd(s)
          /\ Attempt(s, ring[s], <<Eof>>)
          /\ Goes(s, StdoutClosed([io[s] EXCEPT !.pc = "stderr"]))
          /\ UNCHANGED <<prog, open>>
       \/ /\ ~io[s].stdout                          \* EBADF
          /\ handle_vchan_error(s)
          /\ UNCHANGED <<prog, ring>>

\* ... and for stderr, where only the end matters here
handle_input_stderr(s) ==
    /\ io[s].pc = "stderr"
    /\ LET r == [io[s] EXCEPT !.pc = "top", !.rev = {}] IN
       IF r.stderr /\ "stderr" \in io[s].rev /\ Space(s)
       THEN Attempt(s, ring[s], <<StderrEof>>) /\ Goes(s, [r EXCEPT !.stderr = FALSE])
       ELSE Goes(s, r) /\ UNCHANGED ring
    /\ UNCHANGED <<prog, open>>

\* After the loop: everything is closed, the child is waited for, the vchan is
\* closed by the caller of process_io().
finish(s) ==
    /\ io[s].pc = "finish"
    /\ Goes(s, [io[s] EXCEPT !.pc = "wait", !.stdin = FALSE, !.stdout = FALSE, !.stderr = FALSE])
    /\ UNCHANGED <<prog, ring, open>>
Result_early_close_is_success(r, service) ==
    IF ~service /\ r.remote_status > 0 THEN r.remote_status
    ELSE IF r.kind = "process" THEN r.local_status ELSE 0
Result(r, service) ==
    IF ~service /\ r.remote_status # 0 THEN r.remote_status
    ELSE IF r.kind = "process" THEN r.local_status ELSE 0
process_io_returns_not_waiting(s) ==
    /\ io[s].pc = "wait"
    /\ Goes(s, Ended(io[s], Result(io[s], IsService(s)), FALSE))
    /\ open' = [open EXCEPT ![s] = FALSE]
    /\ UNCHANGED <<prog, ring>>
process_io_returns(s) ==
    /\ io[s].pc = "wait"
    /\ HasPid(s) => prog[s].st # "running"
    /\ prog' = IF SigchldPending(s) THEN [prog EXCEPT ![s].st = "reaped"] ELSE prog
    /\ LET r == IF SigchldPending(s) THEN [io[s] EXCEPT !.local_status = prog[s].code]
                ELSE io[s]
       IN  Goes(s, Ended(r, Result(r, IsService(s)), FALSE))
    /\ open' = [open EXCEPT ![s] = FALSE]
    /\ UNCHANGED ring

\* handle_new_process_common() without a loop: EOFs, if it failed to start the
\* service, and an exit code
QREXEC_EXIT_PROBLEM == 125
send_stdout_eof(s) ==
    /\ io[s].pc = "stdout_eof"
    /\ Attempt(s, ring[s], <<Eof>>)
    /\ Goes(s, [io[s] EXCEPT !.pc = "stderr_eof"])
    /\ UNCHANGED <<prog, open>>
send_stderr_eof(s) ==
    /\ io[s].pc = "stderr_eof"
    /\ Attempt(s, ring[s], <<StderrEof>>)
    /\ Goes(s, [io[s] EXCEPT !.pc = "exit_code"])
    /\ UNCHANGED <<prog, open>>
send_exit_code(s) ==
    /\ io[s].pc = "exit_code"
    /\ \E c \in IF io[s].kind = "failed" THEN {QREXEC_EXIT_PROBLEM} ELSE {0, QREXEC_EXIT_PROBLEM} :
          /\ prog' = [prog EXCEPT ![s].code = c]
          /\ \/ /\ Sent(s, ExitCode(c))
                /\ Goes(s, Ended(io[s], IF io[s].kind = "failed" THEN c ELSE 0, FALSE))
             \/ /\ SendFails(s)
                /\ Goes(s, IF io[s].kind = "failed" THEN Ended(io[s], c, FALSE)
                           ELSE Ended(io[s], 1, TRUE))
    /\ open' = [open EXCEPT ![s] = FALSE]

killed(s) ==
    /\ s \in Call.kill
    /\ io[s].pc # "returned"
    /\ Goes(s, Ended(io[s], 255, TRUE))
    /\ open' = [open EXCEPT ![s] = FALSE]
    /\ UNCHANGED <<prog, ring>>

-----------------------------------------------------------------------------
(* The local programs *)

Alive(s) == prog[s].st = "running" /\ io[s].kind \notin {"failed", "just_exec"}
ProgStep == UNCHANGED <<io, ring, open>>

prog_write(s) ==
    /\ Alive(s) /\ prog[s].written < DataLimit(s)
    /\ LET n == prog[s].written + 1 IN
       IF prog[s].switched
       THEN /\ prog[s].rd /\ prog[s].sock = <<>>
            /\ prog' = [prog EXCEPT ![s].sock = <<n>>, ![s].written = n]
       ELSE /\ prog[s].wr /\ prog[s].out = <<>> /\ io[s].stdout
            /\ prog' = [prog EXCEPT ![s].out = <<n>>, ![s].written = n]
    /\ ProgStep

prog_read(s) ==
    /\ Alive(s) /\ prog[s].rd /\ prog[s].in # <<>>
    /\ prog' = [prog EXCEPT ![s].got = @ \o prog[s].in, ![s].in = <<>>]
    /\ ProgStep

prog_close_stdout(s) ==
    /\ Alive(s) /\ prog[s].wr
    /\ prog' = [prog EXCEPT ![s].wr = FALSE]
    /\ ProgStep

prog_close_stdin(s) ==
    /\ Alive(s) /\ prog[s].rd
    /\ prog' = [prog EXCEPT ![s].rd = FALSE, ![s].in = <<>>]
    /\ ProgStep

prog_close_stderr(s) ==
    /\ Alive(s) /\ prog[s].err /\ io[s].stderr
    /\ prog' = [prog EXCEPT ![s].err = FALSE]
    /\ ProgStep

prog_exit(s, c) ==
    /\ HasPid(s) /\ Alive(s)
    /\ prog' = [prog EXCEPT ![s] = [@ EXCEPT !.st = "zombie", !.code = c, !.in = <<>>,
                                             !.rd = FALSE, !.wr = FALSE, !.err = FALSE]]
    /\ ProgStep

\* kill -USR1 $QREXEC_AGENT_PID: the handler runs at once, and ppoll(), if it
\* has been entered, is interrupted.  Only the agent's side handles it.
prog_sigusr1(s) ==
    /\ Call.switch /\ HasPid(s) /\ Alive(s) /\ prog[s].rd
    /\ ~prog[s].switched /\ io[s].pc # "returned"
    /\ prog' = [prog EXCEPT ![s].switched = TRUE]
    /\ \/ Goes(s, [io[s] EXCEPT !.sigusr1 = TRUE])
       \/ io[s].pc = "poll" /\ Goes(s, [io[s] EXCEPT !.sigusr1 = TRUE, !.pc = "top"])
    /\ UNCHANGED <<ring, open>>

-----------------------------------------------------------------------------

Loop(s) ==
    \/ start(s)
    \/ loop_top(s)
    \/ check_drained(s)
    \/ ppoll(s)
    \/ ppoll_eintr(s)
    \/ flush_on_hup(s)
    \/ flush_client_data(s)
    \/ handle_remote_data_v2(s)
    \/ no_remote_data(s)
    \/ no_input(s)
    \/ handle_input_prefix(s)
    \/ handle_input_v2(s)
    \/ handle_input_stderr(s)
    \/ finish(s)
    \/ process_io_returns(s)
    \/ send_stdout_eof(s)
    \/ send_stderr_eof(s)
    \/ send_exit_code(s)

Program(s) ==
    \/ prog_write(s)
    \/ prog_read(s)
    \/ prog_close_stdout(s)
    \/ prog_close_stdin(s)
    \/ prog_close_stderr(s)
    \/ \E c \in ExitCodes : prog_exit(s, c)
    \/ prog_sigusr1(s)

Over == (\A s \in Side : io[s].pc = "returned") /\ UNCHANGED vars

Next ==
    \/ \E s \in Side : Loop(s)
    \/ \E s \in Side : Program(s)
    \/ \E s \in Side : killed(s)
    \/ Over

Spec == Init /\ [][Next]_vars

-----------------------------------------------------------------------------
(* Properties *)

\* Every variable has its type.
TypeOK ==
    /\ io \in [Side -> IO]
    /\ prog \in [Side -> Prog]
    /\ ring \in [Side -> Seq(Msg)]
    /\ open \in [Side -> BOOLEAN]

\* What a program reads is a prefix of what the program at the other end (and
\* before it --prefix-data) wrote: no chunk is lost, doubled or overtaken in
\* stdin_buf, whatever is closed when.  (A service that switches to one socket
\* abandons what it left in the pipe.)
InOrder ==
    \A s \in Side : ~prog[Other(s)].switched => \A i \in DOMAIN prog[s].got : prog[s].got[i] = i

\* A caller that got the exit code of the service has got all its output,
\* unless the caller's own consumer stopped reading, or the service is
\* configured to be cut off when the caller's input ends.
OutputComplete ==
    LET r == io["client"] IN
    /\ r.pc = "returned" /\ ~r.died /\ r.remote_status # NoStatus
    /\ prog["client"].rd /\ "stdin" \notin io["service"].mode /\ ~prog["service"].switched
    => Len(prog["client"].got \o prog["client"].in) = prog["service"].written

\* Success is reported only for a service that succeeded: 0 is returned only
\* when exit code 0 was received, and a status received is the service's.
SuccessIsReal ==
    LET r == io["client"] IN
    /\ r.remote_status # NoStatus =>
          r.remote_status = IF io["service"].kind = "socket" THEN 0 ELSE prog["service"].code
    /\ r.pc = "returned" /\ r.ret = 0 => r.remote_status = 0

\* The end of the output precedes the exit code, also for a service that
\* could not be started: once the exit code is known, stdin is closed.
EofBeforeExitCode ==
    io["client"].remote_status # NoStatus /\ io["service"].kind # "just_exec" => ~io["client"].stdin

\* A status that a child has was collected by waitpid() once, and no loop
\* ends without its child.
ChildCollected ==
    \A s \in Side : io[s].pc = "returned" /\ ~io[s].died /\ HasPid(s) =>
        prog[s].st = "reaped" /\ io[s].local_status = prog[s].code

LeftLoop(s) == io[s].pc \in {"finish", "wait", "returned"}

\* The loop ends when the vchan is disconnected and all incoming data was
\* processed (comment on the check), except with data buffered for a stdin
\* that is closed: flush_client_data() then never empties the buffer.
DisconnectEndsLoopUnlessBuffered ==
    \A s \in Side : (~IsOpen(s) /\ ring[s] = <<>>) ~>
        (LeftLoop(s) \/ (~io[s].stdin /\ io[s].stdin_buf # <<>>))

\* When the service is over, the caller returns.
CallerReturns == (io["service"].pc = "returned" /\ ~io["service"].died) ~> io["client"].pc = "returned"

-----------------------------------------------------------------------------
(* Fairness: both loops run, a program reads what it is given unless it has  *)
(* closed its stdin, and a child whose stdin was closed exits in the end.    *)
Fairness ==
    \A s \in Side :
        /\ WF_vars(Loop(s))
        /\ WF_vars(prog_read(s))
        /\ WF_vars(~io[s].stdin /\ \E c \in ExitCodes : prog_exit(s, c))
FairSpec == Spec /\ Fairness

=============================================================================
