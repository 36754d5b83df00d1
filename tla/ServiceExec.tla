----------------------------- MODULE ServiceExec -----------------------------
(***************************************************************************)
(* How one received command becomes a running service: parse the command,  *)
(* load the service's configuration, wait for the GUI session, choose      *)
(* between the fork server and a child of the agent, look the service up   *)
(* in the service directories, connect to a socket or start a process, and *)
(* in that process look the service up a second time (qubes-rpc-multi-     *)
(* plexer).  "vm" is qrexec-agent, "dom0" is run_qrexec_to_dom0.           *)
(*                                                                         *)
(* A lookup is one step per stat(2): the directories belong to other       *)
(* programs (a package upgrade, the user), whose changes come in between.  *)
(*                                                                         *)
(* The request, the configuration files and the service files are picked   *)
(* in Init from Scenarios.  Text is abstracted to what the code tells      *)
(* apart: a command is a service call, a shell command or malformed; a     *)
(* configuration file is a sequence of lines [key, type, value].           *)
(***************************************************************************)
EXTENDS Integers, Sequences, FiniteSets, FiniteSetsExt

CONSTANTS
    NDirs,          \* directories of QREXEC_SERVICE_PATH (and of the config path)
    Scenarios,      \* the requests and file systems to consider
    User,           \* user names of the VM that exist
    None            \* a value that is nothing else

ASSUME DirsAssumption == NDirs \in Nat \ {0}

Dir == 1..NDirs

\* The two names a service is looked up under: "SERVICE+ARG" (the descriptor)
\* and "SERVICE".
Candidate == Dir \X {"full", "name"}

\* What stat(2), lstat(2) and readlink(2) tell about a path.  "dangling" is a
\* link to nowhere, "error" any failure but ENOENT, "empty" an executable of
\* size 0, "plain" a file without execute permission, "dir" a directory.
FileKind == {"absent", "dangling", "error", "socket", "tcp", "tcp_host",
             "tcp_host_port", "exec", "empty", "plain", "dir"}

\* The argument of a call: not given, or text with an optional host part
\* ("HOST+") and digits (10 stands for any other character).
Argument == [given: BOOLEAN, host: {"none", "addr", "under_score"}, port: Seq(0..10)]

\* A received command and what its text turns out to be.
Request == [site: {"vm", "dom0"}, type: {"EXEC_CMDLINE", "JUST_EXEC"},
            text: {"service", "shell", "malformed"}, user: STRING,
            nogui: BOOLEAN, long: BOOLEAN, tokens: 1..15]

\* What parse_toml_value makes of the text after "=": "invalid" stands for every
\* line or value it refuses.
toml_type == {"bool", "int", "string", "invalid"}
IsLine(line) ==
    /\ line.key \in STRING /\ line.type \in toml_type
    /\ line.type = "bool" => line.value \in BOOLEAN
    /\ line.type = "int" => line.value \in Int
    /\ line.type = "string" => line.value \in STRING

\* A parsed command, the state of a configuration parse, and an address.
qrexec_parsed_command ==
    [username : STRING \cup {None}, nogui : BOOLEAN, service : BOOLEAN,
     wait_for_session : BOOLEAN, send_service_descriptor : BOOLEAN,
     exit_on_stdin_eof : BOOLEAN, exit_on_stdout_eof : BOOLEAN]
Settings == [wait_for_session : BOOLEAN, send_service_descriptor : BOOLEAN,
             exit_on_stdin_eof : BOOLEAN, exit_on_stdout_eof : BOOLEAN,
             forced : STRING \cup {None}]
Parse == [seen : SUBSET STRING, set : Settings]
Address == [host : {"link", "argument"}, port : Seq(0..10) \cup {None}]

\* config is a function of the same names in the configuration directories: the
\* result of looking there ("absent", "error", "file") and the file's lines,
\* records [key, type, value].  multiplexer is "ok", "absent" or "junk"; edits
\* bounds the files that change during the call.
ASSUME ScenariosAssumption ==
    \A s \in Scenarios :
        /\ s.request \in Request /\ s.arg \in Argument
        /\ s.files \in [Candidate -> FileKind]
        /\ s.servers \subseteq User
        /\ s.multiplexer \in {"ok", "absent", "junk"} /\ s.edits \in Nat
        /\ \A c \in Candidate :
            /\ s.config[c].stat \in {"absent", "error", "file"}
            /\ Len(s.config[c].lines) \in Nat
            /\ DOMAIN s.config[c].lines = 1..Len(s.config[c].lines)
            /\ \A i \in DOMAIN s.config[c].lines : IsLine(s.config[c].lines[i])

ASSUME NoneAssumption ==
    /\ None \notin Int /\ None \notin STRING /\ None \notin Candidate
    /\ None \notin [at : Candidate, kind : FileKind]
    /\ None \notin qrexec_parsed_command
    /\ None \notin Parse
    /\ None \notin Address

VARIABLES
    scenario,   \* what Init picked (never changes)
    files,      \* [Candidate -> FileKind], the service directories
    edited,     \* the candidates that changed since the request came
    pc,         \* where the request is
    cmd,        \* struct qrexec_parsed_command, None for NULL
    servers,    \* the users with a qrexec-fork-server
    served,     \* TRUE when the fork server runs the request
    pos,        \* position of the lookup in progress
    found,      \* what find_file returned: [at, kind] or None
    session,    \* "none", "waiting", "over", "failed"
    started,    \* what was started for the request, None if nothing
    code        \* exit code reported to the caller: a number, Own or Lost

vars == <<scenario, files, edited, pc, cmd, servers, served, pos, found,
          session, started, code>>

\* The service's own exit code, and none because the call's process is gone.
Own == -1
Lost == -2

req == scenario.request
arg == scenario.arg

-----------------------------------------------------------------------------
(* Parsing the command and the configuration *)

\* The defaults parse_qubes_rpc_command leaves in a new command.
parse_qubes_rpc_command(user) ==
    IF req.text = "malformed" THEN None
    ELSE [username |-> user, nogui |-> req.nogui, service |-> req.text = "service",
          wait_for_session |-> FALSE, send_service_descriptor |-> TRUE,
          exit_on_stdin_eof |-> FALSE, exit_on_stdout_eof |-> FALSE]

BoolKeys == {"wait-for-session", "exit-on-client-eof", "exit-on-service-eof",
             "skip-service-descriptor"}

\* wait-for-session may also be 0 or 1; force-user is a string.
Accepts(line) ==
    \/ line.key \in BoolKeys /\ line.type = "bool"
    \/ line.key = "wait-for-session" /\ line.type = "int" /\ line.value < 2
    \/ line.key = "force-user" /\ line.type = "string"

Assign(set, line) ==
    CASE line.key = "wait-for-session" ->
            [set EXCEPT !.wait_for_session = IF line.type = "int" THEN line.value = 1 ELSE line.value]
      [] line.key = "exit-on-client-eof"  -> [set EXCEPT !.exit_on_stdin_eof = line.value]
      [] line.key = "exit-on-service-eof" -> [set EXCEPT !.exit_on_stdout_eof = line.value]
      [] line.key = "skip-service-descriptor" -> [set EXCEPT !.send_service_descriptor = ~line.value]
      [] line.key = "force-user" -> [set EXCEPT !.forced = line.value]

\* One line: acc is None after an error.  A key that is not known is only logged.
ParseLine(acc, line) ==
    IF acc = None \/ line.type = "invalid" THEN None
    ELSE IF line.key \notin BoolKeys \cup {"force-user"} THEN acc
    ELSE IF line.key \in acc.seen \/ ~Accepts(line) THEN None
    ELSE [seen |-> acc.seen \cup {line.key}, set |-> Assign(acc.set, line)]

\* The state after each line of the file.
Parses(start, lines) ==
    LET acc[n \in 0..Len(lines)] == IF n = 0 THEN start ELSE ParseLine(acc[n - 1], lines[n])
    IN  acc

qubes_toml_config_parse(command, lines) ==
    LET set == [wait_for_session |-> FALSE, send_service_descriptor |-> TRUE,
                exit_on_stdin_eof |-> command.exit_on_stdin_eof,
                exit_on_stdout_eof |-> command.exit_on_stdout_eof, forced |-> None]
    IN  Parses([seen |-> {}, set |-> set], lines)[Len(lines)]

\* find_file's order: one name in all the directories, then the other.
Order == [i \in 1..2 * NDirs |->
            IF i <= NDirs THEN <<i, "full">> ELSE <<i - NDirs, "name">>]

Skipped_never(c) == FALSE

\* A name longer than NAME_MAX cannot exist: find_file does not look for it.
Skipped(c) == c[2] = "full" /\ req.long

\* The configuration file that find_file settles on: a member of Candidate, or
\* None when there is none.
ConfigFile ==
    LET there == {i \in DOMAIN Order : ~Skipped(Order[i])
                                       /\ scenario.config[Order[i]].stat # "absent"}
    IN  IF there = {} THEN None ELSE Order[Min(there)]

\* force-user goes with none of the settings meant for sockets.
load_service_config_v2(command) ==
    IF ConfigFile = None THEN command
    ELSE IF scenario.config[ConfigFile].stat = "error" THEN None
    ELSE LET acc == qubes_toml_config_parse(command, scenario.config[ConfigFile].lines)
             set == acc.set
         IN  IF acc = None THEN None
             ELSE IF /\ set.forced # None
                     /\ \/ ~set.send_service_descriptor
                        \/ set.exit_on_stdin_eof
                        \/ set.exit_on_stdout_eof
             THEN None
             ELSE [command EXCEPT
                    !.username = IF set.forced = None THEN @ ELSE set.forced,
                    !.wait_for_session = set.wait_for_session,
                    !.send_service_descriptor = set.send_service_descriptor,
                    !.exit_on_stdin_eof = set.exit_on_stdin_eof,
                    !.exit_on_stdout_eof = set.exit_on_stdout_eof]

-----------------------------------------------------------------------------
(* Receiving the command *)

Init ==
    /\ scenario \in Scenarios
    /\ files = scenario.files
    /\ servers = scenario.servers
    /\ edited = {}
    /\ pc = "received"
    /\ cmd = None
    /\ served = FALSE
    /\ pos = 1
    /\ found = None
    /\ session = "none"
    /\ started = None
    /\ code = None

\* The call ends with an exit code that is not the service's.
Report(c) ==
    /\ code' = IF code = None THEN c ELSE code
    /\ pc' = "end"

\* The command a site keeps after it has read the configuration.
Configured(command) ==
    IF command = None \/ ~command.service THEN command
    ELSE load_service_config_v2(command)

\* qrexec-agent: parse, configure, and postpone the request when the service
\* needs a session ("nogui:" has priority).  Without a pipe, a process or a
\* free slot the request goes on at once.  A request that cannot be parsed or
\* configured goes on with no command.
handle_server_exec_request_init ==
    /\ pc = "received" /\ req.site = "vm"
    /\ cmd' = Configured(parse_qubes_rpc_command(req.user))
    /\ IF cmd' # None /\ cmd'.service /\ ~cmd'.nogui /\ cmd'.wait_for_session
       THEN \/ pc' = "session" /\ session' = "waiting"
            \/ pc' = "dispatch" /\ session' = "failed"
       ELSE pc' = "dispatch" /\ UNCHANGED session
    /\ UNCHANGED <<scenario, files, edited, servers, served, pos, found, started, code>>

\* dom0: a "nogui:" command loads no configuration; a service that needs a
\* session waits for it in the process that runs the call.
wait_for_session_maybe ==
    /\ pc = "received" /\ req.site = "dom0"
    /\ LET command == parse_qubes_rpc_command(None)
           configured == IF command = None \/ command.nogui THEN command
                         ELSE Configured(command)
       IN  IF configured = None
           THEN Report(125) /\ UNCHANGED <<cmd, session>>
           ELSE /\ cmd' = configured
                /\ IF configured.wait_for_session
                   THEN \/ pc' = "session" /\ session' = "waiting" /\ UNCHANGED code
                        \/ Report(125) /\ session' = "failed"
                   ELSE pc' = "find" /\ UNCHANGED <<session, code>>
    /\ UNCHANGED <<scenario, files, edited, servers, served, pos, found, started>>

\* qubes.WaitForSession ended, whatever its status.
session_over ==
    /\ pc = "session"
    /\ session' = "over"
    /\ pc' = IF req.site = "vm" THEN "dispatch" ELSE "find"
    /\ UNCHANGED <<scenario, files, edited, cmd, servers, served, pos, found, started, code>>

-----------------------------------------------------------------------------
(* Fork server or child *)

qrexec_cmd_use_fork_server_with_gui(command) ==
    IF command = None THEN FALSE ELSE ~command.nogui

\* The fork server reads no configuration, so it gets a command only when the
\* configuration asks for nothing it would have to know.
qrexec_cmd_use_fork_server(command) ==
    IF command = None THEN FALSE
    ELSE /\ ~command.nogui
         /\ command.send_service_descriptor
         /\ ~command.exit_on_stdin_eof
         /\ ~command.exit_on_stdout_eof

\* try_fork_server of the user the service is to run as; when there is none,
\* or it goes away before it has the whole command, the agent's own child runs
\* the command.
handle_server_exec_request_do ==
    /\ pc = "dispatch"
    /\ \/ /\ qrexec_cmd_use_fork_server(cmd)
          /\ cmd.username \in servers
          /\ \/ pc' = "fork_server" /\ UNCHANGED servers
             \/ pc' = "child" /\ servers' = servers \ {cmd.username}
       \/ /\ IF qrexec_cmd_use_fork_server(cmd) THEN cmd.username \notin servers ELSE TRUE
          /\ pc' = "child"
          /\ UNCHANGED servers
    /\ UNCHANGED <<scenario, files, edited, cmd, served, pos, found, session, started, code>>

\* The fork server parses the command again, without the user name, or dies
\* before it does.
handle_single_command ==
    /\ pc = "fork_server"
    /\ \/ /\ cmd' = parse_qubes_rpc_command(cmd.username)
          /\ served' = TRUE
          /\ pc' = "child"
          /\ UNCHANGED <<servers, code>>
       \/ /\ servers' = servers \ {cmd.username}
          /\ Report(Lost)
          /\ UNCHANGED <<cmd, served>>
    /\ UNCHANGED <<scenario, files, edited, pos, found, session, started>>

\* The process of the call connects the data vchan; with no command it can
\* only report that.
handle_new_process_common ==
    /\ pc = "child"
    /\ \/ Report(Lost)
       \/ cmd = None /\ Report(125)
       \/ cmd # None /\ pc' = "find" /\ UNCHANGED code
    /\ UNCHANGED <<scenario, files, edited, cmd, servers, served, pos, found, session, started>>

-----------------------------------------------------------------------------
(* find_qrexec_service *)

\* One lstat(2), with the stat(2) of a link's target.
find_file ==
    /\ pc = "find" /\ cmd.service
    /\ LET c == Order[pos]
           next == IF Skipped(c) THEN NDirs + 1 ELSE pos + 1
       IN  IF Skipped(c) \/ files[c] \in {"absent", "dangling"}
           THEN IF next > Len(Order)
                THEN Report(127) /\ UNCHANGED <<pos, found>>
                ELSE pos' = next /\ UNCHANGED <<pc, code, found>>
           ELSE IF files[c] = "error"
           THEN Report(125) /\ UNCHANGED <<pos, found>>
           ELSE /\ found' = [at |-> c, kind |-> files[c]]
                /\ pc' = "found"
                /\ UNCHANGED <<pos, code>>
    /\ UNCHANGED <<scenario, files, edited, cmd, servers, served, session, started>>

MAXPORT == <<6, 5, 5, 3, 5>>

validate_port_by_length(p) ==
    /\ p # <<>>
    /\ p[1] \in 1..9
    /\ \A i \in 2..Len(p) : p[i] \in 0..9
    /\ Len(p) <= Len(MAXPORT)

\* The comparison with MAXPORT is memcmp's.
validate_port(p) ==
    /\ p # <<>>
    /\ p[1] \in 1..9
    /\ \A i \in 2..Len(p) : p[i] \in 0..9
    /\ \/ Len(p) < Len(MAXPORT)
       \/ /\ Len(p) = Len(MAXPORT)
          /\ \/ p = MAXPORT
             \/ \E i \in 1..Len(p) : /\ p[i] < MAXPORT[i]
                                     /\ \A j \in 1..i - 1 : p[j] = MAXPORT[j]

EmptyArgument == ~arg.given \/ (arg.host = "none" /\ arg.port = <<>>)

\* The address a /dev/tcp link and the argument make, None when they make none.
\* A link with a port takes no argument; a port given as the argument cannot
\* contain "+"; a host given in the argument has no underscore.
tcp_address(kind) ==
    CASE kind = "tcp_host_port" ->
            IF EmptyArgument THEN [host |-> "link", port |-> None] ELSE None
      [] kind = "tcp_host" ->
            IF ~EmptyArgument /\ arg.host = "none" /\ validate_port(arg.port)
            THEN [host |-> "link", port |-> arg.port] ELSE None
      [] kind = "tcp" ->
            IF ~EmptyArgument /\ arg.host = "addr" /\ validate_port(arg.port)
            THEN [host |-> "argument", port |-> arg.port] ELSE None

\* A socket takes its settings from the command as it is.  A call that only
\* starts the service is over once the descriptor is written.
Connected(how, at, address) ==
    /\ started' = [how |-> how, at |-> at, address |-> address, username |-> None,
                   descriptor |-> cmd.send_service_descriptor,
                   stdin_eof |-> cmd.exit_on_stdin_eof,
                   stdout_eof |-> cmd.exit_on_stdout_eof]
    /\ Report(IF req.type = "JUST_EXEC" THEN 0 ELSE Own)

connect_service ==
    /\ pc = "found" /\ found.kind \in {"socket", "tcp", "tcp_host", "tcp_host_port"}
    /\ \/ Report(125) /\ UNCHANGED started
       \/ /\ found.kind = "socket" /\ files[found.at] = "socket"
          /\ Connected("socket", found.at, None)
       \/ /\ found.kind # "socket" /\ tcp_address(found.kind) # None
          /\ Connected("tcp", found.at, tcp_address(found.kind))
    /\ UNCHANGED <<scenario, files, edited, cmd, servers, served, pos, found, session>>

\* do_fork_exec, or handle_just_exec's fork, which reports 0 at once.
Fork ==
    \/ Report(125)
    \/ /\ pc' = "exec"
       /\ code' = IF req.type = "JUST_EXEC" THEN 0 ELSE code

\* An executable service ignores the settings meant for sockets.  euidaccess(2)
\* takes a directory for one.
fork_service ==
    /\ pc = "found" /\ found.kind \in {"exec", "empty", "plain", "dir"}
    /\ IF files[found.at] \in {"exec", "empty", "dir"}
       THEN /\ cmd' = [cmd EXCEPT !.exit_on_stdin_eof = FALSE, !.exit_on_stdout_eof = FALSE]
            /\ Fork
       ELSE Report(125) /\ UNCHANGED cmd
    /\ UNCHANGED <<scenario, files, edited, servers, served, pos, found, session, started>>

\* A command that is not a service call goes to the user's shell.
fork_shell ==
    /\ pc = "find" /\ ~cmd.service
    /\ Fork
    /\ UNCHANGED <<scenario, files, edited, cmd, servers, served, pos, found, session, started>>

-----------------------------------------------------------------------------
(* The process of an executable service *)

\* Who the process runs as: the agent changes to the user of the command, the
\* fork server and dom0 stay who they are.
RunsAs == IF req.site = "dom0" THEN "dom0" ELSE cmd.username

\* The user exists, as far as that matters.
CanLogIn == req.site = "dom0" \/ served \/ cmd.username \in User

\* exec_qubes_rpc_if_requested: a service is run by qubes-rpc-multiplexer.
\* There is a limit on its arguments; it may be missing, or no program.
exec_qubes_rpc_if_requested ==
    /\ IF req.tokens > 14 \/ scenario.multiplexer = "junk" THEN Report(125)
       ELSE IF scenario.multiplexer = "absent" THEN Report(127)
       ELSE pc' = "multiplexer" /\ UNCHANGED code
    /\ pos' = 1
    /\ UNCHANGED started

\* What the process ends with when it gets no further than do_exec: in the
\* agent's do_exec, which logs the user in (PAM), much can fail; the others
\* can only fail to execute the shell.
ExecFailures ==
    IF req.site = "vm" /\ ~served THEN {1, 125}
    ELSE IF cmd.service THEN {}
    ELSE IF served THEN {1} ELSE {125}

do_exec ==
    /\ pc = "exec"
    /\ \/ /\ \E c \in ExecFailures : Report(c)
          /\ UNCHANGED <<pos, started>>
       \/ /\ CanLogIn
          /\ ~cmd.service
          /\ started' = [how |-> "shell", at |-> None, address |-> None, username |-> RunsAs,
                         descriptor |-> FALSE, stdin_eof |-> FALSE, stdout_eof |-> FALSE]
          /\ Report(Own)
          /\ UNCHANGED pos
       \/ /\ CanLogIn
          /\ cmd.service
          /\ exec_qubes_rpc_if_requested
    /\ UNCHANGED <<scenario, files, edited, cmd, servers, served, found, session>>

MultiplexerOrder_without_plus == [i \in 1..2 * NDirs |->
    <<(i + 1) \div 2, IF i % 2 = 1 /\ arg.given THEN "full" ELSE "name">>]

\* The multiplexer's order: both names in one directory, then the next one.
\* Without an argument it too looks for "SERVICE+" first.
MultiplexerOrder == [i \in 1..2 * NDirs |->
                        <<(i + 1) \div 2, IF i % 2 = 1 THEN "full" ELSE "name">>]

\* [ -s FILE ]: there is such a file and its size is not 0, which a directory's
\* is not either.
NonEmpty(c) == ~Skipped(c) /\ files[c] \in {"exec", "plain", "dir"}

\* One test of the loop.  The last candidate is executed whatever it is.
multiplexer ==
    /\ pc = "multiplexer"
    /\ IF req.tokens \notin {2, 4}
       THEN Report(1) /\ UNCHANGED pos
       ELSE IF NonEmpty(MultiplexerOrder[pos]) \/ pos = Len(MultiplexerOrder)
       THEN pc' = "run" /\ UNCHANGED <<pos, code>>
       ELSE pos' = pos + 1 /\ UNCHANGED <<pc, code>>
    /\ UNCHANGED <<scenario, files, edited, cmd, servers, served, found, session, started>>

\* exec "$CFG_FILE": the shell ends with 126 when it cannot, and with 127 when
\* there is no such file.
run_file ==
    /\ pc = "run"
    /\ LET c == MultiplexerOrder[pos]
       IN  IF files[c] \in {"exec", "empty"} /\ ~Skipped(c)
           THEN /\ started' = [how |-> "file", at |-> c, address |-> None, username |-> RunsAs,
                               descriptor |-> TRUE,
                               stdin_eof |-> cmd.exit_on_stdin_eof,
                               stdout_eof |-> cmd.exit_on_stdout_eof]
                /\ Report(Own)
           ELSE /\ Report(IF files[c] \in {"absent", "dangling"} THEN 127 ELSE 126)
                /\ UNCHANGED started
    /\ UNCHANGED <<scenario, files, edited, cmd, servers, served, pos, found, session>>

-----------------------------------------------------------------------------
(* Everybody else *)

\* Some other program puts a file in place or removes one.
install(c, kind) ==
    /\ pc # "end"
    /\ Cardinality(edited) < scenario.edits
    /\ c \notin edited /\ ~Skipped(c)
    /\ kind # files[c]
    /\ files' = [files EXCEPT ![c] = kind]
    /\ edited' = edited \cup {c}
    /\ UNCHANGED <<scenario, pc, cmd, servers, served, pos, found, session, started, code>>

Next ==
    \/ handle_server_exec_request_init
    \/ wait_for_session_maybe
    \/ session_over
    \/ handle_server_exec_request_do
    \/ handle_single_command
    \/ handle_new_process_common
    \/ find_file
    \/ connect_service
    \/ fork_service
    \/ fork_shell
    \/ do_exec
    \/ multiplexer
    \/ run_file
    \/ \E c \in Candidate, kind \in {"absent", "exec", "socket"} : install(c, kind)

Spec == Init /\ [][Next]_vars

-----------------------------------------------------------------------------
(* Properties *)

\* What may be on the disk under a name: a name over NAME_MAX never is.
CanExist(c) == ~(c[2] = "full" /\ req.long)
Missing(c) == ~CanExist(c) \/ files[c] = "absent"

\* The service directories are searched for "SERVICE+ARG" in every directory
\* and only then for "SERVICE" (find_qrexec_service, find_file): among the
\* files nobody touched in the meantime, the one found is the first in that
\* order and of the kind it was taken for; "not found" (127) is reported only
\* if all are missing, and a failed search (125) only if some path really
\* cannot be read - a name that is too long is not such a path.  Nothing is
\* said of a search with a dangling link among the paths: find_file passes it,
\* while its comment calls it an error.
LookupOrder ==
    (\A c \in Candidate : files[c] # "dangling") =>
        /\ found # None =>
            /\ \A i, j \in DOMAIN Order :
                (Order[j] = found.at /\ i < j /\ Order[i] \notin edited) => Missing(Order[i])
            /\ found.at \notin edited => found.kind = files[found.at]
        /\ (found = None /\ code = 127) => \A c \in Candidate \ edited : Missing(c)
        /\ (found = None /\ code = 125 /\ cmd # None /\ session # "failed") =>
            \/ ~cmd.service
            \/ \E c \in Candidate : CanExist(c) /\ (c \in edited \/ files[c] = "error")

\* qubes-rpc-multiplexer looks the service up again, in another order and with
\* another test than find_file.  As long as no file changes it executes the
\* very file that was found, with two exceptions: the file found is empty, or
\* it is a "SERVICE+ARG" and a directory before its own has a "SERVICE".
MultiplexerAgrees ==
    (pc = "run" /\ edited = {}) =>
        LET c == MultiplexerOrder[pos]
        IN  \/ c = found.at
            \/ files[found.at] = "empty"
            \/ c[2] = "name" /\ found.at[2] = "full" /\ c[1] < found.at[1]

\* The lines of the configuration that applies.  "nogui:" commands in dom0
\* load none.
Lines ==
    IF ConfigFile = None \/ (req.site = "dom0" /\ req.nogui) THEN <<>>
    ELSE scenario.config[ConfigFile].lines

IsSet(key) ==
    \E i \in DOMAIN Lines :
        /\ Lines[i].key = key
        /\ IF Lines[i].type = "int" THEN Lines[i].value = 1 ELSE Lines[i].value

ForcedUser == {Lines[i].value : i \in {j \in DOMAIN Lines : Lines[j].key = "force-user"}}

\* Whatever way the request took - direct or through the fork server, which
\* reads no configuration, at once or after the session wait - a service runs
\* with the settings of its configuration file: the user, the descriptor sent
\* to a socket, the ends of file that end the call, and the wait for the
\* session (unless no waiting process could be made).  No service runs with a
\* configuration that is in error.
OutcomeAsConfigured ==
    (started # None /\ cmd.service) =>
        /\ \A i, j \in DOMAIN Lines :
            /\ Lines[i].type # "invalid"
            /\ (i # j /\ Lines[i].key = Lines[j].key) => Lines[i].key \notin BoolKeys \cup {"force-user"}
        /\ started.how \in {"socket", "tcp"} =>
            /\ started.descriptor = ~IsSet("skip-service-descriptor")
            /\ started.stdin_eof = IsSet("exit-on-client-eof")
            /\ started.stdout_eof = IsSet("exit-on-service-eof")
            /\ ForcedUser = {} \/ (started.descriptor /\ ~started.stdin_eof /\ ~started.stdout_eof)
        /\ started.how = "file" =>
            /\ ~started.stdin_eof /\ ~started.stdout_eof
            /\ req.site = "vm" =>
                IF ForcedUser = {} THEN started.username = req.user
                ELSE started.username \in ForcedUser
        /\ (IsSet("wait-for-session") /\ ~req.nogui) => session \in {"over", "failed"}

\* The number a port text stands for.
Numbers(p) ==
    LET number[n \in 0..Len(p)] == IF n = 0 THEN 0 ELSE 10 * number[n - 1] + p[n]
    IN  number
PortNumber(p) == Numbers(p)[Len(p)]
IsPort(p) == /\ p # <<>> /\ \A i \in DOMAIN p : p[i] < 10
             /\ p[1] # 0 /\ PortNumber(p) <= 65535

\* A /dev/tcp link connects to the address it and the argument name: a port
\* from the argument is a decimal number from 1 to 65535 without leading zeros
\* and every such number is accepted (validate_port compares text); a host
\* comes from the argument only when the link has none.  Nothing is said of an
\* argument for a link that has both: the code refuses it, the documentation
\* says that it is ignored.
EndpointAsNamed ==
    (pc = "found" /\ found.kind \in {"tcp", "tcp_host", "tcp_host_port"}) =>
        LET address == tcp_address(found.kind)
        IN  CASE found.kind = "tcp_host_port" ->
                    EmptyArgument => address = [host |-> "link", port |-> None]
              [] found.kind = "tcp_host" ->
                    IF arg.given /\ arg.host = "none" /\ IsPort(arg.port)
                    THEN address = [host |-> "link", port |-> arg.port]
                    ELSE address = None
              [] found.kind = "tcp" ->
                    IF arg.given /\ arg.host = "addr" /\ IsPort(arg.port)
                    THEN address = [host |-> "argument", port |-> arg.port]
                    ELSE address = None

====
