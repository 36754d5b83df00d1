---------------------------- MODULE MCServiceExec ----------------------------
(***************************************************************************)
(* Five families of scenarios for ServiceExec, each about one part of the  *)
(* way from a command to a service.                                        *)
(***************************************************************************)
EXTENDS ServiceExec

TheUsers == {"user", "root"}

Call == [site |-> "vm", type |-> "EXEC_CMDLINE", text |-> "service", user |-> "user",
         nogui |-> FALSE, long |-> FALSE, tokens |-> 2]
NoArgument == [given |-> FALSE, host |-> "none", port |-> <<>>]
Port(p) == [given |-> TRUE, host |-> "none", port |-> p]
NoConfig == [c \in Candidate |-> [stat |-> "absent", lines |-> <<>>]]
One(c, kind) == [x \in Candidate |-> IF x = c THEN kind ELSE "absent"]

Base == [request |-> Call, arg |-> NoArgument, config |-> NoConfig,
         files |-> One(<<2, "name">>, "exec"), servers |-> {}, multiplexer |-> "ok", edits |-> 0]

\* Every content of the directories; a name that is too long fails in lstat(2).
LookupScenarios ==
    {[Base EXCEPT !.files = f] :
        f \in [Candidate -> {"absent", "dangling", "error", "socket", "exec", "empty", "plain", "dir"}]}
    \cup {[Base EXCEPT !.files = f, !.request.long = TRUE] :
        f \in {g \in [Candidate -> {"absent", "error", "exec"}] :
                \A c \in Candidate : c[2] = "full" => g[c] = "error"}}

\* Files that come and go while the call is under way.
EditScenarios ==
    {[Base EXCEPT !.files = f, !.edits = 2] : f \in [Candidate -> {"absent", "exec", "socket"}]}

Ports == {<<>>, <<0>>, <<8, 0>>, <<0, 8>>, <<8, 10>>, <<9, 9, 9, 9>>, <<1, 0, 0, 0, 0>>,
          <<6, 5, 5, 3, 5>>, <<6, 5, 5, 3, 6>>, <<6, 5, 6, 0, 0>>, <<6, 4, 9, 9, 9>>,
          <<5, 9, 9, 9, 9>>, <<7, 0, 0, 0, 0>>, <<1, 0, 0, 0, 0, 0>>}

\* The forms of a /dev/tcp link and of the argument.
TcpScenarios ==
    {[Base EXCEPT !.files = One(<<2, "name">>, kind), !.arg = a] :
        kind \in {"tcp", "tcp_host", "tcp_host_port"},
        a \in {NoArgument} \cup
              {[given |-> TRUE, host |-> h, port |-> p] :
                    h \in {"none", "addr", "under_score"}, p \in Ports}}

Entry(k, t, v) == [key |-> k, type |-> t, value |-> v]
SomeLines == {Entry(k, "bool", TRUE) : k \in BoolKeys}
    \cup {Entry("force-user", "string", "root"), Entry("force-user", "string", "ghost"),
          Entry("force-user", "bool", TRUE), Entry("wait-for-session", "int", 1),
          Entry("wait-for-session", "int", 2), Entry("skip-service-descriptor", "bool", FALSE),
          Entry("unknown", "bool", TRUE), Entry("", "invalid", FALSE)}
ConfigTexts == {<<>>} \cup {<<a>> : a \in SomeLines} \cup {<<a, b>> : a, b \in SomeLines}

\* Every pair of configuration lines, at both sites, for a socket and for an
\* executable, with and without fork servers.
ConfigScenarios ==
    {[Base EXCEPT !.request = [r EXCEPT !.tokens = IF r.site = "dom0" THEN 4 ELSE 2],
                  !.files = One(<<1, "name">>, kind), !.servers = s,
                  !.config[<<2, "full">>] = [stat |-> "file", lines |-> text]] :
        r \in {[Call EXCEPT !.site = site, !.nogui = nogui, !.type = type] :
                site \in {"vm", "dom0"}, nogui \in BOOLEAN,
                type \in {"EXEC_CMDLINE", "JUST_EXEC"}} \ {[Call EXCEPT !.site = "dom0", !.nogui = nogui, !.type = "JUST_EXEC"] : nogui \in BOOLEAN},
        kind \in {"socket", "exec"}, s \in {{}, {"user", "root"}}, text \in ConfigTexts}

\* Commands that are not service calls, or not well formed ones; a user that
\* does not exist; a broken multiplexer; unreadable configuration.
OtherScenarios ==
    {[Base EXCEPT !.request = r, !.multiplexer = m, !.servers = s] :
        r \in {[Call EXCEPT !.text = text, !.user = u, !.tokens = n, !.site = site] :
                text \in {"service", "shell", "malformed"}, u \in {"user", "ghost"},
                n \in {2, 3, 4, 15}, site \in {"vm", "dom0"}},
        m \in {"ok", "absent", "junk"}, s \in {{}, {"user"}}}
    \cup {[Base EXCEPT !.config[c] = [stat |-> "error", lines |-> <<>>]] : c \in Candidate}

TheScenarios == LookupScenarios \cup EditScenarios \cup TcpScenarios
                \cup ConfigScenarios \cup OtherScenarios

==============================================================================
