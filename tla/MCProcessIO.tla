---------------------------- MODULE MCProcessIO ----------------------------
(* Instances of ProcessIO for TLC *)
EXTENDS ProcessIO, TLC

\* an ordinary call, with one chunk of output
Plain == [service |-> "process", client |-> "self", stderr |-> FALSE, mode |-> {}, ring |-> 1,
          output |-> 1, input |-> 0, prefix |-> 0, kill |-> {}, switch |-> FALSE]

Killed == {[Plain EXCEPT !.service = k, !.input = 1, !.kill = Side] :
              k \in {"process", "failed", "just_exec"}}
Long == {[Plain EXCEPT !.output = 3]}
Errors == {[Plain EXCEPT !.stderr = TRUE]}
Sockets == {[Plain EXCEPT !.service = "socket", !.mode = m] : m \in SUBSET {"stdin", "stdout"}} \cup
           {[Plain EXCEPT !.service = "socket", !.client = "selfsocket", !.prefix = 1]}
Prefixed == {[Plain EXCEPT !.ring = 3, !.output = 0, !.input = 1, !.prefix = 1]}
Switching == {[Plain EXCEPT !.switch = TRUE]}
Local == {[Plain EXCEPT !.client = "process"]}
AllCalls == Killed \cup Long \cup Errors \cup Sockets \cup Prefixed \cup Switching \cup Local

LiveCalls == {[Plain EXCEPT !.output = 2, !.kill = {"service"}]}

=============================================================================
