------------------------- MODULE ServiceExecProofs -------------------------
(***************************************************************************)
(* The two lookups of a service, for any number of directories, any files  *)
(* and any changes to them: find_file follows its order, and the           *)
(* multiplexer executes the file that was found.                           *)
(***************************************************************************)
EXTENDS ServiceExec, WellFoundedInduction, TLAPS

\* Most leaves are first-order reasoning, which is Zenon's; a leaf that needs
\* arithmetic, or functions and records taken apart, names SMT.
USE Zenon

Positions == 1..2 * NDirs
Early == {"received", "session", "dispatch", "fork_server", "child"}

\* What a lookup rests on: the directories, where it is and what it found.
Types ==
    /\ scenario \in Scenarios
    /\ files \in [Candidate -> FileKind]
    /\ found \in [at : Candidate, kind : FileKind] \cup {None}
    /\ pc \in Early => pos = 1
    /\ pc \in {"find", "multiplexer", "run"} => pos \in Positions

\* Nothing is found or reported before the search, and no command is parsed
\* before the request is looked at.
Progress ==
    /\ pc \in Early \cup {"find"} => found = None
    /\ pc \in Early \cup {"find", "found"} => code = None
    /\ pc = "received" => cmd = None
    /\ pc \in {"found", "multiplexer", "run"} => found # None
    /\ pc = "exec" => /\ code \in {None, 0}
                      /\ found # None \/ ~cmd.service

\* What find_file passes: a path with nothing there, or with a dangling link.
Passed(c) == ~CanExist(c) \/ files[c] \in {"absent", "dangling"}

\* LookupOrder, with what find_file passes for what is missing: this holds with
\* dangling links, too.
SearchOrder ==
    /\ found # None =>
        /\ \A i, j \in DOMAIN Order :
            (Order[j] = found.at /\ i < j /\ Order[i] \notin edited) => Passed(Order[i])
        /\ found.at \notin edited => found.kind = files[found.at]
    /\ (found = None /\ code = 127) => \A c \in Candidate \ edited : Passed(c)
    /\ (found = None /\ code = 125 /\ cmd # None /\ session # "failed") =>
        \/ ~cmd.service
        \/ \E c \in Candidate : CanExist(c) /\ (c \in edited \/ files[c] = "error")

\* find_file has passed the first pos - 1 paths because they were missing.
Searched ==
    pc = "find" => \A i \in 1..pos - 1 : Order[i] \notin edited => Passed(Order[i])

\* What is executed is executable and has a name that can exist.
Executable ==
    /\ found # None => CanExist(found.at)
    /\ (pc \in {"exec", "multiplexer"} /\ found # None /\ edited = {})
            => files[found.at] \in {"exec", "empty", "dir"}

\* The multiplexer has passed the first pos - 1 files because `test -s' failed.
Tested ==
    (pc = "multiplexer" /\ edited = {}) => \A i \in 1..pos - 1 : ~NonEmpty(MultiplexerOrder[i])

IInv ==
    /\ Types
    /\ Progress
    /\ Searched
    /\ Executable
    /\ Tested
    /\ SearchOrder
    /\ MultiplexerAgrees

-----------------------------------------------------------------------------
(* The two orders *)

\* find_file's order: every candidate once, "SERVICE+ARG" in all directories first.
LEMMA OrderFacts ==
    /\ DOMAIN Order = Positions
    /\ Len(Order) = 2 * NDirs
    /\ \A i \in Positions : Order[i] \in Candidate
    /\ \A d \in Dir : /\ d \in Positions /\ Order[d] = <<d, "full">>
                      /\ NDirs + d \in Positions /\ Order[NDirs + d] = <<d, "name">>
    /\ \A i, j \in Positions : Order[i] = Order[j] => i = j
<1>0. NDirs \in Nat /\ NDirs > 0
  BY DirsAssumption, SMT
<1>1. DOMAIN Order = Positions
  BY DEF Order, Positions
<1>2. Len(Order) = 2 * NDirs
  BY <1>0, SMT DEF Order
<1>3. \A i \in Positions : Order[i] \in Candidate
  BY <1>0, SMT DEF Order, Positions, Candidate, Dir
<1>4. \A d \in Dir : /\ d \in Positions /\ Order[d] = <<d, "full">>
                     /\ NDirs + d \in Positions /\ Order[NDirs + d] = <<d, "name">>
  BY <1>0, SMT DEF Order, Positions, Dir
<1>5. \A i, j \in Positions : Order[i] = Order[j] => i = j
  BY <1>0, SMT DEF Order, Positions
<1>6. QED
  BY <1>1, <1>2, <1>3, <1>4, <1>5

\* The multiplexer's order: both names of a directory before the next directory.
LEMMA MultiplexerOrderFacts ==
    /\ Len(MultiplexerOrder) = 2 * NDirs
    /\ \A i \in Positions : MultiplexerOrder[i] \in Candidate
    /\ \A d \in Dir : /\ 2 * d - 1 \in Positions /\ MultiplexerOrder[2 * d - 1] = <<d, "full">>
                      /\ 2 * d \in Positions /\ MultiplexerOrder[2 * d] = <<d, "name">>
    /\ \A i \in Positions : \E d \in Dir : i = 2 * d - 1 \/ i = 2 * d
<1>0. NDirs \in Nat /\ NDirs > 0
  BY DirsAssumption, SMT
<1>1. Len(MultiplexerOrder) = 2 * NDirs
  BY <1>0, SMT DEF MultiplexerOrder
<1>2. \A i \in Positions : MultiplexerOrder[i] \in Candidate
  BY <1>0, SMT DEF MultiplexerOrder, Positions, Candidate, Dir
<1>3. \A d \in Dir : /\ 2 * d - 1 \in Positions /\ MultiplexerOrder[2 * d - 1] = <<d, "full">>
                     /\ 2 * d \in Positions /\ MultiplexerOrder[2 * d] = <<d, "name">>
  <2>. SUFFICES ASSUME NEW d \in Dir
                PROVE /\ 2 * d - 1 \in Positions /\ MultiplexerOrder[2 * d - 1] = <<d, "full">>
                      /\ 2 * d \in Positions /\ MultiplexerOrder[2 * d] = <<d, "name">>
    OBVIOUS
  <2>1. d \in Int /\ 2 * d - 1 \in Positions /\ 2 * d \in Positions
    BY <1>0, SMT DEF Positions, Dir
  <2>2. (2 * d) \div 2 = d /\ (2 * d + 1) \div 2 = d /\ (2 * d - 1) % 2 = 1 /\ (2 * d) % 2 = 0
    BY <2>1, SMT
  <2>3. 2 * d - 1 + 1 = 2 * d
    BY <2>1, SMT
  <2>4. MultiplexerOrder[2 * d - 1] = <<d, "full">>
    BY <2>1, <2>2, <2>3 DEF MultiplexerOrder, Positions
  <2>5. MultiplexerOrder[2 * d] = <<d, "name">>
    BY <2>1, <2>2, SMT DEF MultiplexerOrder, Positions
  <2>6. QED
    BY <2>1, <2>4, <2>5
<1>4. \A i \in Positions : \E d \in Dir : i = 2 * d - 1 \/ i = 2 * d
  <2>1. ASSUME NEW i \in Positions PROVE (i + 1) \div 2 \in Dir
    BY <1>0, <2>1, SMT DEF Positions, Dir
  <2>2. ASSUME NEW i \in Positions
        PROVE i = 2 * ((i + 1) \div 2) - 1 \/ i = 2 * ((i + 1) \div 2)
    BY <1>0, <2>2, SMT DEF Positions
  <2>3. QED
    BY <2>1, <2>2
<1>5. QED
  BY <1>1, <1>2, <1>3, <1>4

\* The multiplexer's first non-empty file is the file found, but for the two
\* exceptions: what comes before it in one order and not in the other is a
\* "SERVICE" of an earlier directory.
LEMMA Agreement ==
    ASSUME Types, SearchOrder, found # None, CanExist(found.at), edited = {},
           files[found.at] \in {"exec", "empty", "dir"}, pos \in Positions,
           \A i \in 1..pos - 1 : ~NonEmpty(MultiplexerOrder[i]),
           NonEmpty(MultiplexerOrder[pos]) \/ pos = Len(MultiplexerOrder)
    PROVE  LET c == MultiplexerOrder[pos]
           IN  \/ c = found.at
               \/ files[found.at] = "empty"
               \/ c[2] = "name" /\ found.at[2] = "full" /\ c[1] < found.at[1]
<1>. DEFINE c == MultiplexerOrder[pos]
<1>. SUFFICES ASSUME files[found.at] # "empty", c # found.at
              PROVE  c[2] = "name" /\ found.at[2] = "full" /\ c[1] < found.at[1]
  OBVIOUS
<1>0. NDirs \in Nat /\ pos \in Int /\ found.at \in Candidate /\ c \in Candidate
  BY DirsAssumption, MultiplexerOrderFacts, SMT DEF Positions, Types
<1>1. NonEmpty(found.at)
  BY DEF NonEmpty, CanExist, Skipped
<1>2. PICK d \in Dir, e \in Dir :
         /\ (c = <<d, "full">> /\ pos = 2 * d - 1) \/ (c = <<d, "name">> /\ pos = 2 * d)
         /\ found.at = <<e, "full">> \/ found.at = <<e, "name">>
  <2>1. \E d \in Dir : (c = <<d, "full">> /\ pos = 2 * d - 1) \/ (c = <<d, "name">> /\ pos = 2 * d)
    BY MultiplexerOrderFacts
  <2>2. \E e \in Dir : found.at = <<e, "full">> \/ found.at = <<e, "name">>
    BY <1>0, SMT DEF Candidate
  <2>3. QED
    BY <2>1, <2>2
<1>3. d \in 1..NDirs /\ e \in 1..NDirs
  BY DEF Dir
<1>4. \A i \in Positions : MultiplexerOrder[i] = found.at => i > pos
  BY <1>0, <1>1, SMT DEF Positions
<1>5. CASE found.at = <<e, "full">>
  <2>1. 2 * e - 1 > pos
    BY <1>4, <1>5, MultiplexerOrderFacts
  <2>2. NonEmpty(c)
    BY <1>0, <1>3, <2>1, MultiplexerOrderFacts, SMT
  <2>3. ~Passed(c)
    BY <2>2 DEF NonEmpty, Passed, CanExist, Skipped
  <2>4. c # <<d, "full">>
    <3>. SUFFICES ASSUME c = <<d, "full">> PROVE FALSE
      OBVIOUS
    <3>1. d < e /\ Order[d] = c /\ Order[e] = found.at /\ d \in DOMAIN Order /\ e \in DOMAIN Order
      BY <1>2, <1>3, <1>5, <2>1, OrderFacts, SMT
    <3>2. QED
      BY <2>3, <3>1 DEF SearchOrder
  <2>5. QED
    BY <1>2, <1>3, <1>5, <2>1, <2>4, SMT
<1>6. CASE found.at = <<e, "name">>
  <2>1. 2 * e > pos
    BY <1>4, <1>6, MultiplexerOrderFacts
  <2>2. NonEmpty(c)
    BY <1>0, <1>3, <2>1, MultiplexerOrderFacts, SMT
  <2>3. ~Passed(c)
    BY <2>2 DEF NonEmpty, Passed, CanExist, Skipped
  <2>4. NDirs + e \in DOMAIN Order /\ Order[NDirs + e] = found.at
    BY <1>6, OrderFacts
  <2>5. CASE c = <<d, "full">>
    <3>1. d < NDirs + e /\ d \in DOMAIN Order /\ Order[d] = c
      BY <1>0, <1>3, <2>5, OrderFacts, SMT
    <3>2. QED
      BY <2>3, <2>4, <3>1 DEF SearchOrder
  <2>6. CASE c = <<d, "name">>
    <3>1. NDirs + d < NDirs + e /\ NDirs + d \in DOMAIN Order /\ Order[NDirs + d] = c
      BY <1>0, <1>2, <1>3, <2>1, <2>6, OrderFacts, SMT
    <3>2. QED
      BY <2>3, <2>4, <3>1 DEF SearchOrder
  <2>7. QED
    BY <1>2, <2>5, <2>6
<1>7. QED
  BY <1>2, <1>5, <1>6

-----------------------------------------------------------------------------
(* The invariant is inductive *)

\* The invariant holds when the agent's child starts.
LEMMA Initially == Init => IInv
<1>. SUFFICES ASSUME Init PROVE IInv
  OBVIOUS
<1>1. Types
  BY ScenariosAssumption DEF Init, Types, Early
<1>2. Progress /\ Searched /\ Executable /\ Tested /\ MultiplexerAgrees
  BY DEF Init, Progress, Searched, Executable, Tested, MultiplexerAgrees
<1>3. SearchOrder
  BY NoneAssumption, SMT DEF Init, SearchOrder
<1>4. QED
  BY <1>1, <1>2, <1>3 DEF IInv

\* Before the search the files are not looked at: a step keeps the invariant if
\* the exit code it reports is not the one of a search.
LEMMA EarlyStep ==
    ASSUME IInv, pc \in Early, UNCHANGED <<scenario, files, edited, pos, found>>,
           pc' \in Early \cup {"find", "end"}, pc' # "received",
           IF pc' = "end" THEN code' \in Int /\ code' # 127 ELSE code' = None,
           code' = 125 => cmd' = None \/ session' = "failed"
    PROVE  IInv'
<1>0. NDirs \in Nat /\ NDirs > 0
  BY DirsAssumption, SMT
<1>1. Types'
  BY <1>0, SMT DEF IInv, Types, Early, Positions
<1>2. Progress'
  BY DEF IInv, Progress, Early
<1>3. Searched'
  BY SMT DEF IInv, Searched, Types, Early
<1>4. Executable'
  BY DEF IInv, Executable, Progress, Early
<1>5. Tested' /\ MultiplexerAgrees'
  BY DEF Tested, MultiplexerAgrees, Early
<1>6. SearchOrder'
  BY NoneAssumption, SMT DEF IInv, SearchOrder, Progress, Early
<1>7. QED
  BY <1>1, <1>2, <1>3, <1>4, <1>5, <1>6 DEF IInv

\* After the search a step that leaves the files and the lookup alone keeps the
\* invariant if it ends the call, and the call had found a service or was no
\* service call.
LEMMA EndStep ==
    ASSUME IInv, pc \notin Early, pc # "find",
           UNCHANGED <<scenario, files, edited, found>>, pc' = "end",
           \/ found # None
           \/ ~cmd.service /\ cmd' = cmd /\ code' # 127
    PROVE  IInv'
<1>1. Types'
  BY DEF IInv, Types, Early
<1>2. Progress' /\ Searched' /\ Tested' /\ MultiplexerAgrees'
  BY DEF Progress, Searched, Tested, MultiplexerAgrees, Early
<1>3. Executable'
  BY DEF IInv, Executable, CanExist, req
<1>4. SearchOrder'
  BY SMT DEF IInv, SearchOrder, Passed, CanExist, req
<1>5. QED
  BY <1>1, <1>2, <1>3, <1>4 DEF IInv

\* One lstat(2) of find_file.
LEMMA FindStep == IInv /\ find_file => IInv'
<1>. SUFFICES ASSUME IInv, find_file PROVE IInv'
  OBVIOUS
<1>. DEFINE c == Order[pos]
            next == IF Skipped(c) THEN NDirs + 1 ELSE pos + 1
<1>0. /\ NDirs \in Nat /\ NDirs > 0 /\ pos \in Positions /\ pos \in Int /\ c \in Candidate
      /\ pc = "find" /\ found = None /\ code = None /\ cmd.service
      /\ UNCHANGED <<scenario, files, edited, cmd, servers, served, session, started>>
  BY DirsAssumption, OrderFacts, SMT DEF IInv, Types, Progress, find_file, Positions
<1>1. CASE Skipped(c) \/ files[c] \in {"absent", "dangling"}
  <2>1. next \in Int /\ next > 0
    BY <1>0, SMT DEF Positions
  <2>2. \A i \in 1..next - 1 : (i \in Positions /\ Order[i] \notin edited) => Passed(Order[i])
    <3>. SUFFICES ASSUME NEW i \in 1..next - 1, i \in Positions, Order[i] \notin edited
                  PROVE  Passed(Order[i])
      OBVIOUS
    <3>1. CASE Skipped(c)
      <4>1. i \in Dir
        BY <1>0, <3>1, SMT DEF Dir
      <4>2. Order[i] = <<i, "full">> /\ req.long
        BY <4>1, <3>1, OrderFacts DEF Skipped
      <4>3. QED
        BY <4>2, SMT DEF Passed, CanExist
    <3>2. CASE ~Skipped(c)
      <4>1. i \in 1..pos - 1 \/ i = pos
        BY <1>0, <3>2, SMT
      <4>2. QED
        BY <1>0, <1>1, <3>2, <4>1 DEF IInv, Searched, Passed
    <3>3. QED
      BY <3>1, <3>2
  <2>3. CASE next > Len(Order)
    <3>1. code' = 127 /\ pc' = "end" /\ UNCHANGED <<pos, found>>
      BY <1>0, <1>1, <2>3 DEF find_file, Report
    <3>2. \A x \in Candidate \ edited : Passed(x)
      <4>. SUFFICES ASSUME NEW x \in Candidate, x \notin edited PROVE Passed(x)
        OBVIOUS
      <4>1. PICK i \in Positions : Order[i] = x
        BY OrderFacts, SMT DEF Candidate
      <4>2. i \in 1..next - 1
        BY <2>1, <2>3, OrderFacts, <1>0, SMT DEF Positions
      <4>3. QED
        BY <2>2, <4>1, <4>2
    <3>3. SearchOrder'
      BY <1>0, <3>1, <3>2, SMT DEF SearchOrder, Passed, CanExist, req
    <3>4. Types' /\ Progress' /\ Searched' /\ Executable' /\ Tested' /\ MultiplexerAgrees'
      BY <1>0, <3>1 DEF IInv, Types, Progress, Searched, Executable, Tested, MultiplexerAgrees, Early
    <3>5. QED
      BY <3>3, <3>4 DEF IInv
  <2>4. CASE ~(next > Len(Order))
    <3>1. pos' = next /\ UNCHANGED <<pc, code, found>>
      BY <1>0, <1>1, <2>4 DEF find_file
    <3>2. next \in Positions
      BY <1>0, <2>1, <2>4, OrderFacts, SMT DEF Positions
    <3>3. Types'
      BY <1>0, <3>1, <3>2 DEF IInv, Types, Early
    <3>4. Searched'
      BY <1>0, <2>2, <3>1, <3>2, SMT DEF Searched, Positions, Passed, CanExist, req
    <3>5. Progress' /\ Executable' /\ Tested' /\ MultiplexerAgrees'
      BY <1>0, <3>1 DEF IInv, Progress, Executable, Tested, MultiplexerAgrees, Early
    <3>6. SearchOrder'
      BY <1>0, <3>1, NoneAssumption, SMT DEF SearchOrder
    <3>7. QED
      BY <3>3, <3>4, <3>5, <3>6 DEF IInv
  <2>5. QED
    BY <2>3, <2>4
<1>2. CASE ~(Skipped(c) \/ files[c] \in {"absent", "dangling"}) /\ files[c] = "error"
  <2>1. code' = 125 /\ pc' = "end" /\ UNCHANGED <<pos, found>>
    BY <1>0, <1>2 DEF find_file, Report
  <2>2. SearchOrder'
    BY <1>0, <1>2, <2>1, SMT DEF SearchOrder, CanExist, Skipped, req
  <2>3. Types' /\ Progress' /\ Searched' /\ Executable' /\ Tested' /\ MultiplexerAgrees'
    BY <1>0, <2>1 DEF IInv, Types, Progress, Searched, Executable, Tested, MultiplexerAgrees, Early
  <2>4. QED
    BY <2>2, <2>3 DEF IInv
<1>3. CASE ~(Skipped(c) \/ files[c] \in {"absent", "dangling"}) /\ files[c] # "error"
  <2>1. found' = [at |-> c, kind |-> files[c]] /\ pc' = "found" /\ UNCHANGED <<pos, code>>
    BY <1>0, <1>3 DEF find_file
  <2>2. found' \in [at : Candidate, kind : FileKind] /\ found' # None
    <3>1. c \in Candidate /\ files[c] \in FileKind
      BY <1>0 DEF IInv, Types
    <3>2. found' \in [at : Candidate, kind : FileKind]
      BY <2>1, <3>1
    <3> QED
      BY <3>2, NoneAssumption
  <2>3. Types' /\ Progress' /\ Searched' /\ Tested' /\ MultiplexerAgrees'
    BY <1>0, <2>1, <2>2 DEF IInv, Types, Progress, Searched, Tested, MultiplexerAgrees, Early
  <2>4. Executable'
    BY <1>0, <1>3, <2>1 DEF Executable, CanExist, Skipped, req
  <2>5. \A i, j \in DOMAIN Order :
           (Order[j] = c /\ i < j /\ Order[i] \notin edited) => Passed(Order[i])
    <3>. SUFFICES ASSUME NEW i \in Positions, NEW j \in Positions,
                         Order[j] = c, i < j, Order[i] \notin edited
                  PROVE  Passed(Order[i])
      BY OrderFacts
    <3>1. i \in 1..pos - 1
      BY <1>0, OrderFacts, SMT DEF Positions
    <3>2. QED
      BY <1>0, <3>1 DEF IInv, Searched
  <2>6. SearchOrder'
    <3>1. found'.at = c /\ found'.kind = files'[c]
      BY <1>0, <2>1
    <3>2. \A i, j \in DOMAIN Order' :
             (Order'[j] = found'.at /\ i < j /\ Order'[i] \notin edited') => Passed(Order[i])'
      BY <1>0, <2>5, <3>1 DEF Order, Passed, CanExist, req
    <3>3. QED
      BY <2>2, <3>1, <3>2 DEF SearchOrder, Order
  <2>7. QED
    BY <2>3, <2>4, <2>6 DEF IInv
<1>4. QED
  BY <1>1, <1>2, <1>3

\* The steps before the search.
LEMMA EarlySteps ==
    ASSUME IInv,
           \/ handle_server_exec_request_init \/ wait_for_session_maybe \/ session_over
           \/ handle_server_exec_request_do \/ handle_single_command
           \/ handle_new_process_common
    PROVE  IInv'
<1>0. None \notin Int /\ (pc \in Early => code = None) /\ (pc = "received" => cmd = None)
  BY NoneAssumption DEF IInv, Progress
<1>1. CASE handle_server_exec_request_init
  BY <1>0, <1>1, EarlyStep, SMT DEF handle_server_exec_request_init, Early
<1>2. CASE wait_for_session_maybe
  <2>1. /\ pc = "received" /\ UNCHANGED <<scenario, files, edited, pos, found>>
        /\ \/ pc' = "end" /\ code' = 125 /\ (cmd' = None \/ session' = "failed")
           \/ pc' \in {"session", "find"} /\ code' = None
    BY <1>0, <1>2 DEF wait_for_session_maybe, Report, Early
  <2>2. QED
    BY <1>0, <2>1, EarlyStep, SMT DEF Early
<1>3. CASE session_over
  BY <1>0, <1>3, EarlyStep, SMT DEF session_over, Early
<1>4. CASE handle_server_exec_request_do
  BY <1>0, <1>4, EarlyStep, SMT DEF handle_server_exec_request_do, Early
<1>5. CASE handle_single_command
  BY <1>0, <1>5, EarlyStep, SMT DEF handle_single_command, Report, Lost, Early
<1>6. CASE handle_new_process_common
  BY <1>0, <1>6, EarlyStep, SMT DEF handle_new_process_common, Report, Lost, Early
<1>7. QED
  BY <1>1, <1>2, <1>3, <1>4, <1>5, <1>6

\* The child is forked: with the file that was found, or for a shell command.
LEMMA ForkStep ==
    ASSUME IInv, pc \in {"found", "find"}, Fork,
           UNCHANGED <<scenario, files, edited, pos, found>>,
           \/ pc = "found" /\ files[found.at] \in {"exec", "empty", "dir"}
           \/ pc = "find" /\ ~cmd.service /\ UNCHANGED <<cmd, session>>
    PROVE  IInv'
<1>0. /\ None \notin Int
      /\ pc = "found" => found # None
      /\ pc = "find" => found = None /\ code = None
  BY NoneAssumption DEF IInv, Progress
<1>1. \/ pc' = "end"
      \/ pc' = "exec" /\ code' \in {code, 0}
  BY DEF Fork, Report
<1>2. Types'
  BY <1>1 DEF IInv, Types, Early
<1>3. Searched' /\ Tested' /\ MultiplexerAgrees'
  BY <1>1 DEF Searched, Tested, MultiplexerAgrees
<1>4. Executable'
  BY <1>0, <1>1 DEF IInv, Executable, CanExist, req
<1>5. SearchOrder'
  <2>1. CASE pc = "found"
    BY <1>0, <2>1 DEF IInv, SearchOrder, Passed, CanExist, req
  <2>2. CASE pc = "find"
    BY <1>0, <2>2, SMT DEF SearchOrder, Fork, Report
  <2>3. QED
    BY <2>1, <2>2
<1>6. Progress'
  <2>1. CASE pc = "found"
    BY <1>0, <1>1, <2>1 DEF IInv, Progress, Early
  <2>2. CASE pc = "find"
    BY <1>0, <1>1, <2>2 DEF IInv, Progress, Early
  <2>3. QED
    BY <2>1, <2>2
<1>7. QED
  BY <1>2, <1>3, <1>4, <1>5, <1>6 DEF IInv

\* Another program changes a file: it is no longer one the invariant speaks of.
LEMMA InstallStep ==
    ASSUME IInv, NEW c \in Candidate, NEW kind \in {"absent", "exec", "socket"},
           install(c, kind)
    PROVE  IInv'
<1>0. /\ pc # "end" /\ c \notin edited /\ ~Skipped(c)
      /\ files' = [files EXCEPT ![c] = kind]
      /\ edited' = edited \cup {c}
      /\ UNCHANGED <<scenario, pc, cmd, servers, served, pos, found, session, started, code>>
  BY DEF install
<1>1. /\ \A x : x \notin edited' => x \notin edited /\ files'[x] = files[x]
      /\ edited' # {}
  BY <1>0, SMT DEF IInv, Types
<1>2. Types'
  BY <1>0 DEF IInv, Types, FileKind
<1>3. Progress' /\ Executable' /\ Tested' /\ MultiplexerAgrees'
  BY <1>0, <1>1 DEF IInv, Progress, Executable, Tested, MultiplexerAgrees, CanExist, req
<1>4. \A x : x \notin edited' => (Passed(x)' <=> Passed(x))
  BY <1>0, <1>1 DEF Passed, CanExist, req
<1>5. Searched'
  BY <1>0, <1>1, <1>4 DEF IInv, Searched, Order
<1>6. SearchOrder'
  <2>1. (found # None) =>
            /\ \A i, j \in DOMAIN Order :
                (Order[j] = found.at /\ i < j /\ Order[i] \notin edited') => Passed(Order[i])'
            /\ found.at \notin edited' => found.kind = files'[found.at]
    BY <1>0, <1>1, <1>4 DEF IInv, SearchOrder
  <2>2. (found = None /\ code = 127) => \A x \in Candidate \ edited' : Passed(x)'
    BY <1>0, <1>1, <1>4 DEF IInv, SearchOrder
  <2>3. (found = None /\ code = 125 /\ cmd # None /\ session # "failed") =>
            \/ ~cmd.service
            \/ \E x \in Candidate : CanExist(x) /\ (x \in edited' \/ files'[x] = "error")
    BY <1>0, <1>1, SMT DEF IInv, SearchOrder
  <2>4. QED
    BY <1>0, <2>1, <2>2, <2>3 DEF SearchOrder, Order, CanExist, req, Candidate, Dir
<1>7. QED
  BY <1>2, <1>3, <1>5, <1>6 DEF IInv

\* The steps after the search.
LEMMA LateSteps ==
    ASSUME IInv,
           \/ connect_service \/ fork_service \/ fork_shell
           \/ do_exec \/ multiplexer \/ run_file
    PROVE  IInv'
<1>0. /\ None \notin Int /\ NDirs \in Nat /\ NDirs > 0
      /\ pc \in {"found", "multiplexer", "run"} => found # None
      /\ pc = "exec" => code \in {None, 0} /\ (found # None \/ ~cmd.service)
  BY NoneAssumption, DirsAssumption, SMT DEF IInv, Progress
<1>1. CASE connect_service
  BY <1>0, <1>1, EndStep DEF connect_service, Connected, Report, Early
<1>2. CASE fork_service
  <2>1. CASE files[found.at] \in {"exec", "empty", "dir"}
    BY <1>2, <2>1, ForkStep DEF fork_service
  <2>2. CASE files[found.at] \notin {"exec", "empty", "dir"}
    BY <1>0, <1>2, <2>2, EndStep DEF fork_service, Report, Early
  <2>3. QED
    BY <2>1, <2>2
<1>3. CASE fork_shell
  BY <1>3, ForkStep DEF fork_shell
<1>4. CASE do_exec
  <2>0. pc = "exec" /\ UNCHANGED <<scenario, files, edited, cmd, servers, served, found, session>>
    BY <1>4 DEF do_exec
  <2>1. \/ pc' = "end" /\ (cmd.service \/ code' # 127)
        \/ cmd.service /\ pc' = "multiplexer" /\ pos' = 1
    BY <1>0, <1>4, SMT DEF do_exec, exec_qubes_rpc_if_requested, ExecFailures, Report, Own
  <2>2. CASE pc' = "end"
    BY <1>0, <2>0, <2>1, <2>2, EndStep DEF Early
  <2>3. CASE cmd.service /\ pc' = "multiplexer" /\ pos' = 1
    <3>1. found # None
      BY <1>0, <2>0, <2>3
    <3>2. Types' /\ Progress' /\ Searched' /\ Executable' /\ Tested' /\ MultiplexerAgrees'
      BY <1>0, <2>0, <2>3, <3>1, SMT DEF IInv, Types, Progress, Searched, Executable, Tested,
           MultiplexerAgrees, Early, Positions, CanExist, req
    <3>3. SearchOrder'
      BY <2>0, <3>1 DEF IInv, SearchOrder, Passed, CanExist, req
    <3>4. QED
      BY <3>2, <3>3 DEF IInv
  <2>4. QED
    BY <2>1, <2>2, <2>3
<1>5. CASE multiplexer
  <2>0. /\ pc = "multiplexer" /\ found # None /\ pos \in Positions /\ pos \in Int
        /\ UNCHANGED <<scenario, files, edited, cmd, servers, served, found, session, started>>
    BY <1>0, <1>5, SMT DEF IInv, Types, multiplexer, Positions
  <2>1. CASE pc' = "end"
    BY <2>0, <2>1, EndStep DEF Early
  <2>2. CASE pc' # "end"
    <3>0. /\ req.tokens \in {2, 4} /\ code' = code
          /\ \/ /\ NonEmpty(MultiplexerOrder[pos]) \/ pos = Len(MultiplexerOrder)
                /\ pc' = "run" /\ pos' = pos
             \/ /\ ~NonEmpty(MultiplexerOrder[pos]) /\ pos # Len(MultiplexerOrder)
                /\ pc' = "multiplexer" /\ pos' = pos + 1
      BY <1>5, <2>0, <2>2 DEF multiplexer, Report
    <3>1. Types'
      <4>1. Len(MultiplexerOrder) = 2 * NDirs
        BY MultiplexerOrderFacts
      <4>2. pos' \in Positions
        BY <1>0, <2>0, <3>0, <4>1, SMT DEF Positions
      <4>3. QED
        BY <2>0, <3>0, <4>2 DEF IInv, Types, Early
    <3>2. Progress' /\ Searched' /\ Executable'
      BY <2>0, <3>0 DEF IInv, Progress, Searched, Executable, Early, CanExist, req
    <3>3. SearchOrder'
      BY <2>0, <3>0 DEF IInv, SearchOrder, Passed, CanExist, req
    <3>4. Tested'
      <4>. SUFFICES ASSUME pc' = "multiplexer", edited = {}, NEW i \in 1..pos' - 1
                    PROVE  ~NonEmpty(MultiplexerOrder[i])
        BY <2>0 DEF Tested, NonEmpty, Skipped, req, MultiplexerOrder
      <4>1. i \in 1..pos - 1 \/ i = pos
        BY <2>0, <3>0, SMT
      <4>2. QED
        BY <2>0, <3>0, <4>1 DEF IInv, Tested
    <3>5. MultiplexerAgrees'
      <4>. SUFFICES ASSUME pc' = "run", edited = {}
                    PROVE  LET c == MultiplexerOrder[pos]
                           IN  \/ c = found.at
                               \/ files[found.at] = "empty"
                               \/ c[2] = "name" /\ found.at[2] = "full" /\ c[1] < found.at[1]
        BY <2>0, <3>0 DEF MultiplexerAgrees, MultiplexerOrder
      <4>1. NonEmpty(MultiplexerOrder[pos]) \/ pos = Len(MultiplexerOrder)
        BY <3>0
      <4>2. CanExist(found.at) /\ files[found.at] \in {"exec", "empty", "dir"}
        BY <2>0 DEF IInv, Executable
      <4>3. \A i \in 1..pos - 1 : ~NonEmpty(MultiplexerOrder[i])
        BY <2>0 DEF IInv, Tested
      <4>4. QED
        BY <2>0, <4>1, <4>2, <4>3, Agreement DEF IInv
    <3>6. QED
      BY <3>1, <3>2, <3>3, <3>4, <3>5 DEF IInv
  <2>3. QED
    BY <2>1, <2>2
<1>6. CASE run_file
  BY <1>0, <1>6, EndStep DEF run_file, Report, Early
<1>7. QED
  BY <1>1, <1>2, <1>3, <1>4, <1>5, <1>6

\* Every step of the execution of a service keeps the invariant.
LEMMA Inductive == IInv /\ [Next]_vars => IInv'
<1>. SUFFICES ASSUME IInv, [Next]_vars PROVE IInv'
  OBVIOUS
<1>1. CASE Next
  BY <1>1, EarlySteps, FindStep, LateSteps, InstallStep DEF Next
<1>2. CASE UNCHANGED vars
  <2>1. Types' /\ Progress' /\ Executable'
    BY <1>2 DEF vars, IInv, Types, Progress, Executable, CanExist, req
  <2>2. Searched' /\ SearchOrder'
    BY <1>2, SMT DEF vars, IInv, Searched, SearchOrder, Passed, CanExist, req, Order
  <2>3. Tested' /\ MultiplexerAgrees'
    BY <1>2 DEF vars, IInv, Tested, MultiplexerAgrees, NonEmpty, Skipped, req, MultiplexerOrder
  <2>4. QED
    BY <2>1, <2>2, <2>3 DEF IInv
<1>3. QED
  BY <1>1, <1>2

\* find_file's search, with one step per path and changes in between, finds the
\* first of the files nobody touched, and blames a path only for its own fault.
THEOREM LookupCorrect == Spec => []LookupOrder
<1>1. IInv => LookupOrder
  <2> SUFFICES ASSUME IInv, \A c \in Candidate : files[c] # "dangling" PROVE LookupOrder
    BY DEF LookupOrder
  <2>1. \A c \in Candidate : Passed(c) => Missing(c)
    BY DEF Passed, Missing
  <2>2. \A i \in DOMAIN Order : Order[i] \in Candidate
    BY OrderFacts
  <2> QED
    BY <2>1, <2>2 DEF IInv, SearchOrder, LookupOrder
<1>2. QED
  BY Initially, Inductive, <1>1, PTL DEF Spec

\* qubes-rpc-multiplexer executes the file that find_file found, but for an empty
\* file and for a "SERVICE" in an earlier directory than the "SERVICE+ARG" found.
THEOREM MultiplexerCorrect == Spec => []MultiplexerAgrees
<1>1. IInv => MultiplexerAgrees
  BY DEF IInv
<1>2. QED
  BY Initially, Inductive, <1>1, PTL DEF Spec

-----------------------------------------------------------------------------
(* Induction over data: from the least counterexample *)

\* A set of natural numbers has a least element.
LEMMA Least ==
    ASSUME NEW T, T \subseteq Nat, T # {}
    PROVE  \E x \in T : \A y \in T : x <= y
<1>1. PICK R : R = OpToRel(<, Nat)
  OBVIOUS
<1>2. IsWellFoundedOn(R, Nat)
  BY <1>1, NatLessThanWellFounded
<1>3. PICK x \in T : \A y \in T : ~(<<y, x>> \in R)
  BY <1>2, WFMin
<1>4. \A y \in T : ~(<<y, x>> \in R) => ~(y < x)
  BY <1>1, SMT DEF OpToRel
<1>5. \A y \in T : ~(y < x) => x <= y
  BY SMT
<1> QED
  BY <1>3, <1>4, <1>5

\* Induction over the numbers up to a bound.
LEMMA UpTo ==
    ASSUME NEW N \in Nat, NEW S, 0 \in S, \A n \in 0..N - 1 : n \in S => n + 1 \in S
    PROVE  0..N \subseteq S
<1> DEFINE T == (0..N) \ S
<1> SUFFICES ASSUME T # {} PROVE FALSE
  OBVIOUS
<1>1. T \subseteq Nat
  BY SMT
<1>2. PICK x \in T : \A y \in T : x <= y
  BY <1>1, Least
<1>3. x # 0
  OBVIOUS
<1>4. x - 1 \in 0..N - 1 /\ x - 1 \notin T /\ (x - 1) + 1 = x /\ x - 1 \in 0..N
  BY <1>2, <1>3, SMT
<1>5. x - 1 \in S
  BY <1>4
<1> QED
  BY <1>4, <1>5

\* The parser's state after each line is computed from the one before it.
LEMMA ParsesStep ==
    ASSUME NEW start, NEW lines, Len(lines) \in Nat
    PROVE  Parses(start, lines) = [n \in 0..Len(lines) |->
               IF n = 0 THEN start ELSE ParseLine(Parses(start, lines)[n - 1], lines[n])]
<1> DEFINE N == Len(lines)
           Upto(k, g) == g = [n \in 0..k |-> IF n = 0 THEN start ELSE ParseLine(g[n - 1], lines[n])]
           S == {k \in 0..N : \E g : Upto(k, g)}
<1>1. 0 \in S
  <2>1. PICK g : g = [n \in 0..0 |-> start]
    OBVIOUS
  <2>2. \A n \in 0..0 : n = 0
    BY SMT
  <2>3. Upto(0, g)
    BY <2>1, <2>2
  <2>4. 0 \in 0..N
    BY SMT
  <2> QED
    BY <2>3, <2>4
<1>2. ASSUME NEW k \in 0..N - 1, k \in S PROVE k + 1 \in S
  <2>1. PICK g : Upto(k, g)
    BY <1>2
  <2>2. PICK h : h = [n \in 0..k + 1 |-> IF n = k + 1 THEN ParseLine(g[k], lines[n]) ELSE g[n]]
    OBVIOUS
  <2>3. /\ \A n \in 0..k + 1 : n # k + 1 => n \in 0..k
        /\ \A n \in 0..k + 1 : n # 0 => n - 1 \in 0..k + 1 /\ n - 1 # k + 1
        /\ k + 1 # 0 /\ (k + 1) - 1 = k /\ k + 1 \in 0..k + 1
    BY SMT
  <2>4. ASSUME NEW n \in 0..k + 1
        PROVE  h[n] = IF n = 0 THEN start ELSE ParseLine(h[n - 1], lines[n])
    <3>1. CASE n = k + 1
      BY <2>2, <2>3, <3>1
    <3>2. CASE n # k + 1
      <4>1. n \in 0..k
        BY <2>3, <3>2
      <4>2. g[n] = IF n = 0 THEN start ELSE ParseLine(g[n - 1], lines[n])
        BY <2>1, <4>1
      <4>3. n # 0 => h[n - 1] = g[n - 1]
        BY <2>2, <2>3
      <4> QED
        BY <2>2, <3>2, <4>2, <4>3
    <3> QED
      BY <3>1, <3>2
  <2>5. Upto(k + 1, h)
    BY <2>2, <2>4
  <2>6. k + 1 \in 0..N
    BY SMT
  <2> QED
    BY <2>5, <2>6
<1>3. 0..N \subseteq S
  <2> HIDE DEF S
  <2> QED
    BY <1>1, <1>2, UpTo
<1>4. \E g : Upto(N, g)
  BY <1>3, SMT
<1> QED
  BY <1>4 DEF Parses

-----------------------------------------------------------------------------
(* The parser of a configuration file, line by line *)

\* The keys that are settings.
Known == BoolKeys \cup {"force-user"}

\* The value a line gives a Boolean setting; wait-for-session may be 0 or 1.
Values(line) == IF line.type = "int" THEN line.value = 1 ELSE line.value
\* One of the first n lines sets the key.
SetBy(lines, n, key) == \E i \in 1..n : lines[i].key = key /\ Values(lines[i])

\* What the parser's state says about the first n lines.
Read(acc, lines, n) ==
    /\ acc \in Parse
    /\ \A i \in 1..n : lines[i].type # "invalid"
    /\ \A i \in 1..n : lines[i].key \in Known => lines[i].key \in acc.seen /\ Accepts(lines[i])
    /\ \A i, j \in 1..n : i # j /\ lines[i].key = lines[j].key => lines[i].key \notin Known
    /\ acc.set.wait_for_session <=> SetBy(lines, n, "wait-for-session")
    /\ acc.set.exit_on_stdin_eof <=> SetBy(lines, n, "exit-on-client-eof")
    /\ acc.set.exit_on_stdout_eof <=> SetBy(lines, n, "exit-on-service-eof")
    /\ acc.set.send_service_descriptor <=> ~SetBy(lines, n, "skip-service-descriptor")
    /\ acc.set.forced = None => \A i \in 1..n : lines[i].key # "force-user"
    /\ acc.set.forced # None =>
          \E i \in 1..n : lines[i].key = "force-user" /\ lines[i].value = acc.set.forced

\* A line that is no setting changes no setting.
LEMMA SetBySame ==
    ASSUME NEW lines, NEW n \in Nat, NEW key, lines[n + 1].key # key
    PROVE  SetBy(lines, n + 1, key) <=> SetBy(lines, n, key)
<1>1. /\ \A i \in 1..n + 1 : i \in 1..n \/ i = n + 1
      /\ \A i \in 1..n : i \in 1..n + 1
  BY SMT
<1> QED
  BY <1>1 DEF SetBy

\* The first line that names a setting decides it.
LEMMA SetByNew ==
    ASSUME NEW lines, NEW n \in Nat, NEW key, lines[n + 1].key = key,
           \A i \in 1..n : lines[i].key # key
    PROVE  /\ SetBy(lines, n + 1, key) <=> Values(lines[n + 1])
           /\ ~SetBy(lines, n, key)
<1>1. /\ \A i \in 1..n + 1 : i \in 1..n \/ i = n + 1
      /\ n + 1 \in 1..n + 1
  BY SMT
<1> QED
  BY <1>1 DEF SetBy

\* One line: the parser goes on only if it is in order.
LEMMA ReadLine ==
    ASSUME NEW lines, NEW n \in Nat, NEW acc, Read(acc, lines, n),
           IsLine(lines[n + 1]), ParseLine(acc, lines[n + 1]) # None
    PROVE  Read(ParseLine(acc, lines[n + 1]), lines, n + 1)
<1>0. PICK line : line = lines[n + 1]
  OBVIOUS
<1>1. /\ \A i \in 1..n + 1 : i \in 1..n \/ i = n + 1
      /\ \A i \in 1..n : i \in 1..n + 1 /\ i # n + 1
      /\ n + 1 \in 1..n + 1
  BY SMT
<1>2. acc \in Parse /\ acc # None
  BY NoneAssumption DEF Read
<1>3. line.type # "invalid" /\ IsLine(line)
  BY <1>0 DEF ParseLine
<1>4. \A i \in 1..n + 1 : lines[i].type # "invalid"
  BY <1>0, <1>1, <1>3 DEF Read
<1>5. CASE line.key \notin Known
  <2>1. ParseLine(acc, line) = acc
    BY <1>2, <1>3, <1>5 DEF ParseLine, Known
  <2>2. \A key \in Known : SetBy(lines, n + 1, key) <=> SetBy(lines, n, key)
    BY <1>0, <1>5, SetBySame
  <2>3. {"wait-for-session", "exit-on-client-eof", "exit-on-service-eof",
         "skip-service-descriptor", "force-user"} = Known
    BY DEF Known, BoolKeys
  <2>4. \A i \in 1..n + 1 : lines[i].key \in Known => i \in 1..n
    BY <1>0, <1>1, <1>5
  <2>5. Read(acc, lines, n + 1)
    BY <1>0, <1>1, <1>4, <1>5, <2>2, <2>3, <2>4 DEF Read
  <2> QED
    BY <1>0, <2>1, <2>5
<1>6. CASE line.key \in Known
  <2>1. /\ line.key \notin acc.seen /\ Accepts(line)
        /\ ParseLine(acc, line) = [seen |-> acc.seen \cup {line.key}, set |-> Assign(acc.set, line)]
    BY <1>0, <1>2, <1>3, <1>6 DEF ParseLine, Known
  <2>2. \A i \in 1..n : lines[i].key # line.key
    BY <1>6, <2>1 DEF Read
  <2>3. \A key : key # line.key => (SetBy(lines, n + 1, key) <=> SetBy(lines, n, key))
    BY <1>0, SetBySame
  <2>4. SetBy(lines, n + 1, line.key) <=> Values(line)
    BY <1>0, <2>2, SetByNew
  <2>5. PICK set : set = Assign(acc.set, line)
    OBVIOUS
  <2>6. acc.set \in Settings /\ acc.seen \in SUBSET STRING
    BY <1>2 DEF Parse
  <2>7. line.key \in STRING /\ line.key \in {"wait-for-session", "exit-on-client-eof",
            "exit-on-service-eof", "skip-service-descriptor", "force-user"}
    BY <1>3, <1>6 DEF IsLine, Known, BoolKeys
  <2>8. /\ set \in Settings
        /\ set.wait_for_session <=> SetBy(lines, n + 1, "wait-for-session")
        /\ set.exit_on_stdin_eof <=> SetBy(lines, n + 1, "exit-on-client-eof")
        /\ set.exit_on_stdout_eof <=> SetBy(lines, n + 1, "exit-on-service-eof")
        /\ set.send_service_descriptor <=> ~SetBy(lines, n + 1, "skip-service-descriptor")
        /\ set.forced = IF line.key = "force-user" THEN line.value ELSE acc.set.forced
    <3>0. /\ acc.set.wait_for_session <=> SetBy(lines, n, "wait-for-session")
          /\ acc.set.exit_on_stdin_eof <=> SetBy(lines, n, "exit-on-client-eof")
          /\ acc.set.exit_on_stdout_eof <=> SetBy(lines, n, "exit-on-service-eof")
          /\ acc.set.send_service_descriptor <=> ~SetBy(lines, n, "skip-service-descriptor")
      BY DEF Read
    <3>1. Values(line) \in BOOLEAN \/ line.key = "force-user"
      BY <1>3, <2>1, <2>7 DEF Values, Accepts, IsLine, BoolKeys
    <3>2. line.key = "force-user" => line.value \in STRING
      BY <1>3, <2>1, SMT DEF Accepts, IsLine, BoolKeys
    <3>3. line.key \in BoolKeys \ {"wait-for-session"} => line.type = "bool"
      BY <2>1, SMT DEF Accepts, BoolKeys
    <3>4. line.key \in BoolKeys \ {"wait-for-session"} => Values(line) = line.value
      BY <3>3, SMT DEF Values
    <3>5. CASE line.key = "wait-for-session"
      <4>1. set = [acc.set EXCEPT !.wait_for_session = Values(line)]
        BY <2>5, <3>4, <3>5, SMT DEF Assign, Values, BoolKeys
      <4>2. /\ set \in Settings /\ set.wait_for_session = Values(line) /\ set.forced = acc.set.forced
            /\ set.exit_on_stdin_eof = acc.set.exit_on_stdin_eof
            /\ set.exit_on_stdout_eof = acc.set.exit_on_stdout_eof
            /\ set.send_service_descriptor = acc.set.send_service_descriptor
        BY <2>6, <3>1, <3>5, <4>1, SMT DEF Settings
      <4> QED
        BY <2>3, <2>4, <3>0, <3>1, <3>5, <4>2
    <3>6. CASE line.key = "exit-on-client-eof"
      <4>1. set = [acc.set EXCEPT !.exit_on_stdin_eof = Values(line)]
        BY <2>5, <3>4, <3>6, SMT DEF Assign, Values, BoolKeys
      <4>2. /\ set \in Settings /\ set.exit_on_stdin_eof = Values(line) /\ set.forced = acc.set.forced
            /\ set.wait_for_session = acc.set.wait_for_session
            /\ set.exit_on_stdout_eof = acc.set.exit_on_stdout_eof
            /\ set.send_service_descriptor = acc.set.send_service_descriptor
        BY <2>6, <3>1, <3>6, <4>1, SMT DEF Settings
      <4> QED
        BY <2>3, <2>4, <3>0, <3>1, <3>6, <4>2
    <3>7. CASE line.key = "exit-on-service-eof"
      <4>1. set = [acc.set EXCEPT !.exit_on_stdout_eof = Values(line)]
        BY <2>5, <3>4, <3>7, SMT DEF Assign, Values, BoolKeys
      <4>2. /\ set \in Settings /\ set.exit_on_stdout_eof = Values(line) /\ set.forced = acc.set.forced
            /\ set.wait_for_session = acc.set.wait_for_session
            /\ set.exit_on_stdin_eof = acc.set.exit_on_stdin_eof
            /\ set.send_service_descriptor = acc.set.send_service_descriptor
        BY <2>6, <3>1, <3>7, <4>1, SMT DEF Settings
      <4> QED
        BY <2>3, <2>4, <3>0, <3>1, <3>7, <4>2
    <3>8. CASE line.key = "skip-service-descriptor"
      <4>0. PICK on : on = ~line.value
        OBVIOUS
      <4>1. on \in BOOLEAN /\ (on <=> ~Values(line))
        BY <3>1, <3>4, <3>8, <4>0 DEF BoolKeys
      <4>2. set = [acc.set EXCEPT !.send_service_descriptor = on]
        BY <2>5, <3>8, <4>0 DEF Assign
      <4>3. /\ set \in Settings /\ set.send_service_descriptor = on
            /\ set.forced = acc.set.forced
            /\ set.wait_for_session = acc.set.wait_for_session
            /\ set.exit_on_stdin_eof = acc.set.exit_on_stdin_eof
            /\ set.exit_on_stdout_eof = acc.set.exit_on_stdout_eof
        BY <2>6, <4>1, <4>2, SMT DEF Settings
      <4> QED
        BY <2>3, <2>4, <3>0, <3>8, <4>1, <4>3
    <3>9. CASE line.key = "force-user"
      <4>1. set = [acc.set EXCEPT !.forced = line.value]
        BY <2>5, <3>9, SMT DEF Assign
      <4>2. /\ set \in Settings /\ set.forced = line.value
            /\ set.wait_for_session = acc.set.wait_for_session
            /\ set.exit_on_stdin_eof = acc.set.exit_on_stdin_eof
            /\ set.exit_on_stdout_eof = acc.set.exit_on_stdout_eof
            /\ set.send_service_descriptor = acc.set.send_service_descriptor
        BY <2>6, <3>2, <3>9, <4>1, SMT DEF Settings
      <4> QED
        BY <2>3, <3>0, <3>9, <4>2
    <3> QED
      BY <2>7, <3>5, <3>6, <3>7, <3>8, <3>9
  <2>9. /\ set.forced = None => \A i \in 1..n + 1 : lines[i].key # "force-user"
        /\ set.forced # None =>
              \E i \in 1..n + 1 : lines[i].key = "force-user" /\ lines[i].value = set.forced
    <3>1. line.key = "force-user" => line.value # None
      BY <1>3, <2>1, NoneAssumption, SMT DEF Accepts, IsLine, BoolKeys
    <3>2. CASE line.key = "force-user"
      BY <1>0, <1>1, <2>8, <3>1, <3>2
    <3>3. CASE line.key # "force-user"
      BY <1>0, <1>1, <2>8, <3>3 DEF Read
    <3> QED
      BY <3>2, <3>3
  <2>10. \A i \in 1..n + 1 : lines[i].key \in Known =>
            lines[i].key \in acc.seen \cup {line.key} /\ Accepts(lines[i])
    BY <1>0, <1>1, <2>1 DEF Read
  <2>11. \A i, j \in 1..n + 1 : i # j /\ lines[i].key = lines[j].key => lines[i].key \notin Known
    BY <1>0, <1>1, <2>2 DEF Read
  <2>12. PICK next : next = [seen |-> acc.seen \cup {line.key}, set |-> set]
    OBVIOUS
  <2>13. next \in Parse /\ next.seen = acc.seen \cup {line.key} /\ next.set = set
    BY <2>6, <2>7, <2>8, <2>12 DEF Parse
  <2>14. Read(next, lines, n + 1)
    BY <1>4, <2>8, <2>9, <2>10, <2>11, <2>13 DEF Read
  <2> QED
    BY <1>0, <2>1, <2>5, <2>12, <2>14
<1> QED
  BY <1>5, <1>6

\* Read holds at the end of a file that is parsed without an error.
LEMMA ParseCorrect ==
    ASSUME NEW set \in Settings, NEW lines,
           Len(lines) \in Nat, \A i \in 1..Len(lines) : IsLine(lines[i]),
           ~set.wait_for_session, ~set.exit_on_stdin_eof, ~set.exit_on_stdout_eof,
           set.send_service_descriptor, set.forced = None
    PROVE  LET acc == Parses([seen |-> {}, set |-> set], lines)[Len(lines)]
           IN  acc # None => Read(acc, lines, Len(lines))
<1>0. PICK start : start = [seen |-> {}, set |-> set]
  OBVIOUS
<1>1. PICK S : S = {n \in 0..Len(lines) :
                       Parses(start, lines)[n] # None => Read(Parses(start, lines)[n], lines, n)}
  OBVIOUS
<1>2. /\ Parses(start, lines)[0] = start
      /\ \A n \in 0..Len(lines) - 1 :
            Parses(start, lines)[n + 1] = ParseLine(Parses(start, lines)[n], lines[n + 1])
  <2>1. PICK f : f = Parses(start, lines)
    OBVIOUS
  <2>2. f = [n \in 0..Len(lines) |-> IF n = 0 THEN start ELSE ParseLine(f[n - 1], lines[n])]
    BY <2>1, ParsesStep, SMT
  <2>3. 0 \in 0..Len(lines) /\ \A n \in 0..Len(lines) - 1 :
                n + 1 \in 0..Len(lines) /\ n + 1 # 0 /\ (n + 1) - 1 = n
    BY SMT
  <2>4. f[0] = start
    BY <2>2, <2>3
  <2>5. ASSUME NEW n \in 0..Len(lines) - 1 PROVE f[n + 1] = ParseLine(f[n], lines[n + 1])
    <3>1. f[n + 1] = ParseLine(f[(n + 1) - 1], lines[n + 1])
      BY <2>2, <2>3
    <3> QED
      BY <2>3, <3>1
  <2> QED
    BY <2>1, <2>4, <2>5
<1>3. 0 \in S
  <2>1. start \in Parse /\ start.set = set
    BY <1>0, SMT DEF Parse
  <2>2. 1..0 = {} /\ 0 \in 0..Len(lines)
    BY SMT
  <2>3. \A key : ~SetBy(lines, 0, key)
    BY <2>2 DEF SetBy
  <2>4. Read(start, lines, 0)
    BY <2>1, <2>2, <2>3 DEF Read
  <2> QED
    BY <1>1, <1>2, <2>2, <2>4
<1>4. \A n \in 0..Len(lines) - 1 : n \in S => n + 1 \in S
  <2> SUFFICES ASSUME NEW n \in 0..Len(lines) - 1, n \in S PROVE n + 1 \in S
    OBVIOUS
  <2>1. n \in Nat /\ n \in 0..Len(lines) /\ n + 1 \in 0..Len(lines) /\ n + 1 \in 1..Len(lines)
    BY SMT
  <2>2. PICK acc : acc = Parses(start, lines)[n]
    OBVIOUS
  <2>3. Parses(start, lines)[n + 1] = ParseLine(acc, lines[n + 1])
    BY <1>2, <2>2
  <2>4. ASSUME ParseLine(acc, lines[n + 1]) # None
        PROVE  Read(ParseLine(acc, lines[n + 1]), lines, n + 1)
    <3>1. acc # None
      BY <2>4 DEF ParseLine
    <3>2. Read(acc, lines, n)
      BY <1>1, <2>2, <3>1
    <3> QED
      BY <2>1, <2>4, <3>2, ReadLine
  <2> QED
    BY <1>1, <2>1, <2>3, <2>4
<1>5. 0..Len(lines) \subseteq S
  BY <1>3, <1>4, UpTo
<1>6. Len(lines) \in S
  BY <1>5, SMT
<1> QED
  BY <1>0, <1>1, <1>6

-----------------------------------------------------------------------------
(* What the configuration makes of a request *)

\* No line that parses is in error, and no setting is given twice.
LinesInOrder ==
    \A i, j \in DOMAIN Lines :
        /\ Lines[i].type # "invalid"
        /\ (i # j /\ Lines[i].key = Lines[j].key) => Lines[i].key \notin BoolKeys \cup {"force-user"}

\* The command is what the configuration makes of the request: the user ...
AsUser(command) ==
    /\ command \in qrexec_parsed_command
    /\ command.service
    /\ command.nogui = req.nogui
    /\ LinesInOrder
    /\ req.site = "vm" =>
          IF ForcedUser = {} THEN command.username = req.user ELSE command.username \in ForcedUser

\* ... and the settings of a socket.
AsSocket(command) ==
    /\ command.send_service_descriptor <=> ~IsSet("skip-service-descriptor")
    /\ command.exit_on_stdin_eof <=> IsSet("exit-on-client-eof")
    /\ command.exit_on_stdout_eof <=> IsSet("exit-on-service-eof")
    /\ ForcedUser = {} \/ (/\ command.send_service_descriptor
                           /\ ~command.exit_on_stdin_eof /\ ~command.exit_on_stdout_eof)

Waited == (IsSet("wait-for-session") /\ ~req.nogui) => session \in {"over", "failed"}

Unstarted == {"session", "dispatch", "fork_server", "child", "find", "found"}
InProcess == {"exec", "multiplexer", "run"}

ConfigInv ==
    /\ scenario \in Scenarios
    /\ pc \in Unstarted \cup InProcess \cup {"received", "end"}
    /\ pc # "end" => started = None
    /\ cmd = None \/ (cmd \in qrexec_parsed_command /\ (cmd.service <=> req.text = "service"))
    /\ pc = "received" => cmd = None
    /\ pc \in {"session", "find", "found"} \cup InProcess => cmd # None
    /\ pc = "fork_server" => qrexec_cmd_use_fork_server(cmd)
    /\ (cmd # None /\ cmd.service) =>
          /\ pc \in Unstarted \cup InProcess => AsUser(cmd)
          /\ pc \in Unstarted => AsSocket(cmd)
          /\ pc \in InProcess => ~cmd.exit_on_stdin_eof /\ ~cmd.exit_on_stdout_eof
          /\ pc \in (Unstarted \cup InProcess) \ {"session"} => Waited
    /\ OutcomeAsConfigured

\* find_file's answer for the configuration.
LEMMA ConfigFileFound ==
    ASSUME scenario \in Scenarios
    PROVE  ConfigFile = None \/ ConfigFile \in Candidate
<1> DEFINE there == {i \in DOMAIN Order : ~Skipped(Order[i])
                                          /\ scenario.config[Order[i]].stat # "absent"}
<1>1. CASE there = {}
  BY <1>1 DEF ConfigFile
<1>2. CASE there # {}
  <2>1. there \subseteq Nat
    BY DirsAssumption, SMT DEF Order
  <2>2. PICK i \in there : \A j \in there : i <= j
    BY <1>2, <2>1, Least
  <2>3. PICK k : k = Min(there)
    OBVIOUS
  <2>4. k \in there
    BY <2>2, <2>3 DEF Min
  <2>5. ConfigFile = Order[k]
    BY <1>2, <2>3 DEF ConfigFile
  <2>6. Order[k] \in Candidate
    BY <2>4, DirsAssumption, SMT DEF Order, Candidate, Dir
  <2> QED
    BY <2>5, <2>6
<1> QED
  BY <1>1, <1>2

\* Without lines nothing is set.
LEMMA NoLines ==
    ASSUME Lines = <<>>
    PROVE  LinesInOrder /\ ForcedUser = {} /\ \A key : ~IsSet(key)
<1>1. DOMAIN Lines = {}
  BY SMT
<1> QED
  BY <1>1 DEF LinesInOrder, ForcedUser, IsSet

\* A new command has the defaults.
LEMMA NewCommand ==
    ASSUME scenario \in Scenarios, NEW user \in STRING \cup {None}, req.text # "malformed"
    PROVE  LET command == parse_qubes_rpc_command(user)
           IN  /\ command \in qrexec_parsed_command
               /\ command.username = user
               /\ command.nogui = req.nogui
               /\ command.service <=> req.text = "service"
               /\ ~command.wait_for_session
               /\ command.send_service_descriptor
               /\ ~command.exit_on_stdin_eof
               /\ ~command.exit_on_stdout_eof
<1>1. req.nogui \in BOOLEAN
  BY ScenariosAssumption DEF req, Request
<1>2. PICK service : service = (req.text = "service")
  OBVIOUS
<1>3. service \in BOOLEAN
  BY <1>2
<1>4. parse_qubes_rpc_command(user) =
        [username |-> user, nogui |-> req.nogui, service |-> service,
         wait_for_session |-> FALSE, send_service_descriptor |-> TRUE,
         exit_on_stdin_eof |-> FALSE, exit_on_stdout_eof |-> FALSE]
  BY <1>2 DEF parse_qubes_rpc_command
<1>5. PICK command : command = parse_qubes_rpc_command(user)
  OBVIOUS
<1>6. command \in qrexec_parsed_command
  BY <1>1, <1>3, <1>4, <1>5, SMT DEF qrexec_parsed_command
<1>7. /\ command.username = user /\ command.nogui = req.nogui /\ command.service = service
      /\ command.wait_for_session = FALSE /\ command.send_service_descriptor = TRUE
      /\ command.exit_on_stdin_eof = FALSE /\ command.exit_on_stdout_eof = FALSE
  BY <1>4, <1>5, SMT
<1> QED
  BY <1>2, <1>5, <1>6, <1>7

\* A command that gets through load_service_config_v2 is what its file says.
LEMMA LoadCorrect ==
    ASSUME scenario \in Scenarios, NEW user \in STRING \cup {None},
           req.site = "vm" => user = req.user,
           req.text = "service", ~(req.site = "dom0" /\ req.nogui),
           load_service_config_v2(parse_qubes_rpc_command(user)) # None
    PROVE  LET command == load_service_config_v2(parse_qubes_rpc_command(user))
           IN  /\ AsUser(command)
               /\ AsSocket(command)
               /\ command.wait_for_session <=> IsSet("wait-for-session")
<1>0. PICK new : new = parse_qubes_rpc_command(user)
  OBVIOUS
<1>1. /\ new \in qrexec_parsed_command
      /\ new.username = user /\ new.nogui = req.nogui /\ new.service
      /\ ~new.wait_for_session /\ new.send_service_descriptor
      /\ ~new.exit_on_stdin_eof /\ ~new.exit_on_stdout_eof
  BY <1>0, NewCommand
<1>2. CASE ConfigFile = None
  <2>1. Lines = <<>>
    BY <1>2 DEF Lines
  <2>2. load_service_config_v2(new) = new
    BY <1>2 DEF load_service_config_v2
  <2>3. AsUser(new) /\ AsSocket(new) /\ (new.wait_for_session <=> IsSet("wait-for-session"))
    BY <1>1, <2>1, NoLines DEF AsUser, AsSocket
  <2> QED
    BY <1>0, <2>2, <2>3
<1>3. CASE ConfigFile # None
  <2>0. PICK lines : lines = scenario.config[ConfigFile].lines
    OBVIOUS
  <2>1. /\ Lines = lines
        /\ Len(lines) \in Nat /\ DOMAIN lines = 1..Len(lines)
        /\ \A i \in 1..Len(lines) : IsLine(lines[i])
    <3>1. ConfigFile \in Candidate
      BY <1>3, ConfigFileFound
    <3> QED
      BY <1>3, <2>0, <3>1, ScenariosAssumption DEF Lines
  <2>2. PICK default : default =
           [wait_for_session |-> FALSE, send_service_descriptor |-> TRUE,
            exit_on_stdin_eof |-> new.exit_on_stdin_eof,
            exit_on_stdout_eof |-> new.exit_on_stdout_eof, forced |-> None]
    OBVIOUS
  <2>3. /\ default \in Settings /\ default.forced = None
        /\ ~default.wait_for_session /\ default.send_service_descriptor
        /\ ~default.exit_on_stdin_eof /\ ~default.exit_on_stdout_eof
    <3>1. new.exit_on_stdin_eof \in BOOLEAN /\ new.exit_on_stdout_eof \in BOOLEAN
      BY <1>1 DEF qrexec_parsed_command
    <3> QED
      BY <1>1, <2>2, <3>1 DEF Settings
  <2>4. PICK acc : acc = qubes_toml_config_parse(new, lines)
    OBVIOUS
  <2>5. acc = Parses([seen |-> {}, set |-> default], lines)[Len(lines)]
    BY <2>2, <2>4 DEF qubes_toml_config_parse
  <2>6. PICK set : set = acc.set
    OBVIOUS
  <2>7. /\ acc # None
        /\ set.forced # None => /\ set.send_service_descriptor
                                /\ ~set.exit_on_stdin_eof /\ ~set.exit_on_stdout_eof
        /\ load_service_config_v2(new) =
             [new EXCEPT
                    !.username = IF set.forced = None THEN @ ELSE set.forced,
                    !.wait_for_session = set.wait_for_session,
                    !.send_service_descriptor = set.send_service_descriptor,
                    !.exit_on_stdin_eof = set.exit_on_stdin_eof,
                    !.exit_on_stdout_eof = set.exit_on_stdout_eof]
    BY <1>0, <1>3, <2>0, <2>4, <2>6 DEF load_service_config_v2
  <2>8. Read(acc, lines, Len(lines))
    BY <2>1, <2>3, <2>5, <2>7, ParseCorrect
  <2>9. \A key : SetBy(lines, Len(lines), key) <=> IsSet(key)
    BY <2>1 DEF SetBy, IsSet, Values
  <2>10. /\ set \in Settings
         /\ set.wait_for_session <=> IsSet("wait-for-session")
         /\ set.exit_on_stdin_eof <=> IsSet("exit-on-client-eof")
         /\ set.exit_on_stdout_eof <=> IsSet("exit-on-service-eof")
         /\ set.send_service_descriptor <=> ~IsSet("skip-service-descriptor")
    BY <2>6, <2>8, <2>9 DEF Read, Parse
  <2>11. LinesInOrder
    BY <2>1, <2>8 DEF Read, LinesInOrder, Known
  <2>12. /\ set.forced = None => ForcedUser = {}
         /\ set.forced # None => set.forced \in ForcedUser
    BY <2>1, <2>6, <2>8 DEF Read, ForcedUser
  <2>13. PICK command : command = load_service_config_v2(new)
    OBVIOUS
  <2>14. /\ command \in qrexec_parsed_command
         /\ command.service = new.service /\ command.nogui = new.nogui
         /\ command.username = IF set.forced = None THEN user ELSE set.forced
         /\ command.wait_for_session = set.wait_for_session
         /\ command.send_service_descriptor = set.send_service_descriptor
         /\ command.exit_on_stdin_eof = set.exit_on_stdin_eof
         /\ command.exit_on_stdout_eof = set.exit_on_stdout_eof
    <3>1. PICK name, w, d, i, o : /\ name = IF set.forced = None THEN user ELSE set.forced
                                 /\ w = set.wait_for_session /\ d = set.send_service_descriptor
                                 /\ i = set.exit_on_stdin_eof /\ o = set.exit_on_stdout_eof
      OBVIOUS
    <3>2. /\ name \in STRING \cup {None} /\ w \in BOOLEAN /\ d \in BOOLEAN
          /\ i \in BOOLEAN /\ o \in BOOLEAN
      BY <2>10, <3>1 DEF Settings
    <3>3. command = [new EXCEPT !.username = name, !.wait_for_session = w,
                        !.send_service_descriptor = d, !.exit_on_stdin_eof = i,
                        !.exit_on_stdout_eof = o]
      BY <1>1, <2>7, <2>13, <3>1
    <3>4. /\ command \in qrexec_parsed_command
          /\ command.service = new.service /\ command.nogui = new.nogui
          /\ command.username = name /\ command.wait_for_session = w
          /\ command.send_service_descriptor = d
          /\ command.exit_on_stdin_eof = i /\ command.exit_on_stdout_eof = o
      <4>1. new \in qrexec_parsed_command
        BY <1>1
      <4> QED
        BY <3>2, <3>3, <4>1, ZenonT(30) DEF qrexec_parsed_command
    <3> QED
      BY <3>1, <3>4
  <2>15. AsUser(command)
    BY <1>1, <2>11, <2>12, <2>14 DEF AsUser
  <2>16. AsSocket(command)
    BY <2>7, <2>10, <2>12, <2>14 DEF AsSocket
  <2> QED
    BY <1>0, <2>10, <2>13, <2>14, <2>15, <2>16
<1> QED
  BY <1>2, <1>3

-----------------------------------------------------------------------------
(* Every step keeps to the configuration *)

\* The settings are the scenario's, which no step changes.
LEMMA SameScenario ==
    ASSUME scenario' = scenario, NEW CONSTANT command
    PROVE  /\ req' = req
           /\ AsUser(command)' <=> AsUser(command)
           /\ AsSocket(command)' <=> AsSocket(command)
           /\ \A key : IsSet(key)' <=> IsSet(key)
           /\ LinesInOrder' <=> LinesInOrder
           /\ ForcedUser' = ForcedUser
           /\ Lines' = Lines
<1>1. req' = req /\ Lines' = Lines
  <2>1. req' = req
    BY DEF req
  <2>2. PICK there : there = {i \in DOMAIN Order : ~Skipped(Order[i])
                                          /\ scenario.config[Order[i]].stat # "absent"}
    OBVIOUS
  <2>3. there = {i \in DOMAIN Order' : ~Skipped(Order[i])'
                                          /\ scenario'.config[Order'[i]].stat # "absent"}
    BY <2>2 DEF Skipped, req, Order
  <2>4. ConfigFile' = IF there = {} THEN None ELSE Order[Min(there)]
    BY <2>3, SMT DEF ConfigFile, Order
  <2>5. ConfigFile' = ConfigFile
    BY <2>2, <2>4 DEF ConfigFile
  <2> QED
    BY <2>1, <2>5 DEF Lines
<1>2. ForcedUser' = ForcedUser /\ (LinesInOrder' <=> LinesInOrder)
  BY <1>1 DEF ForcedUser, LinesInOrder
<1>3. \A key : IsSet(key)' <=> IsSet(key)
  BY <1>1 DEF IsSet
<1>4. AsUser(command)' <=> AsUser(command)
  BY <1>1, <1>2 DEF AsUser
<1>5. AsSocket(command)' <=> AsSocket(command)
  BY <1>2, <1>3 DEF AsSocket
<1> QED
  BY <1>1, <1>2, <1>3, <1>4, <1>5

\* Nothing has been started, so nothing was started wrongly.
LEMMA NothingStarted == ASSUME started = None PROVE OutcomeAsConfigured
  BY DEF OutcomeAsConfigured

\* What a site makes of the request: handle_server_exec_request_init and
\* wait_for_session_maybe keep a command only if it is the configuration's.
LEMMA ConfiguredCorrect ==
    ASSUME scenario \in Scenarios, NEW user \in STRING \cup {None},
           req.site = "vm" => user = req.user, ~(req.site = "dom0" /\ req.nogui),
           NEW command, command = Configured(parse_qubes_rpc_command(user)), command # None
    PROVE  /\ command \in qrexec_parsed_command
           /\ command.nogui = req.nogui
           /\ command.service <=> req.text = "service"
           /\ command.service => /\ AsUser(command) /\ AsSocket(command)
                                 /\ command.wait_for_session <=> IsSet("wait-for-session")
           /\ ~command.service => ~command.wait_for_session
<1>1. req.text # "malformed"
  BY DEF Configured, parse_qubes_rpc_command
<1>2. PICK new : new = parse_qubes_rpc_command(user)
  OBVIOUS
<1>3. /\ new \in qrexec_parsed_command /\ new # None /\ new.nogui = req.nogui
      /\ new.service <=> req.text = "service"
      /\ ~new.wait_for_session
  BY <1>1, <1>2, NewCommand, NoneAssumption
<1>4. CASE ~new.service
  <2>1. command = new
    BY <1>2, <1>4 DEF Configured
  <2> QED
    BY <1>3, <1>4, <2>1
<1>5. CASE new.service
  <2>1. command = load_service_config_v2(new)
    BY <1>2, <1>3, <1>5 DEF Configured
  <2>2. /\ AsUser(command) /\ AsSocket(command)
        /\ command.wait_for_session <=> IsSet("wait-for-session")
    BY <1>2, <1>3, <1>5, <2>1, LoadCorrect
  <2>3. command \in qrexec_parsed_command /\ command.service /\ command.nogui = req.nogui
    BY <2>2 DEF AsUser
  <2> QED
    BY <1>3, <1>5, <2>2, <2>3
<1> QED
  BY <1>4, <1>5

\* A step that leaves the command alone and starts nothing, and only then goes
\* on from the session wait when that is over.
LEMMA MoveStep ==
    ASSUME ConfigInv, UNCHANGED <<scenario, cmd, started>>, pc # "end",
           session' \in {session, "over"},
           pc' \in Unstarted \cup InProcess \cup {"received", "end"},
           pc' = "received" => pc = "received",
           pc = "received" => pc' = "received",
           pc' \in Unstarted => pc \in Unstarted,
           pc' \in InProcess => pc \in InProcess \/ ~cmd.service,
           pc = "session" => pc' = "session" \/ session' = "over",
           pc' = "fork_server" => qrexec_cmd_use_fork_server(cmd),
           pc' \in {"session", "find", "found"} \cup InProcess => cmd # None
    PROVE  ConfigInv'
<1>1. started' = None
  BY DEF ConfigInv
<1>2. OutcomeAsConfigured'
  BY <1>1 DEF OutcomeAsConfigured
<1>3. req' = req /\ scenario' \in Scenarios /\ \A key : IsSet(key)' <=> IsSet(key)
  BY SameScenario DEF ConfigInv
<1>4. cmd' = None \/ (cmd' \in qrexec_parsed_command /\ (cmd'.service <=> req'.text = "service"))
  BY <1>3 DEF ConfigInv
<1>5. pc' = "fork_server" => qrexec_cmd_use_fork_server(cmd)'
  BY DEF qrexec_cmd_use_fork_server
<1>6. ASSUME cmd' # None, cmd'.service
      PROVE  /\ pc' \in Unstarted \cup InProcess => AsUser(cmd)'
             /\ pc' \in Unstarted => AsSocket(cmd)'
             /\ pc' \in InProcess => ~cmd'.exit_on_stdin_eof /\ ~cmd'.exit_on_stdout_eof
             /\ pc' \in (Unstarted \cup InProcess) \ {"session"} => Waited'
  <2>1. cmd # None /\ cmd.service
    BY <1>6
  <2>2. (LinesInOrder' <=> LinesInOrder) /\ ForcedUser' = ForcedUser
    BY SameScenario
  <2>3. AsUser(cmd)' <=> AsUser(cmd)
    BY <1>3, <2>2 DEF AsUser
  <2>4. AsSocket(cmd)' <=> AsSocket(cmd)
    BY <1>3, <2>2 DEF AsSocket
  <2>5. pc \in Unstarted \/ pc \in InProcess \/ pc = "received"
    BY DEF ConfigInv
  <2>6. pc' \in (Unstarted \cup InProcess) \ {"session"} => Waited'
    BY <1>3, <2>1, <2>5 DEF ConfigInv, Waited, Unstarted, InProcess
  <2>7. pc' \in Unstarted \cup InProcess => AsUser(cmd)'
    BY <2>1, <2>3, <2>5 DEF ConfigInv, Unstarted, InProcess
  <2>8. pc' \in Unstarted => AsSocket(cmd)'
    BY <2>1, <2>4, <2>5 DEF ConfigInv, Unstarted, InProcess
  <2>9. pc' \in InProcess => ~cmd'.exit_on_stdin_eof /\ ~cmd'.exit_on_stdout_eof
    BY <2>1 DEF ConfigInv
  <2> QED
    BY <2>6, <2>7, <2>8, <2>9
<1> QED
  BY <1>1, <1>2, <1>3, <1>4, <1>5, <1>6 DEF ConfigInv

\* The request is parsed and configured: a new command, with the settings of its
\* file, that has waited for the session unless it is to wait now.
LEMMA NewStep ==
    ASSUME ConfigInv, UNCHANGED <<scenario, started>>, pc = "received",
           NEW user \in STRING \cup {None}, req.site = "vm" => user = req.user,
           cmd' = IF req.site = "dom0" /\ req.nogui THEN parse_qubes_rpc_command(user)
                  ELSE Configured(parse_qubes_rpc_command(user)),
           pc' \in {"session", "find"} => cmd' # None,
           \/ pc' \in {"end", "session"}
           \/ /\ pc' \in {"dispatch", "find"}
              /\ \/ session' = "failed"
                 \/ cmd' # None => ~cmd'.service \/ cmd'.nogui \/ ~cmd'.wait_for_session
    PROVE  ConfigInv'
<1>1. started' = None
  BY DEF ConfigInv
<1>2. OutcomeAsConfigured'
  BY <1>1 DEF OutcomeAsConfigured
<1>3. req' = req /\ scenario \in Scenarios /\ scenario' \in Scenarios
  BY SameScenario DEF ConfigInv
<1>4. PICK command : command = cmd'
  OBVIOUS
<1>5. ASSUME command # None
      PROVE  /\ command \in qrexec_parsed_command
             /\ command.nogui = req.nogui
             /\ command.service <=> req.text = "service"
             /\ command.service =>
                   /\ AsUser(command) /\ AsSocket(command)
                   /\ command.wait_for_session \/ req.nogui \/ ~IsSet("wait-for-session")
  <2>1. CASE req.site = "dom0" /\ req.nogui
    <3>1. command = parse_qubes_rpc_command(user) /\ req.text # "malformed"
      BY <1>4, <1>5, <2>1 DEF parse_qubes_rpc_command
    <3>2. Lines = <<>>
      BY <2>1 DEF Lines
    <3>3. /\ command \in qrexec_parsed_command /\ command.nogui = req.nogui
          /\ command.service <=> req.text = "service"
          /\ command.send_service_descriptor
          /\ ~command.exit_on_stdin_eof /\ ~command.exit_on_stdout_eof
      BY <1>3, <3>1, NewCommand
    <3>4. command.service => AsUser(command) /\ AsSocket(command)
      BY <2>1, <3>2, <3>3, NoLines DEF AsUser, AsSocket
    <3> QED
      BY <2>1, <3>3, <3>4
  <2>2. CASE ~(req.site = "dom0" /\ req.nogui)
    <3>1. command = Configured(parse_qubes_rpc_command(user))
      BY <1>4, <2>2
    <3> QED
      BY <1>3, <1>5, <2>2, <3>1, ConfiguredCorrect
  <2> QED
    BY <2>1, <2>2
<1>6. /\ AsUser(command)' <=> AsUser(command)
      /\ AsSocket(command)' <=> AsSocket(command)
      /\ IsSet("wait-for-session")' <=> IsSet("wait-for-session")
  BY SameScenario
<1>7. cmd' = None \/ (cmd' \in qrexec_parsed_command /\ (cmd'.service <=> req'.text = "service"))
  BY <1>3, <1>4, <1>5
<1>8. ASSUME cmd' # None, cmd'.service
      PROVE  /\ AsUser(command)' /\ AsSocket(command)'
             /\ pc' \in {"dispatch", "find"} => Waited'
  BY <1>3, <1>4, <1>5, <1>6, <1>8 DEF Waited
<1>9. (AsUser(command)' => AsUser(cmd)') /\ (AsSocket(command)' => AsSocket(cmd)')
  BY <1>4 DEF AsUser, AsSocket
<1> QED
  BY <1>1, <1>2, <1>3, <1>7, <1>8, <1>9 DEF ConfigInv, Unstarted, InProcess

\* The fork server reads no configuration; it was given the command because that
\* asks for no more than the defaults.
LEMMA ForkServerStep == ConfigInv /\ handle_single_command => ConfigInv'
<1> SUFFICES ASSUME ConfigInv, handle_single_command PROVE ConfigInv'
  OBVIOUS
<1>0. pc = "fork_server" /\ UNCHANGED <<scenario, started, session>> /\ qrexec_cmd_use_fork_server(cmd)
  BY DEF handle_single_command, ConfigInv
<1>1. CASE pc' = "end" /\ cmd' = cmd
  BY <1>0, <1>1, MoveStep DEF Unstarted, InProcess
<1>2. CASE pc' = "child" /\ cmd' = parse_qubes_rpc_command(cmd.username)
  <2>1. /\ cmd # None /\ cmd \in qrexec_parsed_command /\ scenario \in Scenarios
        /\ cmd.send_service_descriptor /\ ~cmd.exit_on_stdin_eof /\ ~cmd.exit_on_stdout_eof
        /\ cmd.service <=> req.text = "service"
    BY <1>0 DEF qrexec_cmd_use_fork_server, ConfigInv
  <2>2. PICK command, user : command = cmd' /\ user = cmd.username
    OBVIOUS
  <2>3. user \in STRING \cup {None}
    BY <2>1, <2>2 DEF qrexec_parsed_command
  <2>4. req' = req /\ scenario' \in Scenarios /\ \A key : IsSet(key)' <=> IsSet(key)
    BY <1>0, <2>1, SameScenario
  <2>5. /\ AsUser(command)' <=> AsUser(command)
        /\ AsSocket(command)' <=> AsSocket(command)
    BY <1>0, SameScenario
  <2>6. started' = None
    BY <1>0 DEF ConfigInv
  <2>7. OutcomeAsConfigured'
    BY <2>6 DEF OutcomeAsConfigured
  <2>8. ASSUME command # None
        PROVE  /\ command \in qrexec_parsed_command
               /\ command.username = user /\ command.nogui = req.nogui
               /\ command.service <=> req.text = "service"
               /\ command.send_service_descriptor
               /\ ~command.exit_on_stdin_eof /\ ~command.exit_on_stdout_eof
    <3>1. command = parse_qubes_rpc_command(user)
      BY <1>2, <2>2
    <3>2. req.text # "malformed"
      BY <2>8, <3>1 DEF parse_qubes_rpc_command
    <3> QED
      BY <2>1, <2>3, <3>1, <3>2, NewCommand
  <2>9. ASSUME command # None, command.service
        PROVE  AsUser(command) /\ AsSocket(command) /\ Waited
    <3>1. AsUser(cmd) /\ AsSocket(cmd) /\ Waited
      BY <1>0, <2>1, <2>8, <2>9 DEF ConfigInv, Unstarted
    <3>2. AsUser(command)
      BY <2>2, <2>8, <2>9, <3>1 DEF AsUser
    <3>3. AsSocket(command)
      BY <2>1, <2>8, <2>9, <3>1 DEF AsSocket
    <3> QED
      BY <3>1, <3>2, <3>3
  <2>10. Waited => Waited'
    BY <1>0, <2>4 DEF Waited
  <2>11. (AsUser(command)' => AsUser(cmd)') /\ (AsSocket(command)' => AsSocket(cmd)')
    BY <2>2 DEF AsUser, AsSocket
  <2>12. cmd' = None \/ (cmd' \in qrexec_parsed_command /\ (cmd'.service <=> req'.text = "service"))
    BY <2>2, <2>4, <2>8
  <2>13. (cmd' # None /\ cmd'.service) => AsUser(cmd)' /\ AsSocket(cmd)' /\ Waited'
    BY <2>2, <2>5, <2>9, <2>10, <2>11
  <2> QED
    BY <1>2, <2>4, <2>6, <2>7, <2>12, <2>13 DEF ConfigInv, Unstarted, InProcess
<1> QED
  BY <1>1, <1>2 DEF handle_single_command, Report

\* The file found is executed: the settings meant for sockets are dropped.
LEMMA ForkServiceStep == ConfigInv /\ fork_service => ConfigInv'
<1> SUFFICES ASSUME ConfigInv, fork_service PROVE ConfigInv'
  OBVIOUS
<1>0. pc = "found" /\ UNCHANGED <<scenario, started, session>> /\ pc' \in {"exec", "end"}
  BY DEF fork_service, Fork, Report
<1>1. CASE cmd' = cmd /\ pc' = "end"
  BY <1>0, <1>1, MoveStep DEF Unstarted, InProcess
<1>2. CASE cmd' = [cmd EXCEPT !.exit_on_stdin_eof = FALSE, !.exit_on_stdout_eof = FALSE]
  <2>1. started' = None
    BY <1>0 DEF ConfigInv
  <2>2. OutcomeAsConfigured'
    BY <2>1 DEF OutcomeAsConfigured
  <2>3. cmd # None
    BY <1>0 DEF ConfigInv
  <2>4. PICK command, old : command = cmd' /\ old = cmd
    OBVIOUS
  <2>5. /\ old \in qrexec_parsed_command /\ (old.service <=> req.text = "service")
        /\ scenario \in Scenarios
    BY <2>3, <2>4 DEF ConfigInv
  <2>6. /\ command \in qrexec_parsed_command
        /\ command.username = old.username /\ command.nogui = old.nogui
        /\ command.service = old.service
        /\ command.exit_on_stdin_eof = FALSE /\ command.exit_on_stdout_eof = FALSE
    <3>1. command = [old EXCEPT !.exit_on_stdin_eof = FALSE, !.exit_on_stdout_eof = FALSE]
      BY <1>2, <2>4
    <3>2. old \in qrexec_parsed_command
      BY <2>5
    <3> QED
      BY <3>1, <3>2 DEF qrexec_parsed_command
  <2>7. req' = req /\ scenario' \in Scenarios /\ \A key : IsSet(key)' <=> IsSet(key)
    BY <1>0, <2>5, SameScenario
  <2>8. AsUser(command)' <=> AsUser(command)
    BY <1>0, SameScenario
  <2>9. old.service => AsUser(command)' /\ Waited'
    <3>1. old.service => AsUser(old) /\ Waited
      BY <1>0, <2>3, <2>4 DEF ConfigInv, Unstarted
    <3>2. AsUser(old) => AsUser(command)
      BY <2>6 DEF AsUser
    <3> QED
      BY <1>0, <2>7, <2>8, <3>1, <3>2 DEF Waited
  <2>10. cmd' \in qrexec_parsed_command /\ (cmd'.service <=> req'.text = "service")
    BY <2>4, <2>5, <2>6, <2>7
  <2>11. cmd'.service => AsUser(cmd)' /\ Waited'
    BY <2>4, <2>6, <2>9 DEF AsUser
  <2>12. ~cmd'.exit_on_stdin_eof /\ ~cmd'.exit_on_stdout_eof
    BY <2>4, <2>6
  <2> QED
    BY <1>0, <2>1, <2>2, <2>7, <2>10, <2>11, <2>12, NoneAssumption DEF ConfigInv, Unstarted, InProcess
<1> QED
  BY <1>1, <1>2 DEF fork_service, Report

\* A socket gets the settings of the command as it is.
LEMMA ConnectStep == ConfigInv /\ connect_service => ConfigInv'
<1> SUFFICES ASSUME ConfigInv, connect_service PROVE ConfigInv'
  OBVIOUS
<1>0. pc = "found" /\ pc' = "end" /\ UNCHANGED <<scenario, cmd, session>> /\ cmd # None
  BY DEF connect_service, Report, Connected, ConfigInv
<1>1. CASE started' = started
  BY <1>0, <1>1, MoveStep DEF Unstarted, InProcess
<1>2. ASSUME NEW how \in {"socket", "tcp"}, NEW at, NEW address, Connected(how, at, address)
      PROVE  ConfigInv'
  <2>1. how \in {"socket", "tcp"} /\ Connected(how, at, address)
    BY <1>2
  <2>2. PICK s : s = started'
    OBVIOUS
  <2>3. /\ s.how = how
        /\ s.descriptor = cmd.send_service_descriptor
        /\ s.stdin_eof = cmd.exit_on_stdin_eof
        /\ s.stdout_eof = cmd.exit_on_stdout_eof
    BY <2>1, <2>2 DEF Connected
  <2>4. /\ req' = req /\ scenario' \in Scenarios /\ ForcedUser' = ForcedUser
        /\ (LinesInOrder' <=> LinesInOrder) /\ \A key : IsSet(key)' <=> IsSet(key)
    BY <1>0, SameScenario DEF ConfigInv
  <2>5. ASSUME cmd.service PROVE OutcomeAsConfigured'
    <3>1. AsUser(cmd) /\ AsSocket(cmd) /\ Waited
      BY <1>0, <2>5 DEF ConfigInv, Unstarted
    <3>2. cmd \in qrexec_parsed_command /\ LinesInOrder'
      BY <2>4, <3>1 DEF AsUser
    <3>3. /\ s.descriptor \in BOOLEAN /\ s.stdin_eof \in BOOLEAN /\ s.stdout_eof \in BOOLEAN
      BY <2>3, <3>2 DEF qrexec_parsed_command
    <3>4. /\ s.descriptor <=> ~IsSet("skip-service-descriptor")'
          /\ s.stdin_eof <=> IsSet("exit-on-client-eof")'
          /\ s.stdout_eof <=> IsSet("exit-on-service-eof")'
          /\ ForcedUser' = {} \/ (s.descriptor /\ ~s.stdin_eof /\ ~s.stdout_eof)
      BY <2>3, <2>4, <3>1 DEF AsSocket
    <3>5. (IsSet("wait-for-session")' /\ ~req'.nogui) => session' \in {"over", "failed"}
      BY <1>0, <2>4, <3>1 DEF Waited
    <3>6. s.how \in {"socket", "tcp"} /\ s.how # "file"
      BY <2>1, <2>3
    <3>7. IsSet("skip-service-descriptor")' \in BOOLEAN /\ IsSet("exit-on-client-eof")' \in BOOLEAN
          /\ IsSet("exit-on-service-eof")' \in BOOLEAN
      BY DEF IsSet
    <3>8. /\ s.descriptor = ~IsSet("skip-service-descriptor")'
          /\ s.stdin_eof = IsSet("exit-on-client-eof")'
          /\ s.stdout_eof = IsSet("exit-on-service-eof")'
      BY <3>3, <3>4, <3>7
    <3> QED
      BY <2>2, <3>2, <3>4, <3>5, <3>6, <3>8 DEF OutcomeAsConfigured, LinesInOrder
  <2>6. ~cmd.service => OutcomeAsConfigured'
    BY <1>0 DEF OutcomeAsConfigured
  <2> QED
    BY <1>0, <2>4, <2>5, <2>6 DEF ConfigInv, Unstarted, InProcess
<1>3. PICK at, address : at = found.at /\ address = tcp_address(found.kind)
  OBVIOUS
<1>4. started' = started \/ Connected("socket", at, None) \/ Connected("tcp", at, address)
  BY <1>3 DEF connect_service
<1>5. CASE Connected("socket", at, None)
  BY <1>2, <1>5
<1>6. CASE Connected("tcp", at, address)
  BY <1>2, <1>6
<1> QED
  BY <1>1, <1>4, <1>5, <1>6

\* The file is executed, as the user of the command.
LEMMA RunStep == ConfigInv /\ run_file => ConfigInv'
<1> SUFFICES ASSUME ConfigInv, run_file PROVE ConfigInv'
  OBVIOUS
<1>0. pc = "run" /\ pc' = "end" /\ UNCHANGED <<scenario, cmd, session>> /\ cmd # None
  BY DEF run_file, Report, ConfigInv, InProcess
<1>1. CASE started' = started
  BY <1>0, <1>1, MoveStep DEF Unstarted, InProcess
<1>2. CASE started' # started
  <2>1. PICK s : s = started'
    OBVIOUS
  <2>2. /\ s.how = "file" /\ s.username = RunsAs
        /\ s.stdin_eof = cmd.exit_on_stdin_eof
        /\ s.stdout_eof = cmd.exit_on_stdout_eof
    <3>1. PICK c, user, i, o : /\ c = MultiplexerOrder[pos] /\ user = RunsAs
                              /\ i = cmd.exit_on_stdin_eof /\ o = cmd.exit_on_stdout_eof
      OBVIOUS
    <3>2. s = [how |-> "file", at |-> c, address |-> None, username |-> user,
               descriptor |-> TRUE, stdin_eof |-> i, stdout_eof |-> o]
      BY <1>2, <2>1, <3>1 DEF run_file
    <3>3. s.how = "file" /\ s.username = user /\ s.stdin_eof = i /\ s.stdout_eof = o
      BY <3>2
    <3> QED
      BY <3>1, <3>3
  <2>3. /\ req' = req /\ scenario' \in Scenarios /\ ForcedUser' = ForcedUser
        /\ (LinesInOrder' <=> LinesInOrder) /\ \A key : IsSet(key)' <=> IsSet(key)
    BY <1>0, SameScenario DEF ConfigInv
  <2>4. ASSUME cmd.service PROVE OutcomeAsConfigured'
    <3>1. AsUser(cmd) /\ Waited /\ ~cmd.exit_on_stdin_eof /\ ~cmd.exit_on_stdout_eof
      BY <1>0, <2>4 DEF ConfigInv, InProcess
    <3>2. LinesInOrder' /\ ~s.stdin_eof /\ ~s.stdout_eof
      BY <2>2, <2>3, <3>1 DEF AsUser
    <3>3. req'.site = "vm" =>
            IF ForcedUser' = {} THEN s.username = req'.user ELSE s.username \in ForcedUser'
      BY <2>2, <2>3, <3>1 DEF AsUser, RunsAs
    <3>4. (IsSet("wait-for-session")' /\ ~req'.nogui) => session' \in {"over", "failed"}
      BY <1>0, <2>3, <3>1 DEF Waited
    <3> QED
      BY <2>1, <2>2, <3>2, <3>3, <3>4 DEF OutcomeAsConfigured, LinesInOrder
  <2>5. ~cmd.service => OutcomeAsConfigured'
    BY <1>0 DEF OutcomeAsConfigured
  <2> QED
    BY <1>0, <2>3, <2>4, <2>5 DEF ConfigInv, Unstarted, InProcess
<1> QED
  BY <1>1, <1>2

\* The invariant holds when the request is received.
LEMMA ConfigInitially == Init => ConfigInv
  BY DEF Init, ConfigInv, OutcomeAsConfigured, Unstarted, InProcess

\* Every step keeps the command what the configuration makes of the request.
LEMMA ConfigInductive == ConfigInv /\ [Next]_vars => ConfigInv'
<1> SUFFICES ASSUME ConfigInv, [Next]_vars PROVE ConfigInv'
  OBVIOUS
<1>0. /\ scenario \in Scenarios /\ req.user \in STRING
      /\ pc \in {"session", "find", "found"} \cup InProcess => cmd # None
  BY ScenariosAssumption DEF ConfigInv, req, Request
<1>1. CASE handle_server_exec_request_init
  BY <1>0, <1>1, NewStep DEF handle_server_exec_request_init
<1>2. CASE wait_for_session_maybe
  <2>1. PICK command, configured :
          /\ command = parse_qubes_rpc_command(None)
          /\ configured = IF command = None \/ command.nogui THEN command ELSE Configured(command)
          /\ IF configured = None
             THEN Report(125) /\ UNCHANGED <<cmd, session>>
             ELSE /\ cmd' = configured
                  /\ IF configured.wait_for_session
                     THEN \/ pc' = "session" /\ session' = "waiting" /\ UNCHANGED code
                          \/ Report(125) /\ session' = "failed"
                     ELSE pc' = "find" /\ UNCHANGED <<session, code>>
    BY <1>2 DEF wait_for_session_maybe
  <2>2. pc = "received" /\ req.site = "dom0" /\ UNCHANGED <<scenario, started>> /\ cmd = None
    BY <1>2 DEF wait_for_session_maybe, ConfigInv
  <2>3. configured = IF req.site = "dom0" /\ req.nogui THEN parse_qubes_rpc_command(None)
                     ELSE Configured(parse_qubes_rpc_command(None))
    <3>1. CASE req.text = "malformed"
      BY <2>1, <3>1 DEF parse_qubes_rpc_command, Configured
    <3>2. CASE req.text # "malformed"
      <4>1. command # None /\ command.nogui = req.nogui
        BY <1>0, <2>1, <3>2, NewCommand, NoneAssumption
      <4> QED
        BY <2>1, <2>2, <4>1
    <3> QED
      BY <3>1, <3>2
  <2>4. cmd' = configured
    BY <2>1, <2>2
  <2>5. /\ pc' \in {"end", "session", "find"}
        /\ pc' # "end" => configured # None
        /\ pc' = "find" => ~configured.wait_for_session
    BY <2>1 DEF Report
  <2>6. QED
    BY <2>2, <2>3, <2>4, <2>5, NewStep
<1>3. CASE session_over
  <2>1. /\ pc = "session" /\ session' = "over" /\ pc' \in {"dispatch", "find"}
        /\ UNCHANGED <<scenario, cmd, started>>
    BY <1>3 DEF session_over
  <2> QED
    BY <1>0, <2>1, MoveStep DEF Unstarted, InProcess
<1>4. CASE handle_server_exec_request_do
  <2>1. /\ pc = "dispatch" /\ session' = session /\ pc' \in {"child", "fork_server"}
        /\ UNCHANGED <<scenario, cmd, started>>
        /\ pc' = "fork_server" => qrexec_cmd_use_fork_server(cmd)
    BY <1>4 DEF handle_server_exec_request_do
  <2> QED
    BY <2>1, MoveStep DEF Unstarted, InProcess
<1>5. CASE handle_single_command
  BY <1>5, ForkServerStep
<1>6. CASE handle_new_process_common
  <2>1. /\ pc = "child" /\ session' = session /\ pc' \in {"find", "end"}
        /\ UNCHANGED <<scenario, cmd, started>> /\ (pc' = "find" => cmd # None)
    BY <1>6 DEF handle_new_process_common, Report
  <2> QED
    BY <2>1, MoveStep DEF Unstarted, InProcess
<1>7. CASE find_file
  <2>1. /\ pc = "find" /\ session' = session /\ pc' \in {"find", "found", "end"}
        /\ UNCHANGED <<scenario, cmd, started>>
    BY <1>7 DEF find_file, Report
  <2> QED
    BY <1>0, <2>1, MoveStep DEF Unstarted, InProcess
<1>8. CASE connect_service
  BY <1>8, ConnectStep
<1>9. CASE fork_service
  BY <1>9, ForkServiceStep
<1>10. CASE fork_shell
  <2>1. /\ pc = "find" /\ session' = session /\ pc' \in {"exec", "end"}
        /\ UNCHANGED <<scenario, cmd, started>> /\ ~cmd.service
    BY <1>10 DEF fork_shell, Fork, Report
  <2> QED
    BY <1>0, <2>1, MoveStep DEF Unstarted, InProcess
<1>11. CASE do_exec
  <2>1. /\ pc = "exec" /\ pc' \in {"end", "multiplexer"} /\ UNCHANGED <<scenario, cmd, session>>
        /\ \/ UNCHANGED started
           \/ ~cmd.service /\ pc' = "end"
    BY <1>11 DEF do_exec, exec_qubes_rpc_if_requested, Report
  <2>2. CASE UNCHANGED started
    BY <1>0, <2>1, <2>2, MoveStep DEF Unstarted, InProcess
  <2>3. CASE ~cmd.service /\ pc' = "end"
    <3>1. OutcomeAsConfigured'
      BY <2>1, <2>3 DEF OutcomeAsConfigured
    <3>2. req' = req
      BY <2>1 DEF req
    <3> QED
      BY <2>1, <2>3, <3>1, <3>2 DEF ConfigInv, Unstarted, InProcess
  <2> QED
    BY <2>1, <2>2, <2>3
<1>12. CASE multiplexer
  <2>1. /\ pc = "multiplexer" /\ pc' \in {"multiplexer", "run", "end"}
        /\ UNCHANGED <<scenario, cmd, session, started>>
    BY <1>12 DEF multiplexer, Report
  <2> QED
    BY <1>0, <2>1, MoveStep DEF Unstarted, InProcess
<1>13. CASE run_file
  BY <1>13, RunStep
<1>14. CASE \E c \in Candidate, kind \in {"absent", "exec", "socket"} : install(c, kind)
  <2>1. pc # "end" /\ pc' = pc /\ UNCHANGED <<scenario, cmd, session, started>>
    BY <1>14 DEF install
  <2>2. pc' \in Unstarted \cup InProcess \cup {"received", "end"}
    BY <2>1 DEF ConfigInv
  <2>3. pc' = "fork_server" => qrexec_cmd_use_fork_server(cmd)
    BY <2>1 DEF ConfigInv
  <2> QED
    BY <1>0, <2>1, <2>2, <2>3, MoveStep
<1>15. CASE UNCHANGED vars
  <2>1. UNCHANGED <<scenario, pc, cmd, session, started>>
    BY <1>15 DEF vars
  <2>2. CASE pc # "end"
    <3>1. pc' \in Unstarted \cup InProcess \cup {"received", "end"}
      BY <2>1 DEF ConfigInv
    <3>2. pc' = "fork_server" => qrexec_cmd_use_fork_server(cmd)
      BY <2>1 DEF ConfigInv
    <3> QED
      BY <1>0, <2>1, <2>2, <3>1, <3>2, MoveStep
  <2>3. CASE pc = "end"
    <3>1. /\ req' = req /\ scenario' \in Scenarios /\ ForcedUser' = ForcedUser
          /\ (LinesInOrder' <=> LinesInOrder) /\ \A key : IsSet(key)' <=> IsSet(key)
      BY <1>0, <2>1, SameScenario
    <3>2. OutcomeAsConfigured'
      <4>1. ASSUME started # None, cmd.service PROVE OutcomeAsConfigured'
        <5>1. PICK s, a, b, c : /\ s = started
                                /\ a = ~IsSet("skip-service-descriptor")
                                /\ b = IsSet("exit-on-client-eof")
                                /\ c = IsSet("exit-on-service-eof")
          OBVIOUS
        <5>2. /\ a = ~IsSet("skip-service-descriptor")'
              /\ b = IsSet("exit-on-client-eof")'
              /\ c = IsSet("exit-on-service-eof")'
          <6>1. \A key : IsSet(key) \in BOOLEAN /\ IsSet(key)' \in BOOLEAN
            BY DEF IsSet
          <6>2. a \in BOOLEAN /\ b \in BOOLEAN /\ c \in BOOLEAN
            BY <5>1, <6>1
          <6>3. /\ a <=> ~IsSet("skip-service-descriptor")'
                /\ b <=> IsSet("exit-on-client-eof")'
                /\ c <=> IsSet("exit-on-service-eof")'
            BY <3>1, <5>1
          <6> QED
            BY <6>1, <6>2, <6>3
        <5>3. /\ LinesInOrder
              /\ s.how \in {"socket", "tcp"} =>
                    /\ s.descriptor = a /\ s.stdin_eof = b /\ s.stdout_eof = c
                    /\ ForcedUser = {} \/ (s.descriptor /\ ~s.stdin_eof /\ ~s.stdout_eof)
              /\ s.how = "file" =>
                    /\ ~s.stdin_eof /\ ~s.stdout_eof
                    /\ req.site = "vm" =>
                          IF ForcedUser = {} THEN s.username = req.user
                          ELSE s.username \in ForcedUser
              /\ (IsSet("wait-for-session") /\ ~req.nogui) => session \in {"over", "failed"}
          BY <4>1, <5>1 DEF OutcomeAsConfigured, LinesInOrder, ConfigInv
        <5>4. LinesInOrder' /\ started' = s
          BY <2>1, <3>1, <5>1, <5>3
        <5>5. (IsSet("wait-for-session")' /\ ~req'.nogui) => session' \in {"over", "failed"}
          BY <2>1, <3>1, <5>3
        <5> QED
          BY <3>1, <5>2, <5>3, <5>4, <5>5 DEF OutcomeAsConfigured, LinesInOrder
      <4> QED
        BY <2>1, <4>1 DEF OutcomeAsConfigured
    <3> QED
      BY <2>1, <2>3, <3>1, <3>2 DEF ConfigInv, Unstarted, InProcess
  <2> QED
    BY <2>2, <2>3
<1> QED
  BY <1>1, <1>2, <1>3, <1>4, <1>5, <1>6, <1>7, <1>8, <1>9, <1>10, <1>11, <1>12, <1>13, <1>14,
     <1>15 DEF Next

\* Whatever way the request took, a service runs with the settings of its
\* configuration file, and none runs with a file that is in error.
THEOREM ConfigurationApplied == Spec => []OutcomeAsConfigured
<1>1. ConfigInv => OutcomeAsConfigured
  BY DEF ConfigInv
<1> QED
  BY ConfigInitially, ConfigInductive, <1>1, PTL DEF Spec

-----------------------------------------------------------------------------
(* validate_port compares text; a port is a number *)

\* The number of a prefix is computed from the number of the one before it.
LEMMA NumbersStep ==
    ASSUME NEW p, Len(p) \in Nat
    PROVE  Numbers(p) = [n \in 0..Len(p) |-> IF n = 0 THEN 0 ELSE 10 * Numbers(p)[n - 1] + p[n]]
<1> DEFINE N == Len(p)
           Upto(k, g) == g = [n \in 0..k |-> IF n = 0 THEN 0 ELSE 10 * g[n - 1] + p[n]]
           S == {k \in 0..N : \E g : Upto(k, g)}
<1>1. 0 \in S
  <2>1. PICK g : g = [n \in 0..0 |-> 0]
    OBVIOUS
  <2>2. \A n \in 0..0 : n = 0
    BY SMT
  <2>3. Upto(0, g)
    BY <2>1, <2>2
  <2>4. 0 \in 0..N
    BY SMT
  <2> QED
    BY <2>3, <2>4
<1>2. ASSUME NEW k \in 0..N - 1, k \in S PROVE k + 1 \in S
  <2>1. PICK g : Upto(k, g)
    BY <1>2
  <2>2. PICK h : h = [n \in 0..k + 1 |-> IF n = k + 1 THEN 10 * g[k] + p[n] ELSE g[n]]
    OBVIOUS
  <2>3. /\ \A n \in 0..k + 1 : n # k + 1 => n \in 0..k
        /\ \A n \in 0..k + 1 : n # 0 => n - 1 \in 0..k + 1 /\ n - 1 # k + 1
        /\ k + 1 # 0 /\ (k + 1) - 1 = k /\ k + 1 \in 0..k + 1
    BY SMT
  <2>4. ASSUME NEW n \in 0..k + 1
        PROVE  h[n] = IF n = 0 THEN 0 ELSE 10 * h[n - 1] + p[n]
    <3>1. CASE n = k + 1
      BY <2>2, <2>3, <3>1
    <3>2. CASE n # k + 1
      <4>1. n \in 0..k
        BY <2>3, <3>2
      <4>2. g[n] = IF n = 0 THEN 0 ELSE 10 * g[n - 1] + p[n]
        BY <2>1, <4>1
      <4>3. n # 0 => h[n - 1] = g[n - 1]
        BY <2>2, <2>3
      <4> QED
        BY <2>2, <3>2, <4>2, <4>3
    <3> QED
      BY <3>1, <3>2
  <2>5. Upto(k + 1, h)
    BY <2>2, <2>4
  <2>6. k + 1 \in 0..N
    BY SMT
  <2> QED
    BY <2>5, <2>6
<1>3. 0..N \subseteq S
  <2> HIDE DEF S
  <2> QED
    BY <1>1, <1>2, UpTo
<1>4. \E g : Upto(N, g)
  BY <1>3, SMT
<1> QED
  BY <1>4 DEF Numbers

\* A number of n digits, the first of which is not 0, has at least n digits.
Digits(n, x) ==
    /\ x \in Nat
    /\ n >= 1 => x >= 1
    /\ n >= 2 => x >= 10
    /\ n >= 3 => x >= 100
    /\ n >= 4 => x >= 1000
    /\ n >= 5 => x >= 10000
    /\ n >= 6 => x >= 100000

\* One digit more: the accumulation of the text's number.
LEMMA OneMoreDigit ==
    ASSUME NEW n \in Nat, NEW x, NEW d \in 0..10, Digits(n, x), n = 0 => d # 0
    PROVE  Digits(n + 1, 10 * x + d)
  BY SMT DEF Digits

\* What the text of a port stands for, digit by digit.
LEMMA NumbersLarge ==
    ASSUME NEW p \in Seq(0..10), p # <<>>, p[1] # 0
    PROVE  /\ \A n \in 0..Len(p) : Digits(n, Numbers(p)[n])
           /\ Numbers(p)[0] = 0
           /\ \A n \in 1..Len(p) : Numbers(p)[n] = 10 * Numbers(p)[n - 1] + p[n]
<1>1. PICK f : f = Numbers(p)
  OBVIOUS
<1>2. Len(p) \in Nat /\ \A n \in 1..Len(p) : p[n] \in 0..10
  BY SMT
<1>3. f = [n \in 0..Len(p) |-> IF n = 0 THEN 0 ELSE 10 * f[n - 1] + p[n]]
  BY <1>1, <1>2, NumbersStep, SMT
<1>4. f[0] = 0 /\ \A n \in 1..Len(p) : f[n] = 10 * f[n - 1] + p[n]
  <2>1. 0 \in 0..Len(p) /\ \A n \in 1..Len(p) : n \in 0..Len(p) /\ n # 0
    BY <1>2, SMT
  <2> QED
    BY <1>3, <2>1
<1>5. PICK S : S = {n \in 0..Len(p) : Digits(n, f[n])}
  OBVIOUS
<1>6. 0 \in S
  <2>1. Digits(0, 0) /\ 0 \in 0..Len(p)
    BY <1>2, SMT DEF Digits
  <2> QED
    BY <1>4, <1>5, <2>1
<1>7. ASSUME NEW n \in 0..Len(p) - 1, n \in S PROVE n + 1 \in S
  <2>1. /\ n + 1 \in 1..Len(p) /\ n + 1 \in 0..Len(p) /\ (n + 1) - 1 = n
        /\ p[n + 1] \in 0..10 /\ (n = 0 => p[n + 1] # 0) /\ n \in Nat
    BY <1>2, SMT
  <2>2. f[n + 1] = 10 * f[n] + p[n + 1]
    BY <1>4, <2>1
  <2>3. Digits(n + 1, f[n + 1])
    BY <1>5, <1>7, <2>1, <2>2, OneMoreDigit
  <2> QED
    BY <1>5, <2>1, <2>3
<1>8. 0..Len(p) \subseteq S
  BY <1>2, <1>6, <1>7, UpTo
<1> QED
  BY <1>1, <1>4, <1>5, <1>8

\* Five digits as text and as a number: compared with 65535.
LEMMA Lexicographic ==
    ASSUME NEW a \in 1..9, NEW b \in 0..9, NEW c \in 0..9, NEW d \in 0..9, NEW e \in 0..9
    PROVE  10 * (10 * (10 * (10 * (10 * 0 + a) + b) + c) + d) + e <= 65535 <=>
             \/ a < 6
             \/ a = 6 /\ b < 5
             \/ a = 6 /\ b = 5 /\ c < 5
             \/ a = 6 /\ b = 5 /\ c = 5 /\ d < 3
             \/ a = 6 /\ b = 5 /\ c = 5 /\ d = 3 /\ e <= 5
  BY SMT

\* validate_port accepts exactly the decimal numbers from 1 to 65535 that have no
\* leading zero: the comparison of a text of five digits with "65535", digit by
\* digit, is the comparison of the numbers.
LEMMA ValidatePort ==
    ASSUME NEW p \in Seq(0..10)
    PROVE  validate_port(p) <=> IsPort(p)
<1>0. Len(p) \in Nat /\ DOMAIN p = 1..Len(p) /\ \A n \in 1..Len(p) : p[n] \in 0..10
  BY SMT
<1>1. CASE p = <<>> \/ p[1] \notin 1..9 \/ \E i \in 2..Len(p) : p[i] \notin 0..9
  <2>1. ~validate_port(p)
    BY <1>1 DEF validate_port
  <2>2. ~(/\ p # <<>> /\ \A i \in DOMAIN p : p[i] < 10
          /\ p[1] # 0)
    BY <1>0, <1>1, SMTT(30)
  <2>3. IsPort(p) => /\ p # <<>> /\ \A i \in DOMAIN p : p[i] < 10
                     /\ p[1] # 0
    BY SMT DEF IsPort
  <2> QED
    BY <2>1, <2>2, <2>3
<1>2. CASE p # <<>> /\ p[1] \in 1..9 /\ \A i \in 2..Len(p) : p[i] \in 0..9
  <2>1. /\ Len(p) >= 1 /\ \A i \in DOMAIN p : p[i] \in 0..9 /\ p[i] < 10
        /\ p[1] # 0
    BY <1>0, <1>2, SMT
  <2>2. PICK f : f = Numbers(p)
    OBVIOUS
  <2>3. /\ \A n \in 0..Len(p) : Digits(n, f[n])
        /\ f[0] = 0
        /\ \A n \in 1..Len(p) : f[n] = 10 * f[n - 1] + p[n]
    BY <1>2, <2>1, <2>2, NumbersLarge
  <2>4. IsPort(p) <=> f[Len(p)] <= 65535
    BY <1>2, <2>1, <2>2, SMT DEF IsPort, PortNumber
  <2>5. validate_port(p) <=>
           \/ Len(p) < 5
           \/ /\ Len(p) = 5
              /\ \/ p = MAXPORT
                 \/ \E i \in 1..Len(p) : /\ p[i] < MAXPORT[i]
                                         /\ \A j \in 1..i - 1 : p[j] = MAXPORT[j]
    <3>1. Len(MAXPORT) = 5
      BY SMT DEF MAXPORT
    <3> QED
      BY <1>2, <3>1 DEF validate_port
  <2>6. CASE Len(p) >= 6
    <3>1. Len(p) \in 0..Len(p)
      BY <1>0, SMT
    <3>2. PICK x : x = f[Len(p)] /\ Digits(Len(p), x)
      BY <2>3, <3>1
    <3>3. ~(x <= 65535)
      BY <1>0, <2>6, <3>2, SMT DEF Digits
    <3>4. ~(Len(p) < 5) /\ Len(p) # 5
      BY <1>0, <2>6, SMT
    <3>5. ~validate_port(p)
      BY <2>5, <3>4
    <3> QED
      BY <2>4, <3>2, <3>3, <3>5, SMT
  <2>7. CASE Len(p) = 5
    <3>1. PICK a, b, c, d, e : a = p[1] /\ b = p[2] /\ c = p[3] /\ d = p[4] /\ e = p[5]
      OBVIOUS
    <3>2. a \in 1..9 /\ b \in 0..9 /\ c \in 0..9 /\ d \in 0..9 /\ e \in 0..9
      BY <1>2, <2>7, <3>1, SMT
    <3>3. f[5] = 10 * (10 * (10 * (10 * (10 * 0 + a) + b) + c) + d) + e
      <4>1. /\ f[1] = 10 * f[0] + p[1] /\ f[2] = 10 * f[1] + p[2] /\ f[3] = 10 * f[2] + p[3]
            /\ f[4] = 10 * f[3] + p[4] /\ f[5] = 10 * f[4] + p[5]
        BY <2>3, <2>7, SMT
      <4> QED
        BY <2>3, <3>1, <4>1, SMT
    <3>4. f[5] <= 65535 <=>
             \/ a < 6
             \/ a = 6 /\ b < 5
             \/ a = 6 /\ b = 5 /\ c < 5
             \/ a = 6 /\ b = 5 /\ c = 5 /\ d < 3
             \/ a = 6 /\ b = 5 /\ c = 5 /\ d = 3 /\ e <= 5
      BY <3>2, <3>3, Lexicographic, SMT
    <3>5. p = MAXPORT <=> a = 6 /\ b = 5 /\ c = 5 /\ d = 3 /\ e = 5
      BY <2>7, <3>1, SMT DEF MAXPORT
    <3>6. (\E i \in 1..Len(p) : p[i] < MAXPORT[i] /\ \A j \in 1..i - 1 : p[j] = MAXPORT[j]) <=>
             \/ a < 6
             \/ a = 6 /\ b < 5
             \/ a = 6 /\ b = 5 /\ c < 5
             \/ a = 6 /\ b = 5 /\ c = 5 /\ d < 3
             \/ a = 6 /\ b = 5 /\ c = 5 /\ d = 3 /\ e < 5
      BY <2>7, <3>1, SMT DEF MAXPORT
    <3>7. e <= 5 <=> e < 5 \/ e = 5
      BY <3>2, SMT
    <3>8. validate_port(p) <=> f[5] <= 65535
      BY <2>5, <2>7, <3>4, <3>5, <3>6, <3>7, SMT
    <3> QED
      BY <2>4, <2>7, <3>8, SMT
  <2>8. CASE Len(p) < 5
    <3>1. validate_port(p)
      BY <2>5, <2>8
    <3>2. /\ \A n \in 1..Len(p) : f[n] = 10 * f[n - 1] + p[n] /\ p[n] \in 0..9
          /\ f[0] = 0
      BY <1>0, <2>1, <2>3
    <3>3. /\ Len(p) >= 1 => f[1] = 10 * f[0] + p[1] /\ p[1] \in 0..9
          /\ Len(p) >= 2 => f[2] = 10 * f[1] + p[2] /\ p[2] \in 0..9
          /\ Len(p) >= 3 => f[3] = 10 * f[2] + p[3] /\ p[3] \in 0..9
          /\ Len(p) >= 4 => f[4] = 10 * f[3] + p[4] /\ p[4] \in 0..9
      BY <1>0, <3>2, SMT
    <3>4. PICK n, x0, x1, x2, x3, x4, a, b, c, d :
             /\ n = Len(p) /\ x0 = f[0] /\ x1 = f[1] /\ x2 = f[2] /\ x3 = f[3] /\ x4 = f[4]
             /\ a = p[1] /\ b = p[2] /\ c = p[3] /\ d = p[4]
      OBVIOUS
    <3>5. /\ n \in 1..4 /\ x0 = 0
          /\ n >= 1 => x1 = 10 * x0 + a /\ a \in 0..9
          /\ n >= 2 => x2 = 10 * x1 + b /\ b \in 0..9
          /\ n >= 3 => x3 = 10 * x2 + c /\ c \in 0..9
          /\ n >= 4 => x4 = 10 * x3 + d /\ d \in 0..9
      <4>1. Len(p) \in 1..4
        BY <1>0, <2>1, <2>8, SMT
      <4> QED
        BY <3>2, <3>3, <3>4, <4>1
    <3>6. /\ n >= 1 => x1 <= 65535
          /\ n >= 2 => x2 <= 65535
          /\ n >= 3 => x3 <= 65535
          /\ n >= 4 => x4 <= 65535
      <4>1. \A y \in 0..9 : y \in Int /\ 0 <= y /\ y <= 9
        BY SMT
      <4>2. /\ n \in 1..4 /\ x0 = 0
            /\ n >= 1 => x1 = 10 * x0 + a /\ a \in Int /\ 0 <= a /\ a <= 9
            /\ n >= 2 => x2 = 10 * x1 + b /\ b \in Int /\ 0 <= b /\ b <= 9
            /\ n >= 3 => x3 = 10 * x2 + c /\ c \in Int /\ 0 <= c /\ c <= 9
            /\ n >= 4 => x4 = 10 * x3 + d /\ d \in Int /\ 0 <= d /\ d <= 9
        BY <3>5, <4>1
      <4> QED
        BY <4>2, SMT
    <3>7. f[Len(p)] <= 65535
      <4>1. n = 1 \/ n = 2 \/ n = 3 \/ n = 4
        BY <3>5, SMT
      <4> QED
        BY <3>4, <3>6, <4>1, SMT
    <3> QED
      BY <2>4, <3>1, <3>7, SMT
  <2> QED
    BY <1>0, <2>6, <2>7, <2>8, SMT
<1> QED
  BY <1>0, <1>1, <1>2

\* The endpoint of a /dev/tcp link is the one the link and the argument name.
LEMMA EndpointNamed ==
    ASSUME Types
    PROVE  EndpointAsNamed
<1> SUFFICES ASSUME found.kind \in {"tcp", "tcp_host", "tcp_host_port"}
             PROVE  EndpointAsNamed
  BY DEF EndpointAsNamed
<1>1. arg.port \in Seq(0..10) /\ arg.host \in {"none", "addr", "under_score"}
  BY ScenariosAssumption DEF Types, arg, Argument
<1>2. validate_port(arg.port) <=> IsPort(arg.port)
  BY <1>1, ValidatePort
<1>3. IsPort(arg.port) => arg.port # <<>>
  BY SMT DEF IsPort
<1>6. PICK kind : kind = found.kind
  OBVIOUS
<1>7. PICK address : address = tcp_address(kind)
  OBVIOUS
<1>8. CASE kind = "tcp_host_port"
  <2>1. address = IF EmptyArgument THEN [host |-> "link", port |-> None] ELSE None
    BY <1>7, <1>8 DEF tcp_address
  <2>2. EmptyArgument \in BOOLEAN
    BY DEF EmptyArgument
  <2>3. EmptyArgument => address = [host |-> "link", port |-> None]
    BY <2>1, <2>2
  <2> QED
    BY <1>6, <1>7, <1>8, <2>3 DEF EndpointAsNamed
<1>9. CASE kind = "tcp_host"
  <2>1. address = IF ~EmptyArgument /\ arg.host = "none" /\ validate_port(arg.port)
                  THEN [host |-> "link", port |-> arg.port] ELSE None
    BY <1>7, <1>9 DEF tcp_address
  <2>2. (~EmptyArgument /\ arg.host = "none" /\ validate_port(arg.port)) <=>
        (arg.given /\ arg.host = "none" /\ IsPort(arg.port))
    BY <1>2, <1>3 DEF EmptyArgument
  <2>3. IF arg.given /\ arg.host = "none" /\ IsPort(arg.port)
        THEN address = [host |-> "link", port |-> arg.port]
        ELSE address = None
    BY <2>1, <2>2
  <2> QED
    BY <1>6, <1>7, <1>9, <2>3 DEF EndpointAsNamed
<1>10. CASE kind = "tcp"
  <2>1. address = IF ~EmptyArgument /\ arg.host = "addr" /\ validate_port(arg.port)
                  THEN [host |-> "argument", port |-> arg.port] ELSE None
    BY <1>7, <1>10 DEF tcp_address
  <2>2. (~EmptyArgument /\ arg.host = "addr" /\ validate_port(arg.port)) <=>
        (arg.given /\ arg.host = "addr" /\ IsPort(arg.port))
    BY <1>2, <1>3 DEF EmptyArgument
  <2>3. IF arg.given /\ arg.host = "addr" /\ IsPort(arg.port)
        THEN address = [host |-> "argument", port |-> arg.port]
        ELSE address = None
    BY <2>1, <2>2
  <2> QED
    BY <1>6, <1>7, <1>10, <2>3 DEF EndpointAsNamed
<1> QED
  BY <1>6, <1>8, <1>9, <1>10

\* validate_port and the links of a service: a connection to the network goes
\* where the link and the argument say, for any text in the argument.
THEOREM EndpointCorrect == Spec => []EndpointAsNamed
<1>1. IInv => EndpointAsNamed
  BY EndpointNamed DEF IInv
<1>2. QED
  BY Initially, Inductive, <1>1, PTL DEF Spec
============================================================================
