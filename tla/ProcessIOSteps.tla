--------------------------- MODULE ProcessIOSteps ---------------------------
(***************************************************************************)
(* The inductive invariant of ProcessIO, and the steps of the loop that    *)
(* keep it: how it starts, polls, handles signals, ends, and hands the     *)
(* data of its peer to the program.                                        *)
(*                                                                         *)
(* The invariant says of each side how its loop, its child and its pipes   *)
(* stand, of each direction where the chunks are that were written and not *)
(* yet read, and of the answer of a service in which order its data, its   *)
(* end and its exit code travel.                                           *)
(***************************************************************************)
EXTENDS ProcessIO, TLAPS

\* Most leaves are first-order reasoning, which is Zenon's; a leaf that needs
\* arithmetic, or functions and records taken apart, names SMT.
USE Zenon

-----------------------------------------------------------------------------
(* The inductive invariant.  Its parts are about values, not variables: r is *)
(* the io[s] of a side, a its prog[s], q its ring[s].                        *)

NoLoop == {"failed", "just_exec"}

\* What never changes of a side of call c, and the prefix
Fixed(s, r, c) ==
    /\ r.call = c
    /\ r.kind = IF s = "service" THEN c.service ELSE c.client
    /\ r.mode = IF s = "service" THEN c.mode ELSE {}
    /\ r.prefix <= c.prefix
    /\ s = "service" => r.prefix = 0 /\ "prefix" \notin r.rev

\* Where a side is; opened, peer: whether it and the other side have the vchan open
Control(s, r, opened, peer) ==
    /\ r.kind = "failed" => r.pc \in {"stdout_eof", "stderr_eof", "exit_code", "returned"}
    /\ r.kind = "just_exec" => r.pc \in {"exit_code", "returned"}
    /\ r.kind \notin NoLoop => r.pc \notin {"stdout_eof", "stderr_eof", "exit_code"}
    /\ opened <=> r.pc # "returned"
    /\ r.pc \in {"wait", "returned"} => ~r.stdin /\ ~r.stdout
    /\ r.died => r.pc = "returned"
    /\ r.pc = "drained" => ~peer
    /\ r.pc = "finish" /\ r.stdout => ~peer
    /\ r.pc = "recv" /\ r.stdin => r.stdin_buf = <<>>
    /\ s = "client" /\ r.pc = "returned" /\ r.ret = 0 => r.remote_status = 0

\* A child and what is known of it
Child(r, a) ==
    r.kind = "process" =>
        /\ a.st # "running" => a.code \in 0 .. 255 /\ ~a.rd
        /\ ~r.died => r.local_status = IF a.st = "reaped" THEN a.code ELSE NoStatus
        /\ r.pc = "returned" /\ ~r.died => a.st = "reaped"

\* A pipe or a buffer holds one chunk at most.
Some(x) == IF x = <<>> THEN 0 ELSE 1

\* The pipes of a program; k: chunks of its prefix
Pipes(r, a, k) ==
    /\ "stdin" \in r.rev => ~a.rd
    /\ ~a.rd => a.in = <<>>
    /\ r.sigusr1 \/ (r.kind = "process" /\ r.single) => a.switched
    /\ a.switched => r.kind = "process"
    /\ r.kind \in NoLoop => a.out = <<>> /\ a.written = 0
    /\ ~a.switched =>
          /\ a.out \in {<<>>, <<a.written>>} /\ Some(a.out) <= a.written
          /\ r.prefix > 0 => a.written - Some(a.out) = k

\* The chunks that a side has sent, that a program has been given
Emitted(r, a, k) == IF r.prefix > 0 THEN k - r.prefix ELSE a.written - Some(a.out)
Held(a) == Len(a.got) + Some(a.in)

\* The data messages of q are those of the chunks after lo, up to hi.
Window(q, lo, hi) ==
    /\ \A i \in DOMAIN q : q[i].type = "DATA" => lo < q[i].chunk /\ q[i].chunk <= hi
    /\ \A i, j \in DOMAIN q : i < j /\ q[i].type = "DATA" /\ q[j].type = "DATA" => q[i].chunk < q[j].chunk
    /\ \A n \in lo + 1 .. hi : \E i \in DOMAIN q : q[i].type = "DATA" /\ q[i].chunk = n

\* What one side has got, and holds, of the h chunks that the other has sent
Flow(r, a, q, h) ==
    /\ \A i \in DOMAIN a.got : a.got[i] = i
    /\ a.in \in {<<>>, <<Len(a.got) + 1>>} /\ Held(a) <= h
    /\ r.stdin /\ a.rd =>
          /\ r.stdin_buf \in {<<>>, <<Held(a) + 1>>} /\ Held(a) + Some(r.stdin_buf) <= h
          /\ Window(q, Held(a) + Some(r.stdin_buf), h)

\* The answer of the service (t, b) to the client (r, a, q).
\* Its exit code is final when it is sent,
Known(t, b, c) ==
    /\ c = IF t.kind = "socket" THEN 0 ELSE b.code
    /\ t.kind = "process" => b.st = "reaped"
    /\ t.kind \in NoLoop => t.pc = "returned"
Codes(t, b, r, q) ==
    /\ \A j \in DOMAIN q : q[j].type = "EXIT_CODE" => Known(t, b, q[j].code)
    /\ r.remote_status # NoStatus => Known(t, b, r.remote_status)

\* ... it is sent after the end of the output,
Ending(r, q) == ~r.stdin \/ \E i \in DOMAIN q : q[i].type = "EOF"
Announced(t) == \/ t.pc # "returned" /\ ~t.stdout
                \/ t.kind = "failed" /\ t.pc \in {"stderr_eof", "exit_code"}
Ends(t, r, q) ==
    t.kind # "just_exec" =>
        /\ Announced(t) => Ending(r, q)
        /\ \A j \in DOMAIN q : q[j].type = "EXIT_CODE" =>
              ~r.stdin \/ \E i \in DOMAIN q : i < j /\ q[i].type = "EOF"
        /\ r.remote_status # NoStatus => ~r.stdin

\* ... and there is no output after it.
Silent(t) == ~t.stdout \/ t.kind \in NoLoop
Whole(t, b, r, a, q) ==
    "stdin" \notin t.mode /\ ~b.switched =>
        /\ \A i \in DOMAIN q : q[i].type = "EOF" =>
              Silent(t) /\ b.out = <<>> /\ \A j \in DOMAIN q : i < j => q[j].type # "DATA"
        /\ ~r.stdin /\ a.rd /\ r.pc \notin {"finish", "wait", "returned"} =>
              Silent(t) /\ Held(a) = b.written
        /\ r.remote_status # NoStatus /\ a.rd /\ ~r.died =>
              Silent(t) /\ Held(a) = b.written

FlowInv(s) ==
    ~prog[Other(s)].switched =>
        Flow(io[s], prog[s], ring[s], Emitted(io[Other(s)], prog[Other(s)], Call.prefix))
SideInv(s) ==
    /\ Fixed(s, io[s], Call)
    /\ Control(s, io[s], open[s], open[Other(s)])
    /\ Child(io[s], prog[s])
    /\ Pipes(io[s], prog[s], Call.prefix)
AnswerInv ==
    /\ Codes(io["service"], prog["service"], io["client"], ring["client"])
    /\ Ends(io["service"], io["client"], ring["client"])
    /\ Whole(io["service"], prog["service"], io["client"], prog["client"], ring["client"])
IInv ==
    /\ TypeOK
    /\ Call \in Calls
    /\ \A s \in Side : SideInv(s) /\ FlowInv(s)
    /\ AnswerInv

-----------------------------------------------------------------------------
(* Messages on their way *)

\* A message goes to the end of the ring.
LEMMA Appended ==
    ASSUME NEW q \in Seq(Msg), NEW m \in Msg, NEW q2, q2 = Append(q, m)
    PROVE  /\ q2 \in Seq(Msg) /\ Len(q2) = Len(q) + 1 /\ Len(q) \in Nat
           /\ DOMAIN q = 1 .. Len(q) /\ DOMAIN q2 = 1 .. Len(q) + 1
           /\ q2[Len(q) + 1] = m /\ \A i \in DOMAIN q : q2[i] = q[i]
BY SMT

\* The first message is taken from the ring.
LEMMA Removed ==
    ASSUME NEW q \in Seq(Msg), q # <<>>, NEW q2, q2 = Tail(q)
    PROVE  /\ q2 \in Seq(Msg) /\ Len(q) \in Nat /\ Len(q) >= 1
           /\ DOMAIN q = 1 .. Len(q) /\ DOMAIN q2 = 1 .. Len(q) - 1
           /\ \A i \in DOMAIN q2 : q2[i] = q[i + 1]
           /\ Head(q) = q[1] /\ Head(q) \in Msg
BY SMT

\* A message has a type, and data a number.
LEMMA MsgParts ==
    /\ Eof \in Msg /\ Eof.type = "EOF" /\ StderrEof \in Msg /\ StderrEof.type = "STDERR_EOF"
    /\ \A n \in Chunk : Data(n) \in Msg /\ Data(n).type = "DATA" /\ Data(n).chunk = n
    /\ \A c \in 0 .. 255 : ExitCode(c) \in Msg /\ ExitCode(c).type = "EXIT_CODE" /\ ExitCode(c).code = c
    /\ \A m \in Msg : /\ m.type \in {"DATA", "EOF", "STDERR_EOF", "EXIT_CODE"}
                      /\ m.type = "DATA" => m.chunk \in Chunk
                      /\ m.type = "EXIT_CODE" => m.code \in 0 .. 255
BY SMT DEF Msg, Eof, StderrEof, Data, ExitCode

\* Data on its way has a number.
LEMMA DataNumber ==
    ASSUME NEW q \in Seq(Msg)
    PROVE  \A i \in DOMAIN q : q[i] \in Msg /\ (q[i].type = "DATA" => q[i].chunk \in Nat)
<1> SUFFICES ASSUME NEW i \in DOMAIN q PROVE q[i] \in Msg /\ (q[i].type = "DATA" => q[i].chunk \in Nat)
  OBVIOUS
<1>1. PICK m \in Msg : m = q[i]
  BY SMT
<1>2. m.type = "DATA" => m.chunk \in Nat
  BY MsgParts DEF Chunk
<1> QED BY <1>1, <1>2

\* The next chunk is sent.
LEMMA WindowSent ==
    ASSUME NEW q \in Seq(Msg), NEW lo \in Nat, NEW hi \in Nat, lo <= hi, Window(q, lo, hi),
           NEW m \in Msg, m.type = "DATA", m.chunk = hi + 1, NEW q2, q2 = Append(q, m)
    PROVE  Window(q2, lo, hi + 1)
<1>1. /\ q2 \in Seq(Msg) /\ Len(q) \in Nat /\ DOMAIN q = 1 .. Len(q) /\ DOMAIN q2 = 1 .. Len(q) + 1
      /\ q2[Len(q) + 1] = m /\ \A i \in DOMAIN q : q2[i] = q[i]
  BY Appended, SMT
<1>0. /\ \A i \in DOMAIN q : q[i].type = "DATA" => lo < q[i].chunk /\ q[i].chunk <= hi
      /\ \A i, j \in DOMAIN q : i < j /\ q[i].type = "DATA" /\ q[j].type = "DATA" => q[i].chunk < q[j].chunk
      /\ \A n \in lo + 1 .. hi : \E i \in DOMAIN q : q[i].type = "DATA" /\ q[i].chunk = n
  BY DEF Window
<1>t. \A i \in DOMAIN q : q[i].type = "DATA" => q[i].chunk \in Nat
  BY DataNumber
<1>2. \A i \in DOMAIN q2 : q2[i].type = "DATA" => lo < q2[i].chunk /\ q2[i].chunk <= hi + 1
  BY <1>0, <1>1, <1>t, SMT
<1>3. ASSUME NEW i \in DOMAIN q2, NEW j \in DOMAIN q2, i < j, q2[i].type = "DATA", q2[j].type = "DATA"
      PROVE  q2[i].chunk < q2[j].chunk
  <2>1. i \in DOMAIN q
    BY <1>1, <1>3, SMT
  <2>2. CASE j \in DOMAIN q
    BY <1>0, <1>1, <1>3, <2>1, <2>2
  <2>3. CASE j = Len(q) + 1
    BY <1>0, <1>1, <1>3, <1>t, <2>1, <2>3, SMT
  <2> QED BY <1>1, <2>2, <2>3, SMT
<1>4. ASSUME NEW n \in lo + 1 .. hi + 1
      PROVE  \E i \in DOMAIN q2 : q2[i].type = "DATA" /\ q2[i].chunk = n
  <2>1. CASE n = hi + 1
    BY <1>1, <2>1, SMT
  <2>2. CASE n \in lo + 1 .. hi
    <3>1. PICK i \in DOMAIN q : q[i].type = "DATA" /\ q[i].chunk = n
      BY <1>0, <2>2
    <3> QED BY <1>1, <3>1, SMT
  <2> QED BY <2>1, <2>2, SMT
<1> QED BY <1>2, <1>3, <1>4 DEF Window

\* Another message is sent.
LEMMA WindowOther ==
    ASSUME NEW q \in Seq(Msg), NEW lo \in Nat, NEW hi \in Nat, Window(q, lo, hi),
           NEW m \in Msg, m.type # "DATA", NEW q2, q2 = Append(q, m)
    PROVE  Window(q2, lo, hi)
<1>1. /\ Len(q) \in Nat /\ DOMAIN q = 1 .. Len(q) /\ DOMAIN q2 = 1 .. Len(q) + 1
      /\ q2[Len(q) + 1] = m /\ \A i \in DOMAIN q : q2[i] = q[i]
  BY Appended, SMT
<1>2. \A i \in DOMAIN q2 : q2[i].type = "DATA" => i \in DOMAIN q
  BY <1>1, SMT
<1>3. \A i \in DOMAIN q2 : q2[i].type = "DATA" => lo < q2[i].chunk /\ q2[i].chunk <= hi
  BY <1>1, <1>2 DEF Window
<1>4. ASSUME NEW i \in DOMAIN q2, NEW j \in DOMAIN q2, i < j, q2[i].type = "DATA", q2[j].type = "DATA"
      PROVE  q2[i].chunk < q2[j].chunk
  BY <1>1, <1>2, <1>4 DEF Window
<1>5. ASSUME NEW n \in lo + 1 .. hi
      PROVE  \E i \in DOMAIN q2 : q2[i].type = "DATA" /\ q2[i].chunk = n
  <2>1. PICK i \in DOMAIN q : q[i].type = "DATA" /\ q[i].chunk = n
    BY DEF Window
  <2> QED BY <1>1, <2>1, SMT
<1> QED BY <1>3, <1>4, <1>5 DEF Window

\* The first message, if it is data, is the next chunk.
LEMMA WindowTaken ==
    ASSUME NEW q \in Seq(Msg), q # <<>>, NEW lo \in Nat, NEW hi \in Nat, Window(q, lo, hi),
           NEW q2, q2 = Tail(q)
    PROVE  /\ Head(q).type = "DATA" => /\ Head(q).chunk = lo + 1 /\ lo + 1 <= hi
                                       /\ Window(q2, lo + 1, hi)
           /\ Head(q).type # "DATA" => Window(q2, lo, hi)
<1>1. /\ Len(q) \in Nat /\ Len(q) >= 1 /\ DOMAIN q = 1 .. Len(q) /\ DOMAIN q2 = 1 .. Len(q) - 1
      /\ \A i \in DOMAIN q2 : q2[i] = q[i + 1]
      /\ Head(q) = q[1] /\ Head(q) \in Msg
  BY Removed
<1>0. /\ \A i \in DOMAIN q : q[i].type = "DATA" => lo < q[i].chunk /\ q[i].chunk <= hi
      /\ \A i, j \in DOMAIN q : i < j /\ q[i].type = "DATA" /\ q[j].type = "DATA" => q[i].chunk < q[j].chunk
      /\ \A n \in lo + 1 .. hi : \E i \in DOMAIN q : q[i].type = "DATA" /\ q[i].chunk = n
  BY DEF Window
<1>t. \A i \in DOMAIN q : q[i].type = "DATA" => q[i].chunk \in Nat
  BY DataNumber
<1>2. \A i \in DOMAIN q2 : i + 1 \in DOMAIN q /\ i \in Nat
  BY <1>1, SMT
<1>3. \A i, j \in DOMAIN q2 : i < j /\ q2[i].type = "DATA" /\ q2[j].type = "DATA" => q2[i].chunk < q2[j].chunk
  BY <1>0, <1>1, <1>2, SMT
<1>4. ASSUME Head(q).type = "DATA"
      PROVE  Head(q).chunk = lo + 1 /\ lo + 1 <= hi /\ Window(q2, lo + 1, hi)
  <2>1. lo + 1 <= Head(q).chunk /\ Head(q).chunk <= hi /\ Head(q).chunk \in Nat
    BY <1>0, <1>1, <1>4, <1>t, SMT
  <2>2. PICK i \in DOMAIN q : q[i].type = "DATA" /\ q[i].chunk = lo + 1
    BY <1>0, <2>1, SMT
  <2>3. Head(q).chunk = lo + 1
    <3>1. CASE i = 1
      BY <1>1, <2>2, <3>1
    <3>2. CASE i # 1
      <4>1. 1 \in DOMAIN q /\ 1 < i
        BY <1>1, <3>2, SMT
      <4>2. q[1].chunk < q[i].chunk
        BY <1>0, <1>1, <1>4, <2>2, <4>1
      <4> QED BY <1>1, <2>1, <2>2, <4>2, SMT
    <3> QED BY <3>1, <3>2
  <2>4. ASSUME NEW j \in DOMAIN q2, q2[j].type = "DATA"
        PROVE  lo + 1 < q2[j].chunk /\ q2[j].chunk <= hi
    <3>1. 1 \in DOMAIN q /\ j + 1 \in DOMAIN q /\ 1 < j + 1 /\ q2[j] = q[j + 1]
      BY <1>1, SMT
    <3>2. q[1].chunk < q[j + 1].chunk /\ q[j + 1].chunk <= hi
      BY <1>0, <1>1, <1>4, <2>4, <3>1
    <3> QED BY <1>1, <2>3, <3>1, <3>2
  <2>5. ASSUME NEW n \in lo + 2 .. hi PROVE \E j \in DOMAIN q2 : q2[j].type = "DATA" /\ q2[j].chunk = n
    <3>1. PICK j \in DOMAIN q : q[j].type = "DATA" /\ q[j].chunk = n
      BY <1>0, SMT
    <3>2. j # 1
      BY <1>1, <2>3, <3>1, SMT
    <3>3. j - 1 \in DOMAIN q2 /\ q2[j - 1] = q[j]
      BY <1>1, <3>2, SMT
    <3> QED BY <3>1, <3>3
  <2>6. lo + 1 <= hi /\ (lo + 1) + 1 = lo + 2
    BY <2>1, SMT
  <2>7. Window(q2, lo + 1, hi)
    BY <1>3, <2>4, <2>5, <2>6 DEF Window
  <2> QED BY <2>3, <2>6, <2>7
<1>5. ASSUME Head(q).type # "DATA" PROVE Window(q2, lo, hi)
  <2>1. \A j \in DOMAIN q2 : q2[j].type = "DATA" => lo < q2[j].chunk /\ q2[j].chunk <= hi
    BY <1>0, <1>1, <1>2, SMT
  <2>2. ASSUME NEW n \in lo + 1 .. hi PROVE \E j \in DOMAIN q2 : q2[j].type = "DATA" /\ q2[j].chunk = n
    <3>1. PICK j \in DOMAIN q : q[j].type = "DATA" /\ q[j].chunk = n
      BY <1>0
    <3>2. j # 1
      BY <1>1, <1>5, <3>1
    <3>3. j - 1 \in DOMAIN q2 /\ q2[j - 1] = q[j]
      BY <1>1, <3>2, SMT
    <3> QED BY <3>1, <3>3
  <2> QED BY <1>3, <2>1, <2>2 DEF Window
<1> QED BY <1>4, <1>5

\* Without data on its way, everything has arrived.
LEMMA WindowEmpty ==
    ASSUME NEW q \in Seq(Msg), NEW lo \in Nat, NEW hi \in Nat, lo <= hi, Window(q, lo, hi),
           \A i \in DOMAIN q : q[i].type # "DATA"
    PROVE  lo = hi
<1>1. CASE lo < hi
  <2>1. lo + 1 \in lo + 1 .. hi
    BY <1>1, SMT
  <2> QED BY <2>1 DEF Window
<1> QED BY <1>1, SMT

-----------------------------------------------------------------------------
(* One direction of the data *)

\* How many chunks there are in a pipe.
LEMMA HowMany == Some(<<>>) = 0 /\ \A n : Some(<<n>>) = 1
BY DEF Some

\* What is read after the first chunks is the next one.
LEMMA NextRead ==
    ASSUME NEW g \in Seq(Chunk), \A i \in DOMAIN g : g[i] = i,
           NEW x \in {<<>>, <<Len(g) + 1>>}, NEW y, y = g \o x
    PROVE  Len(y) = Len(g) + Some(x) /\ \A i \in DOMAIN y : y[i] = i
<1>1. CASE x = <<>>
  <2>1. y = g
    BY <1>1, SMT
  <2> QED BY <1>1, <2>1, SMT DEF Some
<1>2. CASE x = <<Len(g) + 1>>
  <2>1. x # <<>>
    BY <1>2
  <2>2. /\ Len(y) = Len(g) + 1 /\ DOMAIN y = 1 .. Len(g) + 1 /\ DOMAIN g = 1 .. Len(g)
        /\ \A i \in 1 .. Len(g) : y[i] = g[i]
        /\ y[Len(g) + 1] = Len(g) + 1
    BY <1>2, SMT
  <2> QED BY <2>1, <2>2, SMT DEF Some
<1> QED BY <1>1, <1>2

\* What the counting needs of the types.
LEMMA Counted ==
    ASSUME NEW r \in IO, NEW a \in Prog
    PROVE  /\ a.got \in Seq(Chunk) /\ a.in \in Seq(Chunk) /\ a.out \in Seq(Chunk) /\ r.stdin_buf \in Seq(Chunk)
           /\ Len(a.got) \in Nat /\ Held(a) \in Nat /\ a.written \in Nat /\ r.prefix \in Nat
           /\ r.stdin \in BOOLEAN /\ r.stdout \in BOOLEAN /\ a.rd \in BOOLEAN /\ a.switched \in BOOLEAN
           /\ \A x : Some(x) \in {0, 1}
<1>1. /\ a.got \in Seq(Chunk) /\ a.in \in Seq(Chunk) /\ a.out \in Seq(Chunk) /\ r.stdin_buf \in Seq(Chunk)
      /\ a.written \in Nat /\ r.prefix \in Nat
      /\ r.stdin \in BOOLEAN /\ r.stdout \in BOOLEAN /\ a.rd \in BOOLEAN /\ a.switched \in BOOLEAN
  BY DEF IO, Prog
<1>2. \A x \in Seq(Chunk) : Len(x) \in Nat
  BY SMT
<1>3. \A x : Some(x) \in {0, 1}
  BY DEF Some
<1>4. Held(a) \in Nat
  <2>1. \A m \in Nat : \A n \in {0, 1} : m + n \in Nat
    BY SMT
  <2> QED BY <1>1, <1>2, <1>3, <2>1 DEF Held
<1> QED BY <1>1, <1>2, <1>3, <1>4

\* Nothing is given to the program, and no data is received.
LEMMA FlowKept ==
    ASSUME NEW r \in IO, NEW a \in Prog, NEW q \in Seq(Msg), NEW h \in Nat, Flow(r, a, q, h),
           NEW r2 \in IO, NEW a2 \in Prog, NEW q2, a2.got = a.got, a2.in = a.in,
           r2.stdin /\ a2.rd =>
               /\ r.stdin /\ a.rd /\ r2.stdin_buf = r.stdin_buf
               /\ q2 = q \/ (q # <<>> /\ Head(q).type # "DATA" /\ q2 = Tail(q))
    PROVE  Flow(r2, a2, q2, h)
<1>1. Held(a2) = Held(a)
  BY DEF Held
<1>2. ASSUME r2.stdin, a2.rd PROVE Window(q2, Held(a) + Some(r.stdin_buf), h)
  <2>1. Window(q, Held(a) + Some(r.stdin_buf), h)
    BY <1>2 DEF Flow
  <2>0. Held(a) \in Nat /\ Some(r.stdin_buf) \in {0, 1}
    BY Counted
  <2>2. PICK lo \in Nat : lo = Held(a) + Some(r.stdin_buf)
    BY <2>0, SMT
  <2>3. CASE q2 = q
    BY <2>1, <2>3
  <2>4. CASE q # <<>> /\ Head(q).type # "DATA" /\ q2 = Tail(q)
    <3>1. Window(q2, lo, h)
      BY <2>1, <2>2, <2>4, WindowTaken
    <3> QED BY <2>2, <3>1
  <2> QED BY <1>2, <2>3, <2>4
<1> QED BY <1>1, <1>2, SMT DEF Flow

\* The program has closed its stdin: what was in the pipe is lost.
LEMMA FlowDropped ==
    ASSUME NEW r \in IO, NEW a \in Prog, NEW q, NEW h \in Nat, Flow(r, a, q, h),
           NEW r2, NEW a2 \in Prog, NEW q2, a2.got = a.got, a2.in = <<>>, ~a2.rd
    PROVE  Flow(r2, a2, q2, h)
<1>1. Len(a.got) \in Nat /\ Held(a) \in Nat /\ Held(a) <= h
  BY Counted DEF Flow
<1>2. Held(a2) = Len(a.got) + 0 /\ Held(a) = Len(a.got) + Some(a.in)
  BY DEF Held, Some
<1>3. Some(a.in) \in {0, 1}
  BY Counted
<1>4. Held(a2) <= h
  BY <1>1, <1>2, <1>3, SMT
<1> QED BY <1>4 DEF Flow

\* The program reads what is in the pipe.
LEMMA FlowRead ==
    ASSUME NEW r \in IO, NEW a \in Prog, NEW q, NEW h \in Nat, Flow(r, a, q, h),
           NEW a2 \in Prog, a2.got = a.got \o a.in, a2.in = <<>>, a2.rd = a.rd
    PROVE  Flow(r, a2, q, h)
<1>1. /\ a.got \in Seq(Chunk) /\ a.in \in {<<>>, <<Len(a.got) + 1>>}
      /\ \A i \in DOMAIN a.got : a.got[i] = i
  BY Counted DEF Flow
<1>2. Len(a2.got) = Len(a.got) + Some(a.in) /\ \A i \in DOMAIN a2.got : a2.got[i] = i
  BY <1>1, NextRead
<1>3. Len(a.got) \in Nat /\ Len(a2.got) \in Nat /\ Some(a2.in) = 0
  BY Counted DEF Some
<1>4. Held(a2) = Held(a)
  BY <1>2, <1>3, SMT DEF Held
<1> QED BY <1>2, <1>4 DEF Flow

\* flush_client_data() writes the chunk that was buffered.
LEMMA FlowFlushed ==
    ASSUME NEW r \in IO, NEW a \in Prog, NEW q, NEW h \in Nat, Flow(r, a, q, h),
           r.stdin, a.rd, a.in = <<>>, r.stdin_buf # <<>>,
           NEW r2 \in IO, NEW a2 \in Prog, a2.got = a.got, a2.in = Append(a.in, Head(r.stdin_buf)),
           r2.stdin_buf = Tail(r.stdin_buf)
    PROVE  Flow(r2, a2, q, h)
<1>0. Len(a.got) \in Nat /\ Some(a.in) = 0
  BY Counted, HowMany
<1>1. PICK n \in Nat : n = Len(a.got) /\ n = Held(a)
  BY <1>0, SMT DEF Held
<1>2. /\ r.stdin_buf = <<n + 1>> /\ Some(r.stdin_buf) = 1
      /\ n + Some(r.stdin_buf) <= h
      /\ Window(q, n + Some(r.stdin_buf), h) /\ \A i \in DOMAIN a.got : a.got[i] = i
  BY <1>1 DEF Flow, Some
<1>3. Window(q, n + 1, h) /\ n + 1 <= h
  BY <1>2
<1>4. a2.in = <<n + 1>> /\ r2.stdin_buf = <<>>
  BY <1>2, SMT
<1>5. Some(a2.in) = 1 /\ Some(r2.stdin_buf) = 0
  BY <1>4, HowMany
<1>6. Held(a2) = n + 1 /\ Held(a2) + Some(r2.stdin_buf) = n + 1
  BY <1>1, <1>5, SMT DEF Held
<1> QED BY <1>1, <1>2, <1>3, <1>4, <1>6 DEF Flow

\* handle_remote_data_v2() writes the chunk it received,
LEMMA FlowGiven ==
    ASSUME NEW r \in IO, NEW a \in Prog, NEW q \in Seq(Msg), NEW h \in Nat, Flow(r, a, q, h),
           r.stdin, a.rd, a.in = <<>>, r.stdin_buf = <<>>, q # <<>>, Head(q).type = "DATA",
           NEW a2 \in Prog, a2.got = a.got, a2.in = Append(a.in, Head(q).chunk),
           NEW q2, q2 = Tail(q)
    PROVE  Flow(r, a2, q2, h)
<1>1. PICK n \in Nat : n = Len(a.got)
  BY Counted
<1>2. Held(a) = n /\ Held(a) + Some(r.stdin_buf) = n
  BY <1>1, SMT DEF Held, Some
<1>3. Window(q, n, h) /\ \A i \in DOMAIN a.got : a.got[i] = i
  BY <1>2 DEF Flow
<1>4. Head(q).chunk = n + 1 /\ n + 1 <= h /\ Window(q2, n + 1, h)
  BY <1>3, WindowTaken
<1>5. a2.in = <<n + 1>> /\ Some(a2.in) = 1
  BY <1>4, SMT DEF Some
<1>6. Held(a2) = n + 1 /\ Held(a2) + Some(r.stdin_buf) = n + 1
  BY <1>1, <1>5, SMT DEF Held, Some
<1> QED BY <1>1, <1>3, <1>4, <1>5, <1>6, SMT DEF Flow

\* ... or keeps it in stdin_buf.
LEMMA FlowBuffered ==
    ASSUME NEW r \in IO, NEW a \in Prog, NEW q \in Seq(Msg), NEW h \in Nat, Flow(r, a, q, h),
           r.stdin, a.rd, r.stdin_buf = <<>>, q # <<>>, Head(q).type = "DATA",
           NEW r2 \in IO, r2.stdin_buf = Append(r.stdin_buf, Head(q).chunk),
           NEW q2, q2 = Tail(q)
    PROVE  Flow(r2, a, q2, h)
<1>1. PICK n \in Nat : n = Held(a)
  BY Counted
<1>2. Held(a) + Some(r.stdin_buf) = n
  BY <1>1, SMT DEF Some
<1>3. Window(q, n, h)
  BY <1>2 DEF Flow
<1>4. Head(q).chunk = n + 1 /\ n + 1 <= h /\ Window(q2, n + 1, h)
  BY <1>3, WindowTaken
<1>5. r2.stdin_buf = <<n + 1>> /\ Some(r2.stdin_buf) = 1
  BY <1>4, SMT DEF Some
<1> QED BY <1>1, <1>4, <1>5 DEF Flow

\* The other side sends its next chunk, or something else,
LEMMA FlowSent ==
    ASSUME NEW r \in IO, NEW a \in Prog, NEW q \in Seq(Msg), NEW h \in Nat, Flow(r, a, q, h),
           NEW m \in Msg, NEW q2, q2 = Append(q, m)
    PROVE  /\ m.type # "DATA" => Flow(r, a, q2, h)
           /\ m.type = "DATA" /\ m.chunk = h + 1 => Flow(r, a, q2, h + 1)
<1>1. Held(a) \in Nat /\ Some(r.stdin_buf) \in {0, 1} /\ Held(a) + Some(r.stdin_buf) \in Nat
  BY Counted, SMT
<1>2. ASSUME m.type # "DATA" PROVE Flow(r, a, q2, h)
  <2>1. r.stdin /\ a.rd => Window(q2, Held(a) + Some(r.stdin_buf), h)
    BY <1>1, <1>2, WindowOther DEF Flow
  <2> QED BY <2>1 DEF Flow
<1>3. ASSUME m.type = "DATA", m.chunk = h + 1 PROVE Flow(r, a, q2, h + 1)
  <2>1. r.stdin /\ a.rd => Window(q2, Held(a) + Some(r.stdin_buf), h + 1)
    BY <1>1, <1>3, WindowSent DEF Flow
  <2> QED BY <1>1, <2>1, SMT DEF Flow
<1> QED BY <1>2, <1>3

\* ... or loses it, to a side that is no more.
LEMMA FlowLost ==
    ASSUME NEW r \in IO, NEW a \in Prog, NEW q, NEW h \in Nat, Flow(r, a, q, h), ~r.stdin,
           NEW h2 \in Nat, h <= h2
    PROVE  Flow(r, a, q, h2)
<1>1. Held(a) \in Nat
  BY Counted
<1> QED BY <1>1, SMT DEF Flow

-----------------------------------------------------------------------------
(* Steps of one side *)

\* Side s is left with r2, a2, q2 and x, and the ring of the other one with o2.
Step(s, r2, a2, q2, o2, x) ==
    /\ io' = [y \in Side |-> IF y = s THEN r2 ELSE io[y]]
    /\ prog' = [y \in Side |-> IF y = s THEN a2 ELSE prog[y]]
    /\ ring' = [y \in Side |-> IF y = s THEN q2 ELSE o2]
    /\ open' = [y \in Side |-> IF y = s THEN x ELSE open[y]]

\* There are two sides.
LEMMA TwoSides ==
    ASSUME NEW s \in Side
    PROVE  /\ Other(s) \in Side /\ Other(s) # s /\ Other(Other(s)) = s
           /\ \A y \in Side : y = s \/ y = Other(s)
           /\ s = "service" => Other(s) = "client"
           /\ s = "client" => Other(s) = "service"
           /\ Other("service") = "client" /\ Other("client") = "service"
           /\ "service" \in Side /\ "client" \in Side
BY DEF Side, Other

\* The types of the parts.
LEMMA Parts ==
    ASSUME TypeOK, NEW s \in Side
    PROVE  io[s] \in IO /\ prog[s] \in Prog /\ ring[s] \in Seq(Msg) /\ open[s] \in BOOLEAN
BY DEF TypeOK

\* How the actions write their steps.
LEMMA Written ==
    ASSUME TypeOK, NEW s \in Side
    PROVE  /\ io = [y \in Side |-> IF y = s THEN io[s] ELSE io[y]]
           /\ prog = [y \in Side |-> IF y = s THEN prog[s] ELSE prog[y]]
           /\ ring = [y \in Side |-> IF y = s THEN ring[s] ELSE ring[Other(s)]]
           /\ open = [y \in Side |-> IF y = s THEN open[s] ELSE open[y]]
           /\ \A u : [io EXCEPT ![s] = u] = [y \in Side |-> IF y = s THEN u ELSE io[y]]
           /\ \A u : [prog EXCEPT ![s] = u] = [y \in Side |-> IF y = s THEN u ELSE prog[y]]
           /\ \A u : [open EXCEPT ![s] = u] = [y \in Side |-> IF y = s THEN u ELSE open[y]]
<1>1. /\ io \in [Side -> IO] /\ prog \in [Side -> Prog]
      /\ ring \in [Side -> Seq(Msg)] /\ open \in [Side -> BOOLEAN]
  BY DEF TypeOK
<1>2. Other(s) \in Side /\ Other(s) # s /\ \A y \in Side : y = s \/ y = Other(s)
  BY TwoSides
<1>3. io = [y \in Side |-> IF y = s THEN io[s] ELSE io[y]]
  BY <1>1
<1>4. prog = [y \in Side |-> IF y = s THEN prog[s] ELSE prog[y]]
  BY <1>1
<1>5. ring = [y \in Side |-> IF y = s THEN ring[s] ELSE ring[Other(s)]]
  BY <1>1, <1>2
<1>6. open = [y \in Side |-> IF y = s THEN open[s] ELSE open[y]]
  BY <1>1
<1>7. \A u : [io EXCEPT ![s] = u] = [y \in Side |-> IF y = s THEN u ELSE io[y]]
  BY <1>1
<1>8. \A u : [prog EXCEPT ![s] = u] = [y \in Side |-> IF y = s THEN u ELSE prog[y]]
  BY <1>1
<1>9. \A u : [open EXCEPT ![s] = u] = [y \in Side |-> IF y = s THEN u ELSE open[y]]
  BY <1>1
<1> QED BY <1>3, <1>4, <1>5, <1>6, <1>7, <1>8, <1>9

\* ... to the ring of the other side
LEMMA RingWritten ==
    ASSUME TypeOK, NEW s \in Side, NEW v
    PROVE  [ring EXCEPT ![Other(s)] = v] = [y \in Side |-> IF y = s THEN ring[s] ELSE v]
<1>1. ring \in [Side -> Seq(Msg)]
  BY DEF TypeOK
<1>2. Other(s) \in Side /\ Other(s) # s /\ \A y \in Side : y = s \/ y = Other(s)
  BY TwoSides
<1> QED BY <1>1, <1>2

\* What is unchanged is written as a step.
LEMMA Unwritten ==
    ASSUME TypeOK, NEW s \in Side
    PROVE  /\ UNCHANGED io => io' = [y \in Side |-> IF y = s THEN io[s] ELSE io[y]]
           /\ UNCHANGED prog => prog' = [y \in Side |-> IF y = s THEN prog[s] ELSE prog[y]]
           /\ UNCHANGED ring => ring' = [y \in Side |-> IF y = s THEN ring[s] ELSE ring[Other(s)]]
           /\ UNCHANGED open => open' = [y \in Side |-> IF y = s THEN open[s] ELSE open[y]]
BY Written

\* libvchan_send() of one message, where a failure is ignored
LEMMA AttemptOne ==
    ASSUME TypeOK, NEW s \in Side, NEW in, NEW m, Attempt(s, in, <<m>>)
    PROVE  ring' = [y \in Side |-> IF y = s THEN in
                                   ELSE IF open[Other(s)] THEN Append(ring[Other(s)], m) ELSE ring[Other(s)]]
<1> DEFINE o == ring[Other(s)]
<1>1. o \in Seq(Msg) /\ Other(s) \in Side /\ Other(s) # s
  BY TwoSides, Parts
<1>2. o \o <<m>> = Append(o, m)
  BY <1>1, SMT
<1>3. ring' = [ring EXCEPT ![s] = in, ![Other(s)] = IF IsOpen(s) THEN ring[Other(s)] \o <<m>> ELSE ring[Other(s)]]
  BY <1>1 DEF Attempt
<1>4. PICK v : v = IF IsOpen(s) THEN o \o <<m>> ELSE o
  OBVIOUS
<1>5. ring' = [ring EXCEPT ![s] = in, ![Other(s)] = v]
  BY <1>3, <1>4
<1>6. ring' = [y \in Side |-> IF y = s THEN in ELSE v]
  <2>1. ring \in [Side -> Seq(Msg)] /\ \A y \in Side : y = s \/ y = Other(s)
    BY TwoSides DEF TypeOK
  <2> QED BY <1>1, <1>5, <2>1
<1> HIDE DEF o
<1>7. v = IF open[Other(s)] THEN Append(o, m) ELSE o
  BY <1>2, <1>4 DEF IsOpen
<1> QED BY <1>6, <1>7 DEF o

\* ... and of none
LEMMA AttemptNone ==
    ASSUME TypeOK, NEW s \in Side, NEW in, Attempt(s, in, <<>>)
    PROVE  ring' = [y \in Side |-> IF y = s THEN in ELSE ring[Other(s)]]
<1> DEFINE o == ring[Other(s)]
<1>1. o \in Seq(Msg) /\ Other(s) \in Side /\ Other(s) # s
  BY TwoSides, Parts
<1>2. o \o <<>> = o
  BY <1>1, SMT
<1>3. ring' = [ring EXCEPT ![s] = in, ![Other(s)] = IF IsOpen(s) THEN ring[Other(s)] \o <<>> ELSE ring[Other(s)]]
  BY <1>1 DEF Attempt
<1>4. PICK v : v = ring[Other(s)]
  OBVIOUS
<1>5. ring' = [ring EXCEPT ![s] = in, ![Other(s)] = v]
  BY <1>2, <1>3, <1>4
<1>6. ring' = [y \in Side |-> IF y = s THEN in ELSE v]
  <2>1. ring \in [Side -> Seq(Msg)] /\ \A y \in Side : y = s \/ y = Other(s)
    BY TwoSides DEF TypeOK
  <2> QED BY <1>1, <1>5, <2>1
<1> QED BY <1>4, <1>6

\* libvchan_send() that succeeds
LEMMA SentOne ==
    ASSUME TypeOK, NEW s \in Side, NEW m, Sent(s, m)
    PROVE  /\ open[Other(s)]
           /\ ring' = [y \in Side |-> IF y = s THEN ring[s] ELSE Append(ring[Other(s)], m)]
<1>1. PICK v : v = Append(ring[Other(s)], m)
  OBVIOUS
<1>2. open[Other(s)] /\ ring' = [ring EXCEPT ![Other(s)] = v]
  BY <1>1 DEF Sent, IsOpen
<1> QED BY <1>1, <1>2, RingWritten

-----------------------------------------------------------------------------
(* The answer *)

\* What the service does, having sent m or not, to the exit code of its answer
LEMMA CodesSent ==
    ASSUME NEW t, NEW b, NEW r, NEW q \in Seq(Msg), Codes(t, b, r, q), NEW t2, NEW b2, t2.kind = t.kind,
           t.pc = "returned" => t2.pc = "returned",
           b.st = "reaped" => b2.st = "reaped",
           b2.code = b.code \/ (t.kind = "process" /\ b.st # "reaped") \/ (t.kind \in NoLoop /\ t.pc # "returned"),
           NEW m \in Msg, NEW q2, q2 = q \/ q2 = Append(q, m),
           q2 = Append(q, m) /\ m.type = "EXIT_CODE" => Known(t2, b2, m.code)
    PROVE  Codes(t2, b2, r, q2)
<1>1. \A c : Known(t, b, c) => Known(t2, b2, c)
  BY DEF Known, NoLoop
<1>2. CASE q2 = q
  BY <1>1, <1>2 DEF Codes
<1>3. CASE q2 = Append(q, m)
  <2>1. /\ DOMAIN q2 = 1 .. Len(q) + 1 /\ DOMAIN q = 1 .. Len(q)
        /\ q2[Len(q) + 1] = m /\ \A i \in DOMAIN q : q2[i] = q[i]
        /\ Len(q) \in Nat
    BY <1>3, Appended, SMT
  <2>2. ASSUME NEW j \in DOMAIN q2, q2[j].type = "EXIT_CODE" PROVE Known(t2, b2, q2[j].code)
    <3>1. CASE j = Len(q) + 1
      BY <1>3, <2>1, <2>2, <3>1
    <3>2. CASE j \in DOMAIN q
      BY <1>1, <2>1, <2>2, <3>2 DEF Codes
    <3> QED BY <2>1, <3>1, <3>2, SMT
  <2> QED BY <1>1, <2>2 DEF Codes
<1> QED BY <1>2, <1>3

\* ... to the order of its end and its exit code
LEMMA EndsSent ==
    ASSUME NEW t, NEW r, NEW q \in Seq(Msg), Ends(t, r, q), NEW t2, t2.kind = t.kind,
           NEW m \in Msg, NEW q2, q2 = q \/ q2 = Append(q, m),
           Announced(t2) => Announced(t) \/ ~r.stdin \/ (q2 = Append(q, m) /\ m.type = "EOF"),
           q2 = Append(q, m) /\ m.type = "EXIT_CODE" /\ t.kind # "just_exec" => Announced(t)
    PROVE  Ends(t2, r, q2)
<1>1. CASE q2 = q
  <2>1. Announced(t2) /\ t.kind # "just_exec" => Ending(r, q)
    <3>1. q # Append(q, m)
      BY Appended, SMT
    <3> QED BY <1>1, <3>1 DEF Ends, Ending
  <2> QED BY <1>1, <2>1 DEF Ends
<1>2. CASE q2 = Append(q, m)
  <2>1. /\ DOMAIN q2 = 1 .. Len(q) + 1 /\ DOMAIN q = 1 .. Len(q)
        /\ q2[Len(q) + 1] = m /\ \A i \in DOMAIN q : q2[i] = q[i]
        /\ Len(q) \in Nat
    BY <1>2, Appended, SMT
  <2>2. Ending(r, q) => Ending(r, q2)
    BY <2>1, SMT DEF Ending
  <2>3. m.type = "EOF" => Ending(r, q2)
    BY <2>1, SMT DEF Ending
  <2>4. ASSUME t.kind # "just_exec", NEW j \in DOMAIN q2, q2[j].type = "EXIT_CODE", r.stdin
        PROVE  \E i \in DOMAIN q2 : i < j /\ q2[i].type = "EOF"
    <3>1. CASE j \in DOMAIN q
      <4>1. PICK i \in DOMAIN q : i < j /\ q[i].type = "EOF"
        BY <2>1, <2>4, <3>1 DEF Ends
      <4> QED BY <2>1, <4>1, SMT
    <3>2. CASE j = Len(q) + 1
      <4>1. Announced(t)
        BY <1>2, <2>1, <2>4, <3>2
      <4>2. PICK i \in DOMAIN q : q[i].type = "EOF"
        BY <2>4, <4>1 DEF Ends, Ending
      <4> QED BY <2>1, <3>2, <4>2, SMT
    <3> QED BY <2>1, <3>1, <3>2, SMT
  <2>5. Announced(t2) /\ t.kind # "just_exec" => Ending(r, q2)
    BY <2>2, <2>3 DEF Ends, Ending
  <2> QED BY <2>4, <2>5 DEF Ends
<1> QED BY <1>1, <1>2

\* ... to what comes before its end
LEMMA WholeSent ==
    ASSUME NEW t, NEW b, NEW r, NEW a, NEW q \in Seq(Msg), Whole(t, b, r, a, q),
           NEW t2, NEW b2, t2.mode = t.mode, b.switched => b2.switched,
           Silent(t) /\ ~b2.switched => Silent(t2) /\ b2.out = b.out /\ b2.written = b.written,
           NEW m \in Msg, NEW q2, q2 = q \/ q2 = Append(q, m),
           q2 = Append(q, m) /\ m.type = "DATA" /\ ~b2.switched => ~Silent(t),
           q2 = Append(q, m) /\ m.type = "EOF" /\ "stdin" \notin t.mode /\ ~b2.switched =>
               Silent(t2) /\ b2.out = <<>>
    PROVE  Whole(t2, b2, r, a, q2)
<1> SUFFICES ASSUME "stdin" \notin t2.mode, ~b2.switched
             PROVE  /\ \A i \in DOMAIN q2 : q2[i].type = "EOF" =>
                          Silent(t2) /\ b2.out = <<>> /\ \A j \in DOMAIN q2 : i < j => q2[j].type # "DATA"
                    /\ ~r.stdin /\ a.rd /\ r.pc \notin {"finish", "wait", "returned"} =>
                          Silent(t2) /\ Held(a) = b2.written
                    /\ r.remote_status # NoStatus /\ a.rd /\ ~r.died =>
                          Silent(t2) /\ Held(a) = b2.written
  BY DEF Whole
<1>0. /\ \A i \in DOMAIN q : q[i].type = "EOF" =>
            Silent(t) /\ b.out = <<>> /\ \A j \in DOMAIN q : i < j => q[j].type # "DATA"
      /\ ~r.stdin /\ a.rd /\ r.pc \notin {"finish", "wait", "returned"} =>
            Silent(t) /\ Held(a) = b.written
      /\ r.remote_status # NoStatus /\ a.rd /\ ~r.died =>
            Silent(t) /\ Held(a) = b.written
  BY DEF Whole
<1>1. CASE q2 = q
  BY <1>0, <1>1, SMT
<1>2. CASE q2 = Append(q, m)
  <2>1. /\ DOMAIN q2 = 1 .. Len(q) + 1 /\ DOMAIN q = 1 .. Len(q)
        /\ q2[Len(q) + 1] = m /\ \A i \in DOMAIN q : q2[i] = q[i]
        /\ Len(q) \in Nat
    BY <1>2, Appended, SMT
  <2>2. ASSUME NEW i \in DOMAIN q2, q2[i].type = "EOF"
        PROVE  Silent(t2) /\ b2.out = <<>> /\ \A j \in DOMAIN q2 : i < j => q2[j].type # "DATA"
    <3>1. CASE i \in DOMAIN q
      <4>1. Silent(t) /\ b.out = <<>> /\ \A j \in DOMAIN q : i < j => q[j].type # "DATA"
        BY <1>0, <2>1, <2>2, <3>1
      <4>2. Silent(t2) /\ b2.out = <<>>
        BY <4>1
      <4>3. m.type # "DATA"
        BY <1>2, <4>1
      <4> QED BY <2>1, <4>1, <4>2, <4>3, SMT
    <3>2. CASE i = Len(q) + 1
      BY <1>2, <2>1, <2>2, <3>2, SMT
    <3> QED BY <2>1, <3>1, <3>2, SMT
  <2> QED BY <1>0, <2>2
<1> QED BY <1>1, <1>2

\* What the client does, having taken a message or not, to the exit code
LEMMA CodesTaken ==
    ASSUME NEW t, NEW b, NEW r, NEW q \in Seq(Msg), Codes(t, b, r, q), NEW r2, NEW q2,
           q2 = q \/ (q # <<>> /\ q2 = Tail(q)),
           r2.remote_status = r.remote_status \/
               (q # <<>> /\ Head(q).type = "EXIT_CODE" /\ r2.remote_status = Head(q).code)
    PROVE  Codes(t, b, r2, q2)
<1>0. /\ \A j \in DOMAIN q : q[j].type = "EXIT_CODE" => Known(t, b, q[j].code)
      /\ r.remote_status # NoStatus => Known(t, b, r.remote_status)
  BY DEF Codes
<1>1. r2.remote_status # NoStatus => Known(t, b, r2.remote_status)
  <2>1. CASE r2.remote_status = r.remote_status
    BY <1>0, <2>1
  <2>2. CASE q # <<>> /\ Head(q).type = "EXIT_CODE" /\ r2.remote_status = Head(q).code
    <3>1. Head(q) = q[1] /\ 1 \in DOMAIN q
      BY <2>2, SMT
    <3> QED BY <1>0, <2>2, <3>1
  <2> QED BY <2>1, <2>2
<1>2. \A j \in DOMAIN q2 : q2[j].type = "EXIT_CODE" => Known(t, b, q2[j].code)
  <2>1. CASE q2 = q
    BY <1>0, <2>1
  <2>2. CASE q # <<>> /\ q2 = Tail(q)
    <3>1. \A j \in DOMAIN q2 : j + 1 \in DOMAIN q /\ q2[j] = q[j + 1]
      BY <2>2, Removed, SMT
    <3> QED BY <1>0, <3>1
  <2> QED BY <2>1, <2>2
<1> QED BY <1>1, <1>2 DEF Codes

\* ... to the order of the end and the exit code
LEMMA EndsTaken ==
    ASSUME NEW t, NEW r, NEW q \in Seq(Msg), Ends(t, r, q), NEW r2, NEW q2, r2.stdin => r.stdin,
           q2 = q \/ (q # <<>> /\ q2 = Tail(q) /\ (Head(q).type = "EOF" => ~r2.stdin)),
           r2.remote_status = r.remote_status \/ (q # <<>> /\ Head(q).type = "EXIT_CODE")
    PROVE  Ends(t, r2, q2)
<1> SUFFICES ASSUME t.kind # "just_exec"
             PROVE  /\ Announced(t) => Ending(r2, q2)
                    /\ \A j \in DOMAIN q2 : q2[j].type = "EXIT_CODE" =>
                          ~r2.stdin \/ \E i \in DOMAIN q2 : i < j /\ q2[i].type = "EOF"
                    /\ r2.remote_status # NoStatus => ~r2.stdin
  BY DEF Ends
<1>0. /\ Announced(t) => ~r.stdin \/ \E i \in DOMAIN q : q[i].type = "EOF"
      /\ \A j \in DOMAIN q : q[j].type = "EXIT_CODE" =>
            ~r.stdin \/ \E i \in DOMAIN q : i < j /\ q[i].type = "EOF"
      /\ r.remote_status # NoStatus => ~r.stdin
  BY DEF Ends, Ending
<1>1. r2.remote_status # NoStatus => ~r2.stdin
  <2>1. CASE q # <<>> /\ Head(q).type = "EXIT_CODE"
    <3>1. Head(q) = q[1] /\ 1 \in DOMAIN q /\ \A i \in DOMAIN q : ~(i < 1)
      BY <2>1, SMT
    <3> QED BY <1>0, <2>1, <3>1
  <2> QED BY <1>0, <2>1
<1>2. CASE q2 = q
  BY <1>0, <1>1, <1>2, SMT DEF Ending
<1>3. CASE q # <<>> /\ q2 = Tail(q) /\ (Head(q).type = "EOF" => ~r2.stdin)
  <2>1. /\ Len(q) \in Nat /\ DOMAIN q = 1 .. Len(q) /\ DOMAIN q2 = 1 .. Len(q) - 1
        /\ Head(q) = q[1] /\ \A j \in DOMAIN q2 : q2[j] = q[j + 1]
    BY <1>3, Removed
  <2>2. ASSUME r2.stdin, NEW i \in DOMAIN q, q[i].type = "EOF"
        PROVE  i - 1 \in DOMAIN q2 /\ q2[i - 1].type = "EOF"
    <3>1. i # 1
      BY <1>3, <2>1, <2>2
    <3> QED BY <2>1, <2>2, <3>1, SMT
  <2>3. Announced(t) => Ending(r2, q2)
    BY <1>0, <2>2 DEF Ending
  <2>4. ASSUME NEW j \in DOMAIN q2, q2[j].type = "EXIT_CODE", r2.stdin
        PROVE  \E i \in DOMAIN q2 : i < j /\ q2[i].type = "EOF"
    <3>1. j + 1 \in DOMAIN q /\ q[j + 1].type = "EXIT_CODE" /\ j \in Nat
      BY <2>1, <2>4, SMT
    <3>2. PICK i \in DOMAIN q : i < j + 1 /\ q[i].type = "EOF"
      BY <1>0, <2>4, <3>1
    <3>3. i - 1 \in DOMAIN q2 /\ q2[i - 1].type = "EOF" /\ i - 1 < j
      BY <2>1, <2>2, <2>4, <3>1, <3>2, SMT
    <3> QED BY <3>3
  <2> QED BY <1>1, <2>3, <2>4
<1> QED BY <1>2, <1>3

\* ... to what comes before the end
LEMMA WholeTaken ==
    ASSUME NEW t, NEW b, NEW r, NEW a, NEW q \in Seq(Msg), Whole(t, b, r, a, q), NEW r2, NEW a2, NEW q2,
           q2 = q \/ (q # <<>> /\ q2 = Tail(q)),
           "stdin" \notin t.mode /\ ~b.switched =>
               /\ ~r2.stdin /\ a2.rd /\ r2.pc \notin {"finish", "wait", "returned"} =>
                     \/ /\ ~r.stdin /\ a.rd /\ r.pc \notin {"finish", "wait", "returned"}
                        /\ Held(a2) = Held(a)
                     \/ Silent(t) /\ Held(a2) = b.written
               /\ r2.remote_status # NoStatus /\ a2.rd /\ ~r2.died =>
                     \/ r.remote_status # NoStatus /\ a.rd /\ ~r.died /\ Held(a2) = Held(a)
                     \/ Silent(t) /\ Held(a2) = b.written
    PROVE  Whole(t, b, r2, a2, q2)
<1> SUFFICES ASSUME "stdin" \notin t.mode, ~b.switched
             PROVE  /\ \A i \in DOMAIN q2 : q2[i].type = "EOF" =>
                          Silent(t) /\ b.out = <<>> /\ \A j \in DOMAIN q2 : i < j => q2[j].type # "DATA"
                    /\ ~r2.stdin /\ a2.rd /\ r2.pc \notin {"finish", "wait", "returned"} =>
                          Silent(t) /\ Held(a2) = b.written
                    /\ r2.remote_status # NoStatus /\ a2.rd /\ ~r2.died =>
                          Silent(t) /\ Held(a2) = b.written
  BY DEF Whole
<1>0. /\ \A i \in DOMAIN q : q[i].type = "EOF" =>
            Silent(t) /\ b.out = <<>> /\ \A j \in DOMAIN q : i < j => q[j].type # "DATA"
      /\ ~r.stdin /\ a.rd /\ r.pc \notin {"finish", "wait", "returned"} =>
            Silent(t) /\ Held(a) = b.written
      /\ r.remote_status # NoStatus /\ a.rd /\ ~r.died =>
            Silent(t) /\ Held(a) = b.written
  BY DEF Whole
<1>1. \A i \in DOMAIN q2 : q2[i].type = "EOF" =>
            Silent(t) /\ b.out = <<>> /\ \A j \in DOMAIN q2 : i < j => q2[j].type # "DATA"
  <2>1. CASE q2 = q
    BY <1>0, <2>1, SMT
  <2>2. CASE q # <<>> /\ q2 = Tail(q)
    <3>1. \A j \in DOMAIN q2 : j + 1 \in DOMAIN q /\ q2[j] = q[j + 1] /\ j \in Nat
      BY <2>2, Removed, SMT
    <3>2. ASSUME NEW i \in DOMAIN q2, q2[i].type = "EOF"
          PROVE  Silent(t) /\ b.out = <<>> /\ \A j \in DOMAIN q2 : i < j => q2[j].type # "DATA"
      <4>1. \A j \in DOMAIN q2 : i < j => i + 1 < j + 1
        BY <3>1, SMT
      <4> QED BY <1>0, <3>1, <3>2, <4>1
    <3> QED BY <3>2
  <2> QED BY <2>1, <2>2
<1> QED BY <1>0, <1>1

-----------------------------------------------------------------------------
(* What a step does to the data that comes in, and to what goes out *)

Left == {"finish", "wait", "returned"}

\* Nothing is given to the program; its stdin is closed only if it does not
\* read any more, or the loop is left, or the service is configured so.
Rests(r, a, q, r2, a2, q2) ==
    /\ q2 = q /\ a2.got = a.got /\ a2.in = a.in
    /\ r2.stdin_buf = r.stdin_buf /\ r2.remote_status = r.remote_status
    /\ ~r2.stdin => ~r.stdin \/ ~a2.rd \/ r2.pc \in Left \/ r.mode # {}
\* Data moves between the buffer, the pipe and the program.
Moves(r, a, q, r2, a2, q2) ==
    /\ q2 = q /\ r2.stdin = r.stdin /\ r2.remote_status = r.remote_status
    /\ \/ /\ r.stdin /\ a.rd /\ a.in = <<>> /\ r.stdin_buf # <<>>
          /\ a2.got = a.got /\ a2.in = Append(a.in, Head(r.stdin_buf)) /\ r2.stdin_buf = Tail(r.stdin_buf)
       \/ r2 = r /\ a2.got = a.got \o a.in /\ a2.in = <<>> /\ a2.rd = a.rd
       \/ a2.got = a.got /\ a2.in = <<>> /\ ~a2.rd
\* The loop takes a message.
Takes(r, a, q, r2, a2, q2) ==
    /\ r.pc = "recv" /\ q # <<>> /\ q2 = Tail(q)
    /\ \/ /\ r.stdin /\ Head(q).type = "DATA" /\ a.rd /\ a.in = <<>>
          /\ r2 = r /\ a2.got = a.got /\ a2.in = Append(a.in, Head(q).chunk)
       \/ /\ r.stdin /\ Head(q).type = "DATA" /\ a.rd
          /\ a2 = a /\ r2.stdin /\ r2.stdin_buf = Append(r.stdin_buf, Head(q).chunk)
          /\ r2.remote_status = r.remote_status
       \/ /\ a2 = a /\ r2.stdin_buf = r.stdin_buf
          /\ Head(q).type = "DATA" => ~r2.stdin
          /\ Head(q).type = "EOF" => ~r2.stdin
          /\ ~r2.stdin => ~r.stdin \/ ~a.rd \/ Head(q).type = "EOF"
          /\ \/ r2.remote_status = r.remote_status
             \/ Head(q).type = "EXIT_CODE" /\ r2.remote_status = Head(q).code
Receives(r, a, q, r2, a2, q2) ==
    /\ r.pc \in Left => r2.pc \in Left
    /\ r.died => r2.died
    /\ r2.stdin => r.stdin
    /\ a2.rd => a.rd
    /\ Rests(r, a, q, r2, a2, q2) \/ Moves(r, a, q, r2, a2, q2) \/ Takes(r, a, q, r2, a2, q2)

\* What is received stays in order.
LEMMA InFlow ==
    ASSUME NEW r \in IO, NEW a \in Prog, NEW q \in Seq(Msg), NEW h \in Nat, Flow(r, a, q, h),
           r.pc = "recv" /\ r.stdin => r.stdin_buf = <<>>,
           NEW r2 \in IO, NEW a2 \in Prog, NEW q2, Receives(r, a, q, r2, a2, q2)
    PROVE  Flow(r2, a2, q2, h)
<1>1. CASE Rests(r, a, q, r2, a2, q2)
  BY <1>1, FlowKept DEF Rests, Receives
<1>2. CASE Moves(r, a, q, r2, a2, q2)
  <2>1. CASE /\ r.stdin /\ a.rd /\ a.in = <<>> /\ r.stdin_buf # <<>>
             /\ a2.got = a.got /\ a2.in = Append(a.in, Head(r.stdin_buf)) /\ r2.stdin_buf = Tail(r.stdin_buf)
    BY <1>2, <2>1, FlowFlushed DEF Moves
  <2>2. CASE r2 = r /\ a2.got = a.got \o a.in /\ a2.in = <<>> /\ a2.rd = a.rd
    BY <1>2, <2>2, FlowRead DEF Moves
  <2>3. CASE a2.got = a.got /\ a2.in = <<>> /\ ~a2.rd
    BY <1>2, <2>3, FlowDropped DEF Moves
  <2> QED BY <1>2, <2>1, <2>2, <2>3 DEF Moves
<1>3. CASE Takes(r, a, q, r2, a2, q2)
  <2>0. r.pc = "recv" /\ q # <<>> /\ q2 = Tail(q)
    BY <1>3 DEF Takes
  <2>1. CASE /\ r.stdin /\ Head(q).type = "DATA" /\ a.rd /\ a.in = <<>>
             /\ r2 = r /\ a2.got = a.got /\ a2.in = Append(a.in, Head(q).chunk)
    BY <2>0, <2>1, FlowGiven
  <2>2. CASE /\ r.stdin /\ Head(q).type = "DATA" /\ a.rd
             /\ a2 = a /\ r2.stdin /\ r2.stdin_buf = Append(r.stdin_buf, Head(q).chunk)
    BY <2>0, <2>2, FlowBuffered
  <2>3. CASE /\ a2 = a /\ r2.stdin_buf = r.stdin_buf
             /\ Head(q).type = "DATA" => ~r2.stdin
    BY <2>0, <2>3, FlowKept DEF Receives
  <2> QED BY <1>3, <2>1, <2>2, <2>3 DEF Takes
<1> QED BY <1>1, <1>2, <1>3 DEF Receives

\* The number of chunks that were sent.
LEMMA EmittedType ==
    ASSUME NEW r \in IO, NEW a \in Prog, NEW k \in Nat, Pipes(r, a, k), r.prefix <= k, ~a.switched
    PROVE  Emitted(r, a, k) \in Nat
<1>1. /\ r.prefix \in Nat /\ a.written \in Nat /\ Some(a.out) \in {0, 1} /\ Some(a.out) <= a.written
  BY Counted DEF Pipes
<1> QED BY <1>1, SMT DEF Emitted

\* When the end of the output arrives, everything has arrived.
LEMMA EofArrived ==
    ASSUME NEW t \in IO, NEW b \in Prog, NEW r \in IO, NEW a \in Prog, NEW q \in Seq(Msg), NEW k \in Nat,
           t.prefix = 0, "stdin" \notin t.mode, ~b.switched, Whole(t, b, r, a, q),
           Pipes(t, b, k), Flow(r, a, q, Emitted(t, b, k)),
           q # <<>>, Head(q).type = "EOF", r.stdin, r.stdin_buf = <<>>, a.rd
    PROVE  Silent(t) /\ Held(a) = b.written
<1>1. /\ Len(q) \in Nat /\ DOMAIN q = 1 .. Len(q) /\ 1 \in DOMAIN q /\ Head(q) = q[1]
  BY Removed, SMT
<1>2. Silent(t) /\ b.out = <<>> /\ \A j \in DOMAIN q : 1 < j => q[j].type # "DATA"
  BY <1>1 DEF Whole
<1>3. \A j \in DOMAIN q : q[j].type # "DATA"
  <2>1. \A j \in DOMAIN q : j = 1 \/ 1 < j
    BY <1>1, SMT
  <2> QED BY <1>1, <1>2, <2>1
<1>4. Held(a) \in Nat /\ b.written \in Nat
  BY Counted
<1>5. Emitted(t, b, k) = b.written /\ Held(a) + Some(r.stdin_buf) = Held(a)
  BY <1>2, <1>4, SMT DEF Emitted, Some
<1>6. Held(a) <= b.written /\ Window(q, Held(a), b.written)
  BY <1>5 DEF Flow
<1>7. Held(a) = b.written
  BY <1>3, <1>4, <1>6, WindowEmpty
<1> QED BY <1>2, <1>7

\* A service that is not waited for has no output.
LEMMA NoOutput ==
    ASSUME NEW t \in IO, NEW b \in Prog, NEW r, NEW a \in Prog, NEW q, NEW k \in Nat,
           t.prefix = 0, t.kind = "just_exec", ~b.switched,
           Pipes(t, b, k), Flow(r, a, q, Emitted(t, b, k))
    PROVE  Silent(t) /\ Held(a) = b.written
<1>1. b.out = <<>> /\ b.written = 0
  BY DEF Pipes, NoLoop
<1>2. Held(a) \in Nat
  BY Counted
<1>3. Emitted(t, b, k) = 0
  BY <1>1, SMT DEF Emitted, Some
<1>4. Held(a) <= 0
  BY <1>3 DEF Flow
<1> QED BY <1>1, <1>2, <1>4, SMT DEF Silent, NoLoop

\* A step of the client keeps the answer.
LEMMA ClientAnswer ==
    ASSUME NEW t \in IO, NEW b \in Prog, NEW r \in IO, NEW a \in Prog, NEW q \in Seq(Msg), NEW k \in Nat,
           t.prefix = 0, Pipes(t, b, k),
           Codes(t, b, r, q), Ends(t, r, q), Whole(t, b, r, a, q),
           ~b.switched => Flow(r, a, q, Emitted(t, b, k)),
           r.pc = "recv" /\ r.stdin => r.stdin_buf = <<>>, r.mode = {},
           NEW r2 \in IO, NEW a2 \in Prog, NEW q2, Receives(r, a, q, r2, a2, q2),
           ~b.switched => Flow(r2, a2, q2, Emitted(t, b, k))
    PROVE  Codes(t, b, r2, q2) /\ Ends(t, r2, q2) /\ Whole(t, b, r2, a2, q2)
<1>1. /\ q2 = q \/ (q # <<>> /\ q2 = Tail(q) /\ (Head(q).type = "EOF" => ~r2.stdin))
      /\ \/ r2.remote_status = r.remote_status
         \/ r.pc = "recv" /\ q # <<>> /\ Head(q).type = "EXIT_CODE" /\ r2.remote_status = Head(q).code
      /\ r2.stdin => r.stdin
  <2>1. CASE Rests(r, a, q, r2, a2, q2)
    BY <2>1 DEF Rests, Receives
  <2>2. CASE Moves(r, a, q, r2, a2, q2)
    BY <2>2 DEF Moves, Receives
  <2>3. CASE Takes(r, a, q, r2, a2, q2)
    BY <2>3 DEF Takes, Receives
  <2> QED BY <2>1, <2>2, <2>3 DEF Receives
<1>2. Codes(t, b, r2, q2)
  BY <1>1, CodesTaken
<1>3. Ends(t, r2, q2)
  BY <1>1, EndsTaken
<1>4. ASSUME "stdin" \notin t.mode, ~b.switched
      PROVE  /\ ~r2.stdin /\ a2.rd /\ r2.pc \notin {"finish", "wait", "returned"} =>
                   \/ /\ ~r.stdin /\ a.rd /\ r.pc \notin {"finish", "wait", "returned"}
                      /\ Held(a2) = Held(a)
                   \/ Silent(t) /\ Held(a2) = b.written
             /\ r2.remote_status # NoStatus /\ a2.rd /\ ~r2.died =>
                   \/ r.remote_status # NoStatus /\ a.rd /\ ~r.died /\ Held(a2) = Held(a)
                   \/ Silent(t) /\ Held(a2) = b.written
  <2>1. a2.rd => a.rd
    BY DEF Receives
  <2>2. ASSUME a2.rd, ~r.stdin PROVE Held(a2) = Held(a)
    <3>1. CASE Rests(r, a, q, r2, a2, q2)
      BY <3>1 DEF Rests, Held
    <3>2. CASE Moves(r, a, q, r2, a2, q2)
      <4>1. a2.got = a.got \o a.in /\ a2.in = <<>>
        BY <2>2, <3>2 DEF Moves
      <4>2. a.got \in Seq(Chunk) /\ a.in \in {<<>>, <<Len(a.got) + 1>>} /\ \A i \in DOMAIN a.got : a.got[i] = i
        BY <1>4, Counted DEF Flow
      <4>3. Len(a2.got) = Len(a.got) + Some(a.in) /\ Len(a2.got) \in Nat /\ Some(a2.in) = 0
        BY <4>1, <4>2, NextRead, Counted, HowMany
      <4> QED BY <4>3, SMT DEF Held
    <3>3. CASE Takes(r, a, q, r2, a2, q2)
      BY <2>2, <3>3 DEF Takes
    <3> QED BY <3>1, <3>2, <3>3 DEF Receives
  <2>3. ASSUME ~r2.stdin, a2.rd, r2.pc \notin Left, r.stdin PROVE Silent(t) /\ Held(a2) = b.written
    <3>1. q # <<>> /\ Head(q).type = "EOF" /\ r.pc = "recv" /\ a2 = a
      <4>1. CASE Rests(r, a, q, r2, a2, q2)
        BY <2>3, <4>1 DEF Rests
      <4>2. CASE Moves(r, a, q, r2, a2, q2)
        BY <2>3, <4>2 DEF Moves
      <4>3. CASE Takes(r, a, q, r2, a2, q2)
        BY <2>3, <4>3 DEF Takes
      <4> QED BY <4>1, <4>2, <4>3 DEF Receives
    <3> QED BY <1>4, <2>1, <2>3, <3>1, EofArrived, SMT
  <2>4. ~r2.stdin /\ a2.rd /\ r2.pc \notin Left =>
           \/ ~r.stdin /\ a.rd /\ r.pc \notin Left /\ Held(a2) = Held(a)
           \/ Silent(t) /\ Held(a2) = b.written
    BY <2>1, <2>2, <2>3 DEF Receives
  <2>5. ASSUME r2.remote_status # NoStatus, a2.rd, ~r2.died
        PROVE  \/ r.remote_status # NoStatus /\ a.rd /\ ~r.died /\ Held(a2) = Held(a)
               \/ Silent(t) /\ Held(a2) = b.written
    <3>1. CASE t.kind = "just_exec"
      BY <1>4, <3>1, NoOutput
    <3>2. CASE t.kind # "just_exec" /\ r.remote_status # NoStatus
      <4>1. ~r.stdin
        BY <3>2 DEF Ends
      <4> QED BY <2>1, <2>2, <2>5, <3>2, <4>1 DEF Receives
    <3>3. CASE t.kind # "just_exec" /\ r.remote_status = NoStatus
      <4>1. r.pc = "recv" /\ q # <<>> /\ Head(q).type = "EXIT_CODE"
        BY <1>1, <2>5, <3>3
      <4>2. Head(q) = q[1] /\ 1 \in DOMAIN q /\ \A i \in DOMAIN q : ~(i < 1)
        BY <4>1, SMT
      <4>3. ~r.stdin
        BY <3>3, <4>1, <4>2 DEF Ends
      <4>4. Silent(t) /\ Held(a) = b.written
        BY <1>4, <2>1, <2>5, <4>1, <4>3 DEF Whole
      <4> QED BY <2>2, <2>5, <4>3, <4>4
    <3> QED BY <3>1, <3>2, <3>3
  <2> QED BY <2>4, <2>5 DEF Left
<1>5. Whole(t, b, r2, a2, q2)
  BY <1>1, <1>4, WholeTaken
<1> QED BY <1>2, <1>3, <1>5

\* A side (t, b) sends m, or nothing, to the other one (r, q).
Quiet(t, b, q, t2, b2, q2, r, k) ==
    /\ q2 = q
    /\ ~b2.switched => \/ Emitted(t2, b2, k) = Emitted(t, b, k)
                       \/ ~r.stdin /\ Emitted(t2, b2, k) = Emitted(t, b, k) + 1
Speaks(t, b, q, t2, b2, q2, m, k) ==
    /\ q2 = Append(q, m)
    /\ ~b2.switched => Emitted(t2, b2, k) =
                           IF m.type = "DATA" THEN Emitted(t, b, k) + 1 ELSE Emitted(t, b, k)
    /\ ~b2.switched /\ m.type = "DATA" => m.chunk = Emitted(t, b, k) + 1
\* ... and what the service promises then
Answers(t, b, q, t2, b2, q2, m, r) ==
    /\ t2.kind = t.kind /\ t2.mode = t.mode
    /\ t.pc = "returned" => t2.pc = "returned"
    /\ b.st = "reaped" => b2.st = "reaped"
    /\ b2.code = b.code \/ (t.kind = "process" /\ b.st # "reaped") \/ (t.kind \in NoLoop /\ t.pc # "returned")
    /\ Silent(t) /\ ~b2.switched => Silent(t2) /\ b2.out = b.out /\ b2.written = b.written
    /\ Announced(t2) => Announced(t) \/ ~r.stdin \/ (q2 = Append(q, m) /\ m.type = "EOF")
    /\ q2 = Append(q, m) =>
          /\ m.type = "EXIT_CODE" => Known(t2, b2, m.code) /\ (t.kind # "just_exec" => Announced(t))
          /\ m.type = "DATA" /\ ~b2.switched => ~Silent(t)
          /\ m.type = "EOF" /\ "stdin" \notin t.mode /\ ~b2.switched => Silent(t2) /\ b2.out = <<>>
Sends(s, t, b, q, t2, b2, q2, m, r, k) ==
    /\ m \in Msg
    /\ b.switched => b2.switched
    /\ Quiet(t, b, q, t2, b2, q2, r, k) \/ Speaks(t, b, q, t2, b2, q2, m, k)
    /\ s = "service" => Answers(t, b, q, t2, b2, q2, m, r)

\* What is sent arrives in order.
LEMMA OutFlow ==
    ASSUME NEW s, NEW t, NEW b, NEW r \in IO, NEW a \in Prog, NEW q \in Seq(Msg), NEW k,
           ~b.switched => Emitted(t, b, k) \in Nat /\ Flow(r, a, q, Emitted(t, b, k)),
           NEW t2, NEW b2, NEW q2, NEW m, Sends(s, t, b, q, t2, b2, q2, m, r, k),
           ~b2.switched
    PROVE  Flow(r, a, q2, Emitted(t2, b2, k))
<1>0. ~b.switched /\ m \in Msg
  BY DEF Sends
<1>1. PICK h \in Nat : h = Emitted(t, b, k)
  BY <1>0
<1>2. Flow(r, a, q, h)
  BY <1>0, <1>1
<1>3. CASE Quiet(t, b, q, t2, b2, q2, r, k)
  <2>1. q2 = q /\ (Emitted(t2, b2, k) = h \/ (~r.stdin /\ Emitted(t2, b2, k) = h + 1))
    BY <1>1, <1>3 DEF Quiet
  <2>2. ~r.stdin => Flow(r, a, q, h + 1)
    BY <1>2, FlowLost, SMT
  <2> QED BY <1>2, <2>1, <2>2
<1>4. CASE Speaks(t, b, q, t2, b2, q2, m, k)
  <2>1. CASE m.type = "DATA"
    <3>1. q2 = Append(q, m) /\ Emitted(t2, b2, k) = h + 1 /\ m.chunk = h + 1
      BY <1>1, <1>4, <2>1 DEF Speaks
    <3> QED BY <1>0, <1>2, <2>1, <3>1, FlowSent
  <2>2. CASE m.type # "DATA"
    <3>1. q2 = Append(q, m) /\ Emitted(t2, b2, k) = h
      BY <1>1, <1>4, <2>2 DEF Speaks
    <3> QED BY <1>0, <1>2, <2>2, <3>1, FlowSent
  <2> QED BY <2>1, <2>2
<1> QED BY <1>3, <1>4 DEF Sends

\* A step of the service keeps the answer.
LEMMA ServiceAnswer ==
    ASSUME NEW t, NEW b, NEW r, NEW a, NEW q \in Seq(Msg), NEW k,
           Codes(t, b, r, q), Ends(t, r, q), Whole(t, b, r, a, q),
           NEW t2, NEW b2, NEW q2, NEW m, Sends("service", t, b, q, t2, b2, q2, m, r, k)
    PROVE  Codes(t2, b2, r, q2) /\ Ends(t2, r, q2) /\ Whole(t2, b2, r, a, q2)
<1>1. m \in Msg /\ (q2 = q \/ q2 = Append(q, m)) /\ Answers(t, b, q, t2, b2, q2, m, r)
      /\ (b.switched => b2.switched)
  BY DEF Sends, Quiet, Speaks
<1>2. Codes(t2, b2, r, q2)
  BY <1>1, CodesSent, ZenonT(30) DEF Answers
<1>3. Ends(t2, r, q2)
  BY <1>1, EndsSent, SMT DEF Answers
<1>4. Whole(t2, b2, r, a, q2)
  BY <1>1, WholeSent, SMT DEF Answers
<1> QED BY <1>2, <1>3, <1>4

-----------------------------------------------------------------------------
(* The invariant, put together *)

\* What is known of a side s with r, a, q, x, when the other one has z, p (its
\* end is open) and the ring o
Good(s, r, a, q, o, x, z, p, c) ==
    /\ s \in Side /\ r \in IO /\ a \in Prog /\ q \in Seq(Msg) /\ o \in Seq(Msg)
    /\ x \in BOOLEAN /\ p \in BOOLEAN /\ z \in IO
    /\ c \in CallType
    /\ c.mode # {} => c.service = "socket"
    /\ c.stderr => c.service = "process"
    /\ Fixed(s, r, c) /\ Control(s, r, x, p) /\ Child(r, a) /\ Pipes(r, a, c.prefix)
    /\ ~p => ~z.stdin

\* The side s is left with r2, a2, q2, x2, and the ring of the other one with
\* o2, having sent m or nothing.
Fine(s, r, a, q, o, x, z, p, c, r2, a2, q2, o2, x2, m) ==
    /\ r2 \in IO /\ a2 \in Prog
    /\ Fixed(s, r2, c) /\ Control(s, r2, x2, p) /\ Child(r2, a2) /\ Pipes(r2, a2, c.prefix)
    /\ x2 \in BOOLEAN
    /\ x2 => x
    /\ Receives(r, a, q, r2, a2, q2)
    /\ Sends(s, r, a, o, r2, a2, o2, m, z, c.prefix)

\* What the invariant says of a side.
LEMMA GoodSide ==
    ASSUME IInv, NEW s \in Side
    PROVE  Good(s, io[s], prog[s], ring[s], ring[Other(s)], open[s], io[Other(s)], open[Other(s)], Call)
<1>1. Other(s) \in Side
  BY TwoSides
<1>2. /\ io[s] \in IO /\ prog[s] \in Prog /\ ring[s] \in Seq(Msg) /\ open[s] \in BOOLEAN
      /\ io[Other(s)] \in IO /\ ring[Other(s)] \in Seq(Msg) /\ open[Other(s)] \in BOOLEAN
  BY <1>1, Parts DEF IInv
<1>3. Call \in CallType /\ (Call.mode # {} => Call.service = "socket") /\ (Call.stderr => Call.service = "process")
  BY IOAssumption DEF IInv
<1>4. SideInv(s) /\ SideInv(Other(s))
  BY <1>1 DEF IInv
<1>5. ~open[Other(s)] => ~io[Other(s)].stdin
  BY <1>4 DEF SideInv, Control
<1> QED BY <1>2, <1>3, <1>4, <1>5 DEF Good, SideInv

\* A step of one side that does as it should keeps the invariant.
LEMMA Assemble ==
    ASSUME IInv, NEW s \in Side, NEW r2, NEW a2, NEW q2, NEW o2, NEW x2, NEW m,
           Step(s, r2, a2, q2, o2, x2),
           Fine(s, io[s], prog[s], ring[s], ring[Other(s)], open[s], io[Other(s)], open[Other(s)], Call,
                r2, a2, q2, o2, x2, m)
    PROVE  IInv'
<1>1. PICK p \in Side : p = Other(s)
  BY TwoSides
<1>0. /\ p # s /\ Other(p) = s /\ \A y \in Side : y = s \/ y = p
      /\ s = "service" => p = "client"
      /\ s = "client" => p = "service"
      /\ s = "service" \/ s = "client"
  BY <1>1, TwoSides DEF Side
<1>2. PICK c : c = Call
  OBVIOUS
<1>3. /\ TypeOK /\ c \in Calls /\ c \in CallType /\ c.prefix \in Nat
  <2>1. c \in CallType
    BY <1>2, IOAssumption DEF IInv
  <2> QED BY <1>2, <2>1 DEF IInv, CallType
<1>4. /\ io[s] \in IO /\ prog[s] \in Prog /\ ring[s] \in Seq(Msg) /\ open[s] \in BOOLEAN
      /\ io[p] \in IO /\ prog[p] \in Prog /\ ring[p] \in Seq(Msg) /\ open[p] \in BOOLEAN
  BY <1>3, Parts
<1>5. /\ Fixed(s, io[s], c) /\ Control(s, io[s], open[s], open[p]) /\ Child(io[s], prog[s])
      /\ Pipes(io[s], prog[s], c.prefix)
  BY <1>1, <1>2 DEF IInv, SideInv
<1>6. /\ Fixed(p, io[p], c) /\ Control(p, io[p], open[p], open[s]) /\ Child(io[p], prog[p])
      /\ Pipes(io[p], prog[p], c.prefix)
  BY <1>0, <1>2 DEF IInv, SideInv
<1>7. /\ r2 \in IO /\ a2 \in Prog /\ Fixed(s, r2, c) /\ Control(s, r2, x2, open[p])
      /\ Child(r2, a2) /\ Pipes(r2, a2, c.prefix)
      /\ x2 \in BOOLEAN /\ (x2 => open[s])
      /\ Receives(io[s], prog[s], ring[s], r2, a2, q2)
      /\ Sends(s, io[s], prog[s], ring[p], r2, a2, o2, m, io[p], c.prefix)
  BY <1>1, <1>2 DEF Fine
<1>8. q2 \in Seq(Msg) /\ o2 \in Seq(Msg)
  <2>1. q2 = ring[s] \/ (ring[s] # <<>> /\ q2 = Tail(ring[s]))
    BY <1>7 DEF Receives, Rests, Moves, Takes
  <2>2. o2 = ring[p] \/ (m \in Msg /\ o2 = Append(ring[p], m))
    BY <1>7 DEF Sends, Quiet, Speaks
  <2>3. q2 \in Seq(Msg)
    BY <1>4, <2>1, Removed
  <2> QED BY <1>4, <2>2, <2>3, Appended
<1>9. /\ io'[s] = r2 /\ io'[p] = io[p] /\ prog'[s] = a2 /\ prog'[p] = prog[p]
      /\ ring'[s] = q2 /\ ring'[p] = o2 /\ open'[s] = x2 /\ open'[p] = open[p]
  BY <1>0 DEF Step
<1>10. TypeOK'
  <2>1. io' \in [Side -> IO] /\ prog' \in [Side -> Prog]
    BY <1>0, <1>4, <1>7 DEF Step
  <2>2. ring' \in [Side -> Seq(Msg)] /\ open' \in [Side -> BOOLEAN]
    BY <1>0, <1>4, <1>7, <1>8 DEF Step
  <2> QED BY <2>1, <2>2 DEF TypeOK
<1>11. Call' = c
  <2>1. io'["service"].call = c
    BY <1>0, <1>6, <1>7, <1>9 DEF Fixed
  <2> QED BY <2>1 DEF Call
<1>12. SideInv(s)'
  BY <1>1, <1>7, <1>9, <1>11 DEF SideInv
<1>13. SideInv(p)'
  <2>1. Control(p, io[p], open[p], x2)
    BY <1>6, <1>7 DEF Control
  <2> QED BY <1>0, <1>6, <1>9, <1>11, <2>1 DEF SideInv
<1>14. ~prog[p].switched => /\ Emitted(io[p], prog[p], c.prefix) \in Nat
                           /\ Flow(io[s], prog[s], ring[s], Emitted(io[p], prog[p], c.prefix))
  <2>1. io[p].prefix <= c.prefix
    BY <1>6 DEF Fixed
  <2>2. ~prog[p].switched => Emitted(io[p], prog[p], c.prefix) \in Nat
    BY <1>3, <1>4, <1>6, <2>1, EmittedType
  <2>3. FlowInv(s)
    BY DEF IInv
  <2> QED BY <1>1, <1>2, <2>2, <2>3 DEF FlowInv
<1>15. ~prog[s].switched => /\ Emitted(io[s], prog[s], c.prefix) \in Nat
                           /\ Flow(io[p], prog[p], ring[p], Emitted(io[s], prog[s], c.prefix))
  <2>1. io[s].prefix <= c.prefix
    BY <1>5 DEF Fixed
  <2>2. ~prog[s].switched => Emitted(io[s], prog[s], c.prefix) \in Nat
    BY <1>3, <1>4, <1>5, <2>1, EmittedType
  <2>3. FlowInv(p)
    BY DEF IInv
  <2> QED BY <1>0, <1>2, <2>2, <2>3 DEF FlowInv
<1>16. io[s].pc = "recv" /\ io[s].stdin => io[s].stdin_buf = <<>>
  BY <1>5 DEF Control
<1>17. ~prog[p].switched => Flow(r2, a2, q2, Emitted(io[p], prog[p], c.prefix))
  BY <1>4, <1>7, <1>14, <1>16, InFlow
<1>18. ~a2.switched => Flow(io[p], prog[p], o2, Emitted(r2, a2, c.prefix))
  BY <1>4, <1>7, <1>15, OutFlow
<1>19. FlowInv(s)'
  BY <1>1, <1>9, <1>11, <1>17 DEF FlowInv
<1>20. FlowInv(p)'
  BY <1>0, <1>9, <1>11, <1>18 DEF FlowInv
<1>21. AnswerInv'
  <2>1. CASE s = "service"
    <3>1. /\ Codes(io[s], prog[s], io[p], ring[p]) /\ Ends(io[s], io[p], ring[p])
          /\ Whole(io[s], prog[s], io[p], prog[p], ring[p])
      BY <1>0, <2>1 DEF IInv, AnswerInv
    <3>2. Codes(r2, a2, io[p], o2) /\ Ends(r2, io[p], o2) /\ Whole(r2, a2, io[p], prog[p], o2)
      BY <1>4, <1>7, <2>1, <3>1, ServiceAnswer
    <3> QED BY <1>0, <1>9, <2>1, <3>2 DEF AnswerInv
  <2>2. CASE s = "client"
    <3>1. /\ Codes(io[p], prog[p], io[s], ring[s]) /\ Ends(io[p], io[s], ring[s])
          /\ Whole(io[p], prog[p], io[s], prog[s], ring[s])
      BY <1>0, <2>2 DEF IInv, AnswerInv
    <3>2. io[p].prefix = 0 /\ io[s].mode = {}
      BY <1>0, <1>5, <1>6, <2>2 DEF Fixed
    <3>3. Codes(io[p], prog[p], r2, q2) /\ Ends(io[p], r2, q2) /\ Whole(io[p], prog[p], r2, a2, q2)
      BY <1>3, <1>4, <1>6, <1>7, <1>14, <1>16, <1>17, <3>1, <3>2, ClientAnswer
    <3> QED BY <1>0, <1>9, <2>2, <3>3 DEF AnswerInv
  <2> QED BY <1>0, <2>1, <2>2
<1>22. \A y \in Side : (SideInv(y) /\ FlowInv(y))'
  <2>1. (SideInv(s) /\ FlowInv(s))' /\ (SideInv(p) /\ FlowInv(p))'
    BY <1>12, <1>13, <1>19, <1>20
  <2> QED BY <1>0, <2>1
<1> QED BY <1>3, <1>10, <1>11, <1>21, <1>22 DEF IInv

\* A step that sends m, or nothing, and no data except through one socket
Plain(r, a, o, z, r2, a2, o2, m) ==
    /\ r2.call = r.call /\ r2.kind = r.kind /\ r2.mode = r.mode /\ r2.prefix = r.prefix
    /\ "prefix" \in r2.rev => "prefix" \in r.rev
    /\ "stdin" \in r2.rev => ~a2.rd
    /\ ~a2.rd => a2.in = <<>>
    /\ r2.sigusr1 \/ (r2.kind = "process" /\ r2.single) => a2.switched
    /\ a2.switched => r.kind = "process"
    /\ a.switched => a2.switched
    /\ ~a2.switched => a2.written = a.written /\ a2.out = a.out
    /\ r.pc = "returned" => r2.pc = "returned"
    /\ a.st = "reaped" => a2.st = "reaped"
    /\ a2.code = a.code \/ (r.kind = "process" /\ a.st # "reaped") \/ (r.kind \in NoLoop /\ r.pc # "returned")
    /\ r2.stdout => r.stdout \/ a2.switched
    /\ Announced(r2) => Announced(r) \/ ~z.stdin \/ (o2 = Append(o, m) /\ m.type = "EOF")
    /\ m \in Msg /\ (m.type = "DATA" => a2.switched)
    /\ o2 = o \/ o2 = Append(o, m)
\* ... and an end, or an exit code, only in its place
Timely(r, o, r2, a2, o2, m) ==
    o2 = Append(o, m) =>
        /\ m.type = "EXIT_CODE" => Known(r2, a2, m.code) /\ (r.kind # "just_exec" => Announced(r))
        /\ m.type = "EOF" /\ "stdin" \notin r.mode /\ ~a2.switched => Silent(r2) /\ a2.out = <<>>

\* Such a step is as it should be.
LEMMA PlainFine ==
    ASSUME NEW s, NEW r, NEW a, NEW q, NEW o, NEW x, NEW z, NEW p, NEW c, Good(s, r, a, q, o, x, z, p, c),
           NEW r2 \in IO, NEW a2 \in Prog, NEW q2, NEW o2, NEW x2 \in BOOLEAN, x2 => x, NEW m,
           Control(s, r2, x2, p), Child(r2, a2), Receives(r, a, q, r2, a2, q2),
           Plain(r, a, o, z, r2, a2, o2, m), s = "service" => Timely(r, o, r2, a2, o2, m)
    PROVE  Fine(s, r, a, q, o, x, z, p, c, r2, a2, q2, o2, x2, m)
<1>0. /\ r \in IO /\ a \in Prog /\ o \in Seq(Msg) /\ Fixed(s, r, c) /\ Pipes(r, a, c.prefix)
  BY DEF Good
<1>1. Fixed(s, r2, c)
  BY <1>0 DEF Plain, Fixed
<1>2. Pipes(r2, a2, c.prefix)
  <2>1. r2.kind = r.kind /\ r2.prefix = r.prefix /\ (r.kind \in NoLoop => ~a2.switched)
    BY DEF Plain, NoLoop
  <2>2. /\ "stdin" \in r2.rev => ~a2.rd
        /\ ~a2.rd => a2.in = <<>>
        /\ r2.sigusr1 \/ (r2.kind = "process" /\ r2.single) => a2.switched
        /\ a2.switched => r2.kind = "process"
    BY DEF Plain
  <2>3. r2.kind \in NoLoop => a2.out = <<>> /\ a2.written = 0
    BY <1>0, <2>1 DEF Plain, Pipes
  <2>4. ~a2.switched => ~a.switched /\ a2.written = a.written /\ a2.out = a.out
    BY DEF Plain
  <2>5. ~a2.switched =>
           /\ a2.out \in {<<>>, <<a2.written>>} /\ Some(a2.out) <= a2.written
           /\ r2.prefix > 0 => a2.written - Some(a2.out) = c.prefix
    BY <1>0, <2>1, <2>4 DEF Pipes
  <2> QED BY <2>2, <2>3, <2>5 DEF Pipes
<1>3. ~a2.switched => Emitted(r2, a2, c.prefix) = Emitted(r, a, c.prefix)
  BY DEF Plain, Emitted
<1>4. Quiet(r, a, o, r2, a2, o2, z, c.prefix) \/ Speaks(r, a, o, r2, a2, o2, m, c.prefix)
  BY <1>3 DEF Plain, Quiet, Speaks
<1>5. ASSUME s = "service" PROVE Answers(r, a, o, r2, a2, o2, m, z)
  <2>1. Silent(r) /\ ~a2.switched => Silent(r2) /\ a2.out = a.out /\ a2.written = a.written
    BY DEF Plain, Silent
  <2>2. o2 = Append(o, m) =>
          /\ m.type = "EXIT_CODE" => Known(r2, a2, m.code) /\ (r.kind # "just_exec" => Announced(r))
          /\ m.type = "DATA" /\ ~a2.switched => ~Silent(r)
          /\ m.type = "EOF" /\ "stdin" \notin r.mode /\ ~a2.switched => Silent(r2) /\ a2.out = <<>>
    BY <1>5 DEF Plain, Timely
  <2> QED BY <2>1, <2>2 DEF Plain, Answers
<1>6. Sends(s, r, a, o, r2, a2, o2, m, z, c.prefix)
  BY <1>4, <1>5 DEF Plain, Sends
<1> QED BY <1>1, <1>2, <1>6 DEF Fine

\* The values of a side and of the other one
Here(s, r, a, q, o, x, z, p, c) ==
    /\ r = io[s] /\ a = prog[s] /\ q = ring[s] /\ x = open[s]
    /\ o = ring[Other(s)] /\ z = io[Other(s)] /\ p = open[Other(s)] /\ c = Call
    /\ Good(s, r, a, q, o, x, z, p, c)
\* ... can be named.
LEMMA Named ==
    ASSUME IInv, NEW s \in Side
    PROVE  \E r, a, q, o, x, z, p, c : Here(s, r, a, q, o, x, z, p, c)
BY GoodSide DEF Here

\* A plain step keeps the invariant.
LEMMA PlainStep ==
    ASSUME IInv, NEW s \in Side, NEW r, NEW a, NEW q, NEW o, NEW x, NEW z, NEW p, NEW c,
           Here(s, r, a, q, o, x, z, p, c),
           NEW r2 \in IO, NEW a2 \in Prog, NEW q2, NEW o2, NEW x2 \in BOOLEAN, x2 => x, NEW m,
           Control(s, r2, x2, p), Child(r2, a2), Receives(r, a, q, r2, a2, q2),
           Plain(r, a, o, z, r2, a2, o2, m), s = "service" => Timely(r, o, r2, a2, o2, m),
           Step(s, r2, a2, q2, o2, x2)
    PROVE  IInv'
<1>1. Fine(s, r, a, q, o, x, z, p, c, r2, a2, q2, o2, x2, m)
  BY PlainFine DEF Here
<1> QED BY <1>1, Assemble DEF Here

-----------------------------------------------------------------------------
(* Steps inside the loop *)

Inside == {"start", "top", "drained", "poll", "flush", "recv", "stdout", "stderr"}

\* What a side inside the loop is.
LEMMA InsideLoop ==
    ASSUME NEW s, NEW r, NEW x, NEW p, Control(s, r, x, p), r \in IO, x \in BOOLEAN, r.pc \in Inside
    PROVE  x = TRUE /\ r.kind \notin NoLoop /\ ~r.died
<1>1. r.kind # "failed" /\ r.kind # "just_exec" /\ ~r.died
  BY DEF Control, Inside
<1>2. x = TRUE
  BY DEF Control, Inside
<1> QED BY <1>1, <1>2 DEF NoLoop

\* Where control may go inside the loop.
LEMMA InsideControl ==
    ASSUME NEW s, NEW r, NEW x, NEW p, Control(s, r, x, p), r \in IO, x \in BOOLEAN, r.pc \in Inside,
           NEW r2 \in IO, r2.kind = r.kind, r2.died = r.died, r2.pc \in Inside,
           r2.pc = "drained" => ~p,
           r2.pc = "recv" /\ r2.stdin => r2.stdin_buf = <<>>
    PROVE  Control(s, r2, x, p)
<1>1. x = TRUE /\ r.kind \notin NoLoop /\ ~r.died
  BY InsideLoop
<1>2. r2.pc \notin {"stdout_eof", "stderr_eof", "exit_code", "finish", "wait", "returned"}
  BY DEF Inside
<1> QED BY <1>1, <1>2 DEF Control, NoLoop

\* A step that only moves on
OnlyOn(r, r2) ==
    /\ r2.call = r.call /\ r2.kind = r.kind /\ r2.mode = r.mode /\ r2.prefix = r.prefix
    /\ r2.stdin = r.stdin /\ r2.stdout = r.stdout /\ r2.stdin_buf = r.stdin_buf
    /\ r2.local_status = r.local_status /\ r2.remote_status = r.remote_status /\ r2.died = r.died
    /\ r2.single = r.single /\ r2.sigusr1 = r.sigusr1

\* ... keeps the invariant.
LEMMA OnStep ==
    ASSUME IInv, NEW s \in Side, NEW r, NEW a, NEW q, NEW o, NEW x, NEW z, NEW p, NEW c,
           Here(s, r, a, q, o, x, z, p, c), r.pc \in Inside,
           NEW r2 \in IO, OnlyOn(r, r2), r2.pc \in Inside,
           r2.pc = "drained" => ~p,
           r2.pc = "recv" /\ r.stdin => r.stdin_buf = <<>>,
           "prefix" \in r2.rev => "prefix" \in r.rev,
           "stdin" \in r2.rev => ~a.rd,
           NEW o2, o2 = o \/ o2 = Append(o, StderrEof),
           Step(s, r2, a, q, o2, x)
    PROVE  IInv'
<1>0. Good(s, r, a, q, o, x, z, p, c)
  BY DEF Here
<1>1. /\ r \in IO /\ a \in Prog /\ x \in BOOLEAN /\ Control(s, r, x, p) /\ Child(r, a) /\ Pipes(r, a, c.prefix)
  BY <1>0 DEF Good
<1>2. Control(s, r2, x, p)
  BY <1>1, InsideControl DEF OnlyOn
<1>3. Child(r2, a)
  <2>1. r.pc # "returned" /\ r2.pc # "returned"
    BY DEF Inside
  <2> QED BY <1>1, <2>1 DEF Child, OnlyOn
<1>4. Receives(r, a, q, r2, a, q)
  <2>1. r.pc \notin Left
    BY DEF Inside, Left
  <2> QED BY <2>1 DEF Receives, Rests, OnlyOn
<1>5. Announced(r2) => Announced(r)
  <2>1. r.kind # "failed" /\ r.pc # "returned"
    BY <1>1, InsideLoop DEF NoLoop, Inside
  <2> QED BY <2>1 DEF Announced, OnlyOn
<1>6. Plain(r, a, o, z, r2, a, o2, StderrEof)
  <2>1. StderrEof \in Msg /\ StderrEof.type = "STDERR_EOF" /\ r.pc # "returned"
    BY MsgParts DEF Inside
  <2>2. /\ ~a.rd => a.in = <<>>
        /\ r.sigusr1 \/ (r.kind = "process" /\ r.single) => a.switched
        /\ a.switched => r.kind = "process"
    BY <1>1 DEF Pipes
  <2> QED BY <1>5, <2>1, <2>2 DEF Plain, OnlyOn
<1>7. Timely(r, o, r2, a, o2, StderrEof)
  BY MsgParts DEF Timely
<1> QED BY <1>1, <1>2, <1>3, <1>4, <1>6, <1>7, PlainStep

\* The side of a call that has a child has no exit-on-eof mode.
LEMMA ChildMode ==
    ASSUME NEW s, NEW r, NEW a, NEW q, NEW o, NEW x, NEW z, NEW p, NEW c, Good(s, r, a, q, o, x, z, p, c),
           r.kind # "socket" \/ s = "client"
    PROVE  r.mode = {}
BY DEF Good, Fixed

\* How an action writes a step.
LEMMA WriteStep ==
    ASSUME IInv, NEW s \in Side, NEW r, NEW a, NEW q, NEW o, NEW x, NEW z, NEW p, NEW c,
           Here(s, r, a, q, o, x, z, p, c),
           NEW r2, NEW a2, NEW q2, NEW o2, NEW x2,
           Goes(s, r2) \/ (UNCHANGED io /\ r2 = r),
           prog' = [prog EXCEPT ![s] = a2] \/ (UNCHANGED prog /\ a2 = a),
           ring' = [y \in Side |-> IF y = s THEN q2 ELSE o2] \/ (UNCHANGED ring /\ q2 = q /\ o2 = o),
           open' = [open EXCEPT ![s] = x2] \/ (UNCHANGED open /\ x2 = x)
    PROVE  Step(s, r2, a2, q2, o2, x2)
<1>0. TypeOK
  BY DEF IInv
<1>1. io' = [y \in Side |-> IF y = s THEN r2 ELSE io[y]]
  BY <1>0, Written, Unwritten DEF Goes, Here
<1>2. prog' = [y \in Side |-> IF y = s THEN a2 ELSE prog[y]]
  BY <1>0, Written, Unwritten DEF Here
<1>3. ring' = [y \in Side |-> IF y = s THEN q2 ELSE o2]
  BY <1>0, Unwritten, ZenonT(30) DEF Here
<1>4. open' = [y \in Side |-> IF y = s THEN x2 ELSE open[y]]
  BY <1>0, Written, Unwritten DEF Here
<1> QED BY <1>1, <1>2, <1>3, <1>4 DEF Step

\* A message is sent, or lost.
LEMMA Attempted ==
    ASSUME IInv, NEW s \in Side, NEW r, NEW a, NEW q, NEW o, NEW x, NEW z, NEW p, NEW c,
           Here(s, r, a, q, o, x, z, p, c), NEW in, NEW m, Attempt(s, in, <<m>>)
    PROVE  \E o2 : /\ (p /\ o2 = Append(o, m)) \/ (~p /\ o2 = o)
                   /\ ring' = [y \in Side |-> IF y = s THEN in ELSE o2]
<1>1. PICK o2 : o2 = IF p THEN Append(o, m) ELSE o
  OBVIOUS
<1>2. ring' = [y \in Side |-> IF y = s THEN in ELSE o2]
  BY <1>1, AttemptOne, SMT DEF IInv, Here
<1>3. (p /\ o2 = Append(o, m)) \/ (~p /\ o2 = o)
  BY <1>1
<1> QED BY <1>2, <1>3

\* No message is sent.
LEMMA Unattempted ==
    ASSUME IInv, NEW s \in Side, NEW r, NEW a, NEW q, NEW o, NEW x, NEW z, NEW p, NEW c,
           Here(s, r, a, q, o, x, z, p, c), NEW in, Attempt(s, in, <<>>)
    PROVE  ring' = [y \in Side |-> IF y = s THEN in ELSE o]
BY AttemptNone DEF IInv, Here

\* The beginning of process_io()
LEMMA StartStep ==
    ASSUME IInv, NEW s \in Side, start(s)
    PROVE  IInv'
<1>1. PICK r, a, q, o, x, z, p, c : Here(s, r, a, q, o, x, z, p, c)
  BY Named
<1>0. TypeOK /\ r \in IO
  BY <1>1 DEF IInv, Here, Good
<1>2. PICK r2 : r2 = [r EXCEPT !.pc = "top"]
  OBVIOUS
<1>3. r2 \in IO
  BY <1>0, <1>2, SMT DEF IO, Phase
<1>4. r.pc = "start" /\ Goes(s, r2) /\ UNCHANGED <<prog, open>>
  BY <1>1, <1>2 DEF start, Here
<1>5. OnlyOn(r, r2) /\ r2.rev = r.rev /\ r2.pc = "top"
  BY <1>0, <1>2 DEF OnlyOn, IO
<1>6. PICK o2 : /\ o2 = o \/ o2 = Append(o, StderrEof)
               /\ ring' = [y \in Side |-> IF y = s THEN q ELSE o2]
  <2>0. Attempt(s, q, <<StderrEof>>) \/ Attempt(s, q, <<>>)
    BY <1>1 DEF start, Here
  <2>1. CASE Attempt(s, q, <<StderrEof>>)
    <3>1. PICK o2 : /\ (p /\ o2 = Append(o, StderrEof)) \/ (~p /\ o2 = o)
                   /\ ring' = [y \in Side |-> IF y = s THEN q ELSE o2]
      BY <1>1, <2>1, Attempted, SMTT(30)
    <3> QED BY <3>1
  <2>2. CASE Attempt(s, q, <<>>)
    <3>1. ring' = [y \in Side |-> IF y = s THEN q ELSE o]
      BY <1>1, <2>2, Unattempted, SMT
    <3> QED BY <3>1
  <2> QED BY <2>0, <2>1, <2>2
<1>7. Step(s, r2, a, q, o2, x)
  BY <1>1, <1>4, <1>6, WriteStep
<1>8. "stdin" \in r.rev => ~a.rd
  BY <1>1 DEF Here, Good, Pipes
<1>9. r.pc \in Inside /\ r2.pc \in Inside
  BY <1>4, <1>5 DEF Inside
<1> QED BY <1>1, <1>3, <1>5, <1>6, <1>7, <1>8, <1>9, OnStep

\* ppoll()
LEMMA PollStep ==
    ASSUME IInv, NEW s \in Side, ppoll(s) \/ ppoll_eintr(s)
    PROVE  IInv'
<1>1. PICK r, a, q, o, x, z, p, c : Here(s, r, a, q, o, x, z, p, c)
  BY Named
<1>0. r \in IO /\ ("stdin" \in r.rev => ~a.rd)
  BY <1>1 DEF Here, Good, Pipes
<1>2. CASE ppoll(s)
  <2>1. PICK v : v = Revents(s)
    OBVIOUS
  <2>2. v \subseteq {"stdin", "stdout", "stderr"} /\ ("stdin" \in v => ~a.rd)
    BY <1>1, <2>1 DEF Revents, StdinHup, Here
  <2>3. PICK r2 : r2 = [r EXCEPT !.pc = "flush", !.rev = v]
    OBVIOUS
  <2>4. r2 \in IO
    BY <1>0, <2>2, <2>3, ZenonT(30) DEF IO, Phase
  <2>5. r.pc = "poll" /\ Goes(s, r2) /\ UNCHANGED <<prog, ring, open>>
    BY <1>1, <1>2, <2>1, <2>3 DEF ppoll, Here
  <2>6. OnlyOn(r, r2) /\ r2.rev = v /\ r2.pc = "flush"
    BY <1>0, <2>3 DEF OnlyOn, IO
  <2>7. Step(s, r2, a, q, o, x)
    BY <1>1, <2>5, WriteStep
  <2>8. r.pc \in Inside /\ r2.pc \in Inside
    BY <2>5, <2>6 DEF Inside
  <2> QED BY <1>1, <2>2, <2>4, <2>6, <2>7, <2>8, OnStep
<1>3. CASE ppoll_eintr(s)
  <2>3. PICK r2 : r2 = [r EXCEPT !.pc = "top", !.sigchld = TRUE]
    OBVIOUS
  <2>4. r2 \in IO
    BY <1>0, <2>3 DEF IO, Phase
  <2>5. r.pc = "poll" /\ Goes(s, r2) /\ UNCHANGED <<prog, ring, open>>
    BY <1>1, <1>3, <2>3 DEF ppoll_eintr, Here
  <2>6. OnlyOn(r, r2) /\ r2.rev = r.rev /\ r2.pc = "top"
    BY <1>0, <2>3 DEF OnlyOn, IO
  <2>7. Step(s, r2, a, q, o, x)
    BY <1>1, <2>5, WriteStep
  <2>8. r.pc \in Inside /\ r2.pc \in Inside
    BY <2>5, <2>6 DEF Inside
  <2> QED BY <1>0, <1>1, <2>4, <2>6, <2>7, <2>8, OnStep
<1> QED BY <1>2, <1>3

\* Nothing to receive, nothing to send
LEMMA NothingStep ==
    ASSUME IInv, NEW s \in Side, no_remote_data(s) \/ no_input(s)
    PROVE  IInv'
<1>1. PICK r, a, q, o, x, z, p, c : Here(s, r, a, q, o, x, z, p, c)
  BY Named
<1>0. r \in IO /\ ("stdin" \in r.rev => ~a.rd)
  BY <1>1 DEF Here, Good, Pipes
<1>2. PICK n : (no_remote_data(s) /\ n = "stdout") \/ (no_input(s) /\ n = "stderr")
  OBVIOUS
<1>3. PICK r2 : r2 = [r EXCEPT !.pc = n]
  OBVIOUS
<1>4. r2 \in IO
  BY <1>0, <1>2, <1>3 DEF IO, Phase
<1>5. r.pc \in {"recv", "stdout"} /\ Goes(s, r2) /\ UNCHANGED <<prog, ring, open>>
  BY <1>1, <1>2, <1>3 DEF no_remote_data, no_input, Here
<1>6. OnlyOn(r, r2) /\ r2.rev = r.rev /\ r2.pc = n
  BY <1>0, <1>3 DEF OnlyOn, IO
<1>7. Step(s, r2, a, q, o, x)
  BY <1>1, <1>5, WriteStep
<1>8. r.pc \in Inside /\ r2.pc \in Inside /\ n # "drained" /\ n # "recv"
  BY <1>2, <1>5, <1>6 DEF Inside
<1> QED BY <1>0, <1>1, <1>4, <1>6, <1>7, <1>8, OnStep

\* The end of stderr
LEMMA StderrStep ==
    ASSUME IInv, NEW s \in Side, handle_input_stderr(s)
    PROVE  IInv'
<1>1. PICK r, a, q, o, x, z, p, c : Here(s, r, a, q, o, x, z, p, c)
  BY Named
<1>0. r \in IO
  BY <1>1 DEF Here, Good
<1>2. PICK u : u = [r EXCEPT !.pc = "top", !.rev = {}]
  OBVIOUS
<1>3. PICK v : v = [u EXCEPT !.stderr = FALSE]
  OBVIOUS
<1>4. u \in IO /\ OnlyOn(r, u) /\ u.rev = {} /\ u.pc = "top"
  <2>1. u \in IO
    BY <1>0, <1>2 DEF IO, Phase
  <2> QED BY <1>0, <1>2, <2>1, SMT DEF OnlyOn, IO
<1>5. v \in IO /\ OnlyOn(r, v) /\ v.rev = {} /\ v.pc = "top"
  <2>1. v \in IO
    BY <1>3, <1>4 DEF IO
  <2> QED BY <1>3, <1>4, <2>1 DEF OnlyOn, IO
<1>6. /\ (Attempt(s, q, <<StderrEof>>) /\ Goes(s, v)) \/ (UNCHANGED ring /\ Goes(s, u))
      /\ r.pc = "stderr" /\ UNCHANGED <<prog, open>>
  BY <1>1, <1>2, <1>3 DEF handle_input_stderr, Here
<1>7. r.pc \in Inside /\ u.pc \in Inside /\ v.pc \in Inside
  BY <1>4, <1>5, <1>6 DEF Inside
<1>8. CASE Attempt(s, q, <<StderrEof>>) /\ Goes(s, v)
  <2>1. PICK o2 : /\ (p /\ o2 = Append(o, StderrEof)) \/ (~p /\ o2 = o)
                 /\ ring' = [y \in Side |-> IF y = s THEN q ELSE o2]
    BY <1>1, <1>8, Attempted, SMTT(30)
  <2>2. Step(s, v, a, q, o2, x)
    BY <1>1, <1>6, <1>8, <2>1, WriteStep
  <2> QED BY <1>1, <1>5, <1>7, <2>1, <2>2, OnStep
<1>9. CASE UNCHANGED ring /\ Goes(s, u)
  <2>1. Step(s, u, a, q, o, x)
    BY <1>1, <1>6, <1>9, WriteStep
  <2> QED BY <1>1, <1>4, <1>7, <2>1, OnStep
<1> QED BY <1>6, <1>8, <1>9

-----------------------------------------------------------------------------
(* Signals *)

\* SIGCHLD and SIGUSR1 are reacted to.
Reacts(r, a, r2, a2) ==
    /\ r2.call = r.call /\ r2.kind = r.kind /\ r2.mode = r.mode /\ r2.prefix = r.prefix /\ r2.rev = r.rev
    /\ r2.stdin_buf = r.stdin_buf /\ r2.remote_status = r.remote_status /\ r2.died = r.died
    /\ r2.stdin => r.stdin
    /\ ~r2.stdin => ~r.stdin \/ ~a.rd
    /\ r.stdout => r2.stdout
    /\ r2.stdout => r.stdout \/ a.switched
    /\ r2.sigusr1 \/ (r.kind = "process" /\ r2.single) => a.switched
    /\ r.kind = "process" => r2.local_status = IF a2.st = "reaped" THEN a2.code ELSE NoStatus
    /\ a2.code = a.code /\ a2.in = a.in /\ a2.out = a.out /\ a2.got = a.got /\ a2.rd = a.rd
    /\ a2.written = a.written /\ a2.switched = a.switched
    /\ a2.st = a.st \/ (a.st = "zombie" /\ a2.st = "reaped")

\* ... which keeps the invariant.
LEMMA ReactStep ==
    ASSUME IInv, NEW s \in Side, NEW r, NEW a, NEW q, NEW o, NEW x, NEW z, NEW p, NEW c,
           Here(s, r, a, q, o, x, z, p, c), r.pc \in Inside,
           NEW r2 \in IO, NEW a2 \in Prog, Reacts(r, a, r2, a2), r2.pc \in {"poll", "drained", "finish"},
           r2.pc = "drained" \/ (r2.pc = "finish" /\ r2.stdout) => ~p,
           NEW o2, NEW m \in Msg, m.type \notin {"DATA", "EOF"}, o2 = o \/ o2 = Append(o, m),
           s = "service" => Timely(r, o, r2, a2, o2, m),
           Step(s, r2, a2, q, o2, x)
    PROVE  IInv'
<1>0. Good(s, r, a, q, o, x, z, p, c)
  BY DEF Here
<1>1. /\ r \in IO /\ a \in Prog /\ x \in BOOLEAN /\ Control(s, r, x, p) /\ Child(r, a) /\ Pipes(r, a, c.prefix)
  BY <1>0 DEF Good
<1>2. x = TRUE /\ r.kind \notin NoLoop /\ ~r.died /\ r.pc # "returned" /\ r.pc \notin Left
  BY <1>1, InsideLoop DEF Inside, Left
<1>3. Control(s, r2, x, p)
  <2>1. /\ r2.kind \notin NoLoop /\ ~r2.died
        /\ r2.pc \notin {"stdout_eof", "stderr_eof", "exit_code", "wait", "returned", "recv"}
    BY <1>2 DEF Reacts
  <2> QED BY <1>2, <2>1 DEF Control, NoLoop
<1>4. Child(r2, a2)
  <2>1. r2.pc # "returned"
    OBVIOUS
  <2> QED BY <1>1, <2>1 DEF Child, Reacts
<1>5. Receives(r, a, q, r2, a2, q)
  BY <1>2 DEF Receives, Rests, Reacts
<1>6. Announced(r2) => Announced(r)
  BY <1>2 DEF Announced, Reacts, NoLoop
<1>7. Plain(r, a, o, z, r2, a2, o2, m)
  <2>1. /\ "stdin" \in r.rev => ~a.rd
        /\ ~a.rd => a.in = <<>>
        /\ a.switched => r.kind = "process"
    BY <1>1 DEF Pipes
  <2>2. a.st = "reaped" => a2.st = "reaped"
    BY DEF Reacts
  <2> QED BY <1>2, <1>6, <2>1, <2>2 DEF Plain, Reacts
<1> QED BY <1>1, <1>3, <1>4, <1>5, <1>7, PlainStep

\* Everything but what is open stays when something is closed.
SameBut(r, r2) ==
    /\ r2.call = r.call /\ r2.kind = r.kind /\ r2.mode = r.mode /\ r2.pc = r.pc /\ r2.prefix = r.prefix
    /\ r2.stderr = r.stderr /\ r2.stdin_buf = r.stdin_buf /\ r2.rev = r.rev
    /\ r2.local_status = r.local_status /\ r2.remote_status = r.remote_status /\ r2.died = r.died
    /\ r2.ret = r.ret /\ r2.sigchld = r.sigchld

\* close_stdin() and close_stdout()
LEMMA Closing ==
    ASSUME NEW r \in IO
    PROVE  /\ StdinClosed(r) \in IO /\ SameBut(r, StdinClosed(r)) /\ ~StdinClosed(r).stdin
           /\ StdinClosed(r).stdout = IF "stdin" \in r.mode THEN FALSE ELSE r.stdout
           /\ StdinClosed(r).single = r.single /\ StdinClosed(r).sigusr1 = r.sigusr1
           /\ StdoutClosed(r) \in IO /\ SameBut(r, StdoutClosed(r)) /\ ~StdoutClosed(r).stdout
           /\ StdoutClosed(r).stdin = IF "stdout" \in r.mode THEN FALSE ELSE r.stdin
           /\ StdoutClosed(r).single = r.single /\ StdoutClosed(r).sigusr1 = r.sigusr1
<1>1. PICK u : u = [r EXCEPT !.stdin = FALSE]
  OBVIOUS
<1>2. PICK v : v = [r EXCEPT !.stdin = FALSE, !.stdout = FALSE]
  OBVIOUS
<1>3. PICK w : w = [r EXCEPT !.stdout = FALSE]
  OBVIOUS
<1>4. u \in IO /\ v \in IO /\ w \in IO
  BY <1>1, <1>2, <1>3, ZenonT(30) DEF IO
<1>5. SameBut(r, u) /\ ~u.stdin /\ u.stdout = r.stdout /\ u.single = r.single /\ u.sigusr1 = r.sigusr1
  BY <1>1 DEF IO, SameBut
<1>6. SameBut(r, v) /\ ~v.stdin /\ v.stdout = FALSE /\ v.single = r.single /\ v.sigusr1 = r.sigusr1 /\ v.stdin = FALSE
  BY <1>2 DEF IO, SameBut
<1>7. SameBut(r, w) /\ ~w.stdout /\ w.stdin = r.stdin /\ w.single = r.single /\ w.sigusr1 = r.sigusr1
  BY <1>3 DEF IO, SameBut
<1>8. StdinClosed(r) = IF "stdin" \in r.mode THEN v ELSE u
  BY <1>1, <1>2 DEF StdinClosed
<1>9. StdoutClosed(r) = IF "stdout" \in r.mode THEN v ELSE w
  BY <1>2, <1>3 DEF StdoutClosed
<1> QED BY <1>4, <1>5, <1>6, <1>7, <1>8, <1>9

\* "child signaled desire to use single socket"
LEMMA Switching ==
    ASSUME NEW r \in IO, r.sigusr1 => r.mode = {}, NEW v, v = Switched(r)
    PROVE  /\ v \in IO /\ SameBut(r, v) /\ v.stdin = r.stdin
           /\ r.stdout => v.stdout
           /\ v.stdout => r.stdout \/ r.sigusr1
           /\ v.sigusr1 => r.sigusr1
           /\ v.single => r.single \/ r.sigusr1
<1>1. PICK u : u = StdoutClosed(r)
  OBVIOUS
<1>2. /\ u \in IO /\ SameBut(r, u) /\ (r.sigusr1 => u.stdin = r.stdin)
  BY <1>1, Closing
<1>3. PICK w : w = [u EXCEPT !.stdout = TRUE, !.single = TRUE, !.sigusr1 = FALSE]
  OBVIOUS
<1>4. w \in IO
  BY <1>2, <1>3 DEF IO
<1>5. SameBut(u, w) /\ w.stdin = u.stdin /\ w.stdout = TRUE /\ w.single = TRUE /\ w.sigusr1 = FALSE
  BY <1>2, <1>3 DEF IO, SameBut
<1>6. v = IF r.sigusr1 /\ ~r.single THEN w ELSE r
  BY <1>1, <1>3 DEF Switched
<1>7. CASE r.sigusr1 /\ ~r.single
  BY <1>2, <1>4, <1>5, <1>6, <1>7, SMT DEF SameBut
<1>8. CASE ~(r.sigusr1 /\ ~r.single)
  BY <1>6, <1>8 DEF SameBut
<1> QED BY <1>7, <1>8

\* The check for a disconnected vchan
LEMMA DrainedStep ==
    ASSUME IInv, NEW s \in Side, check_drained(s)
    PROVE  IInv'
<1>1. PICK r, a, q, o, x, z, p, c : Here(s, r, a, q, o, x, z, p, c)
  BY Named
<1>0. Good(s, r, a, q, o, x, z, p, c) /\ r \in IO /\ a \in Prog /\ r.pc = "drained"
  BY <1>1 DEF Here, Good, check_drained
<1>2. ~p /\ Child(r, a) /\ Pipes(r, a, c.prefix) /\ ~r.died
  BY <1>0 DEF Good, Control
<1>3. r.sigusr1 => r.mode = {}
  BY <1>0, <1>2, ChildMode DEF Pipes
<1>4. PICK v : v = Switched(r)
  OBVIOUS
<1>5. /\ v \in IO /\ SameBut(r, v) /\ v.stdin = r.stdin
      /\ r.stdout => v.stdout
      /\ v.stdout => r.stdout \/ r.sigusr1
      /\ v.sigusr1 => r.sigusr1
      /\ v.single => r.single \/ r.sigusr1
  BY <1>0, <1>3, <1>4, Switching
<1>6. PICK f : f = [r EXCEPT !.pc = "finish"]
  OBVIOUS
<1>7. PICK g : g = [v EXCEPT !.pc = "poll"]
  OBVIOUS
<1>8. f \in IO /\ g \in IO
  BY <1>0, <1>5, <1>6, <1>7, ZenonT(30) DEF IO, Phase
<1>9. Reacts(r, a, f, a)
  <2>1. r.kind = "process" => r.local_status = IF a.st = "reaped" THEN a.code ELSE NoStatus
    BY <1>2 DEF Child
  <2> QED BY <1>0, <1>2, <1>6, <2>1 DEF Reacts, SameBut, IO, Pipes
<1>10. Reacts(r, a, g, a)
  <2>1. r.kind = "process" => r.local_status = IF a.st = "reaped" THEN a.code ELSE NoStatus
    BY <1>2 DEF Child
  <2>2. r.sigusr1 \/ (r.kind = "process" /\ r.single) => a.switched
    BY <1>2 DEF Pipes
  <2>3. /\ g.stdin = v.stdin /\ g.stdout = v.stdout /\ g.sigusr1 = v.sigusr1 /\ g.single = v.single
        /\ g.call = v.call /\ g.kind = v.kind /\ g.mode = v.mode /\ g.prefix = v.prefix /\ g.rev = v.rev
        /\ g.stdin_buf = v.stdin_buf /\ g.remote_status = v.remote_status /\ g.died = v.died
        /\ g.local_status = v.local_status
    BY <1>5, <1>7 DEF IO
  <2> QED BY <1>0, <1>5, <2>1, <2>2, <2>3, SMT DEF Reacts, SameBut
<1>11. (Goes(s, f) \/ Goes(s, g)) /\ UNCHANGED <<prog, ring, open>>
  BY <1>1, <1>4, <1>6, <1>7 DEF check_drained, Here
<1>12. f.pc = "finish" /\ g.pc = "poll"
  BY <1>0, <1>5, <1>6, <1>7 DEF IO
<1>13. r.pc \in Inside /\ StderrEof \in Msg /\ StderrEof.type = "STDERR_EOF"
  BY <1>0, MsgParts DEF Inside
<1>14. Timely(r, o, f, a, o, StderrEof) /\ Timely(r, o, g, a, o, StderrEof)
  BY <1>13 DEF Timely
<1>15. CASE Goes(s, f)
  <2>1. Step(s, f, a, q, o, x)
    BY <1>1, <1>11, <1>15, WriteStep
  <2> QED BY <1>0, <1>1, <1>2, <1>8, <1>9, <1>12, <1>13, <1>14, <2>1, ReactStep, SMTT(30)
<1>16. CASE Goes(s, g)
  <2>1. Step(s, g, a, q, o, x)
    BY <1>1, <1>11, <1>16, WriteStep
  <2> QED BY <1>0, <1>1, <1>2, <1>8, <1>10, <1>12, <1>13, <1>14, <2>1, ReactStep
<1> QED BY <1>11, <1>15, <1>16

\* A side that is no more
Stopped(r, r2) ==
    /\ r2.call = r.call /\ r2.kind = r.kind /\ r2.mode = r.mode /\ r2.prefix = r.prefix
    /\ r2.stdin_buf = r.stdin_buf /\ r2.remote_status = r.remote_status
    /\ r2.single = r.single /\ r2.sigusr1 = r.sigusr1
    /\ r2.pc = "returned" /\ ~r2.stdin /\ ~r2.stdout /\ r2.rev = {}

\* The record of a side that has ended, after the loop,
LEMMA EndedParts ==
    ASSUME NEW r \in IO, NEW e \in Status, NEW r2, r2 = Ended(r, e, FALSE)
    PROVE  r2 \in IO /\ Stopped(r, r2) /\ r2.ret = e /\ ~r2.died /\ r2.local_status = r.local_status
<1>1. r2 \in IO
  BY ZenonT(30) DEF Ended, IO, Phase
<1> QED BY <1>1, SMT DEF Ended, IO, Stopped

\* ... or in handle_vchan_error(), or by a signal
LEMMA DeathParts ==
    ASSUME NEW r \in IO, NEW e \in Status, NEW r2, r2 = Ended(r, e, TRUE)
    PROVE  r2 \in IO /\ Stopped(r, r2) /\ r2.ret = e /\ r2.died
<1>1. r2 \in IO
  BY ZenonT(30) DEF Ended, IO, Phase
<1> QED BY <1>1, SMT DEF Ended, IO, Stopped

\* ... keeps the invariant.
LEMMA EndStep ==
    ASSUME IInv, NEW s \in Side, NEW r, NEW a, NEW q, NEW o, NEW x, NEW z, NEW p, NEW c,
           Here(s, r, a, q, o, x, z, p, c), r.pc # "returned",
           NEW r2 \in IO, NEW a2 \in Prog, Stopped(r, r2),
           s = "client" /\ r2.ret = 0 => r2.remote_status = 0,
           Child(r2, a2),
           a2.in = a.in, a2.out = a.out, a2.got = a.got, a2.rd = a.rd,
           a2.written = a.written, a2.switched = a.switched,
           a2.st = a.st \/ (a.st = "zombie" /\ a2.st = "reaped"),
           a2.code = a.code \/ r.kind \in NoLoop,
           NEW o2, NEW m \in Msg, m.type \notin {"DATA", "EOF"}, o2 = o \/ o2 = Append(o, m),
           s = "service" => Timely(r, o, r2, a2, o2, m),
           Step(s, r2, a2, q, o2, FALSE)
    PROVE  IInv'
<1>0. Good(s, r, a, q, o, x, z, p, c)
  BY DEF Here
<1>1. /\ r \in IO /\ a \in Prog /\ x \in BOOLEAN /\ Control(s, r, x, p) /\ Pipes(r, a, c.prefix)
  BY <1>0 DEF Good
<1>2. ~r.died
  BY <1>1 DEF Control
<1>3. Control(s, r2, FALSE, p)
  BY DEF Control, Stopped, NoLoop
<1>5. Receives(r, a, q, r2, a2, q)
  BY <1>2 DEF Receives, Rests, Stopped, Left
<1>6. ~Announced(r2)
  BY DEF Announced, Stopped
<1>7. Plain(r, a, o, z, r2, a2, o2, m)
  <2>1. /\ ~a.rd => a.in = <<>>
        /\ r.sigusr1 \/ (r.kind = "process" /\ r.single) => a.switched
        /\ a.switched => r.kind = "process"
    BY <1>1 DEF Pipes
  <2>2. a.st = "reaped" => a2.st = "reaped"
    OBVIOUS
  <2> QED BY <1>6, <2>1, <2>2 DEF Plain, Stopped
<1> QED BY <1>1, <1>3, <1>5, <1>7, PlainStep

\* "React to SIGCHLD": what AfterSigchld() and loop_top() leave of r and a
Collected(r, a, reaps) ==
    IF reaps THEN StdinClosed([r EXCEPT !.sigchld = FALSE, !.local_status = a.code])
    ELSE [r EXCEPT !.sigchld = FALSE]
Buried(a, reaps) == IF reaps THEN [a EXCEPT !.st = "reaped"] ELSE a

\* A child is reaped, and its status kept.
LEMMA Collecting ==
    ASSUME NEW s, NEW r, NEW a, NEW q, NEW o, NEW x, NEW z, NEW p, NEW c, Good(s, r, a, q, o, x, z, p, c),
           ~r.died, NEW r1, NEW a1, NEW reaps \in BOOLEAN,
           reaps => r.kind = "process" /\ a.st = "zombie",
           a1 = Buried(a, reaps), r1 = Collected(r, a, reaps)
    PROVE  /\ r1 \in IO /\ a1 \in Prog /\ Reacts(r, a, r1, a1) /\ r1.pc = r.pc
           /\ r1.stdout = r.stdout /\ r1.sigusr1 = r.sigusr1 /\ r1.single = r.single
<1>0. r \in IO /\ a \in Prog /\ Child(r, a) /\ Pipes(r, a, c.prefix)
  BY DEF Good
<1>1. r.sigusr1 \/ (r.kind = "process" /\ r.single) => a.switched
  BY <1>0 DEF Pipes
<1>2. CASE reaps
  <2>1. PICK u : u = [r EXCEPT !.sigchld = FALSE, !.local_status = a.code]
    OBVIOUS
  <2>2. a.code \in Status /\ ~a.rd /\ r.mode = {}
    <3>1. a.code \in 0 .. 255 /\ ~a.rd
      BY <1>0, <1>2 DEF Child
    <3>2. r.mode = {}
      BY <1>2, ChildMode
    <3> QED BY <3>1, <3>2 DEF Status
  <2>3. u \in IO
    BY <1>0, <2>1, <2>2 DEF IO
  <2>4. /\ u.call = r.call /\ u.kind = r.kind /\ u.mode = r.mode /\ u.prefix = r.prefix /\ u.rev = r.rev
        /\ u.stdin_buf = r.stdin_buf /\ u.remote_status = r.remote_status /\ u.died = r.died
        /\ u.stdin = r.stdin /\ u.stdout = r.stdout /\ u.single = r.single /\ u.sigusr1 = r.sigusr1
        /\ u.local_status = a.code /\ u.pc = r.pc
    BY <1>0, <2>1 DEF IO
  <2>5. r1 = StdinClosed(u)
    BY <1>2, <2>1 DEF Collected
  <2>6. /\ r1 \in IO /\ SameBut(u, r1) /\ ~r1.stdin /\ r1.stdout = u.stdout
        /\ r1.single = u.single /\ r1.sigusr1 = u.sigusr1
    <3>1. /\ r1 \in IO /\ SameBut(u, r1) /\ ~r1.stdin
          /\ r1.stdout = IF "stdin" \in u.mode THEN FALSE ELSE u.stdout
          /\ r1.single = u.single /\ r1.sigusr1 = u.sigusr1
      BY <2>3, <2>5, Closing, ZenonT(30)
    <3> QED BY <2>2, <2>4, <3>1
  <2>7. a1 \in Prog
    BY <1>0, <1>2 DEF Prog, Buried
  <2>8. /\ a1.code = a.code /\ a1.in = a.in /\ a1.out = a.out /\ a1.got = a.got /\ a1.rd = a.rd
        /\ a1.written = a.written /\ a1.switched = a.switched /\ a1.st = "reaped"
    BY <1>0, <1>2 DEF Prog, Buried
  <2>9. /\ r1.call = r.call /\ r1.kind = r.kind /\ r1.mode = r.mode /\ r1.prefix = r.prefix /\ r1.rev = r.rev
        /\ r1.stdin_buf = r.stdin_buf /\ r1.remote_status = r.remote_status /\ r1.died = r.died
        /\ ~r1.stdin /\ r1.stdout = r.stdout /\ r1.single = r.single /\ r1.sigusr1 = r.sigusr1
        /\ r1.local_status = a.code /\ r1.pc = r.pc
    BY <2>4, <2>6 DEF SameBut
  <2> QED BY <1>1, <1>2, <2>2, <2>6, <2>7, <2>8, <2>9 DEF Reacts
<1>3. CASE ~reaps
  <2>1. r1 = [r EXCEPT !.sigchld = FALSE] /\ a1 = a
    BY <1>3 DEF Collected, Buried
  <2>2. r1 \in IO
    BY <1>0, <2>1, ZenonT(30) DEF IO
  <2>3. r.kind = "process" => r.local_status = IF a.st = "reaped" THEN a.code ELSE NoStatus
    BY <1>0 DEF Child
  <2>4. /\ r1.call = r.call /\ r1.kind = r.kind /\ r1.mode = r.mode /\ r1.prefix = r.prefix /\ r1.rev = r.rev
        /\ r1.stdin_buf = r.stdin_buf /\ r1.remote_status = r.remote_status /\ r1.died = r.died
        /\ r1.stdin = r.stdin /\ r1.stdout = r.stdout /\ r1.single = r.single /\ r1.sigusr1 = r.sigusr1
        /\ r1.local_status = r.local_status /\ r1.pc = r.pc
    BY <1>0, <2>1, SMT DEF IO
  <2> QED BY <1>0, <1>1, <2>1, <2>2, <2>3, <2>4 DEF Reacts
<1> QED BY <1>2, <1>3

\* Reacting to SIGUSR1 as well
LEMMA ReactsMore ==
    ASSUME NEW r, NEW a, NEW r1 \in IO, NEW a1, Reacts(r, a, r1, a1), NEW r2,
           r2.stdin = r1.stdin,
           r1.stdout => r2.stdout,
           r2.stdout => r1.stdout \/ r1.sigusr1,
           r2.sigusr1 => r1.sigusr1,
           r2.single => r1.single \/ r1.sigusr1,
           r2.call = r1.call, r2.kind = r1.kind, r2.mode = r1.mode, r2.prefix = r1.prefix, r2.rev = r1.rev,
           r2.stdin_buf = r1.stdin_buf, r2.remote_status = r1.remote_status, r2.died = r1.died,
           r2.local_status = r1.local_status
    PROVE  Reacts(r, a, r2, a1)
BY SMT DEF Reacts

\* A service with a loop is a child or behind a socket.
LEMMA ServiceKind ==
    ASSUME NEW r, NEW a, NEW q, NEW o, NEW x, NEW z, NEW p, NEW c, Good("service", r, a, q, o, x, z, p, c),
           r.pc \in Inside
    PROVE  r.kind \in {"process", "socket"}
<1>0. Control("service", r, x, p) /\ r \in IO /\ x \in BOOLEAN /\ c \in CallType /\ Fixed("service", r, c)
  BY DEF Good
<1>1. r.kind \notin NoLoop
  BY <1>0, InsideLoop
<1> QED BY <1>0, <1>1 DEF CallType, Fixed, NoLoop

\* The exit code that the service sends when all is done.
LEMMA CodeInTime ==
    ASSUME NEW r, NEW a, r.kind \in {"process", "socket"}, r.pc = "top",
           NEW r1 \in IO, NEW a1, Reacts(r, a, r1, a1), r1.stdout = r.stdout,
           AllClosed(r1), LocalDone(r1), NEW e, r.kind = "process" => e = r1.local_status, r.kind # "process" => e = 0,
           NEW m, m = ExitCode(e), NEW r2, r2.kind = r.kind, NEW o, NEW o2
    PROVE  m \in Msg /\ m.type = "EXIT_CODE" /\ Timely(r, o, r2, a1, o2, m)
<1>2. r.kind \in {"process", "socket"}
  OBVIOUS
<1>3. ~r.stdout /\ (r.kind = "process" => r1.local_status >= 0 /\ r1.local_status \in Status)
  BY DEF AllClosed, LocalDone, Reacts, IO
<1>4. r.kind = "process" => a1.st = "reaped" /\ r1.local_status = a1.code /\ r1.local_status \in 0 .. 255
  <2>1. r.kind = "process" => r1.local_status \in 0 .. 255
    BY <1>3, SMT DEF Status, NoStatus
  <2> QED BY <1>3, <2>1, SMT DEF Reacts, NoStatus
<1>5. e \in 0 .. 255
  BY <1>4, SMT
<1>6. m \in Msg /\ m.type = "EXIT_CODE" /\ m.code = e
  BY <1>5, MsgParts
<1>7. Known(r2, a1, e)
  BY <1>2, <1>4 DEF Known, NoLoop
<1>8. Announced(r)
  BY <1>3 DEF Announced
<1> QED BY <1>5, <1>6, <1>7, <1>8 DEF Timely

\* The top of the loop
LEMMA TopStep ==
    ASSUME IInv, NEW s \in Side, loop_top(s)
    PROVE  IInv'
<1>1. PICK r, a, q, o, x, z, p, c : Here(s, r, a, q, o, x, z, p, c)
  BY Named
<1>0. /\ Good(s, r, a, q, o, x, z, p, c) /\ r \in IO /\ a \in Prog /\ x \in BOOLEAN /\ r.pc = "top"
      /\ Child(r, a) /\ Pipes(r, a, c.prefix) /\ Control(s, r, x, p)
  BY <1>1 DEF Here, Good, loop_top
<1>2. r.pc \in Inside /\ ~r.died /\ r.kind \notin NoLoop
  BY <1>0, InsideLoop DEF Inside
<1>3. PICK reaps \in BOOLEAN : reaps <=> Reaps(s)
  OBVIOUS
<1>4. PICK r1 : r1 = Collected(r, a, reaps)
  OBVIOUS
<1>5. PICK a1 : a1 = Buried(a, reaps)
  OBVIOUS
<1>6. reaps => r.kind = "process" /\ a.st = "zombie"
  BY <1>1, <1>3 DEF Reaps, HasPid, Here
<1>7. /\ r1 \in IO /\ a1 \in Prog /\ Reacts(r, a, r1, a1) /\ r1.pc = r.pc
      /\ r1.stdout = r.stdout /\ r1.sigusr1 = r.sigusr1 /\ r1.single = r.single
  <2>1. Good(s, r, a, q, o, x, z, p, c) /\ ~r.died
    BY <1>0, <1>2
  <2> QED BY <1>4, <1>5, <1>6, <2>1, Collecting, SMT
<1>8. AfterSigchld(s) = r1
  BY <1>1, <1>3, <1>4 DEF AfterSigchld, Collected, Here
<1>9. prog' = [prog EXCEPT ![s] = a1] \/ (UNCHANGED prog /\ a1 = a)
  BY <1>1, <1>3, <1>5 DEF loop_top, Buried, Here
<1>10. PICK f : f = [r1 EXCEPT !.pc = "finish"]
  OBVIOUS
<1>11. PICK d : d = [r1 EXCEPT !.pc = "drained"]
  OBVIOUS
<1>12. PICK v : v = Switched(r1)
  OBVIOUS
<1>13. PICK g : g = [v EXCEPT !.pc = "poll"]
  OBVIOUS
<1>14. f \in IO /\ Reacts(r, a, f, a1) /\ f.pc = "finish" /\ f.kind = r.kind /\ f.stdout = r1.stdout
  <2>1. f \in IO
    BY <1>7, <1>10 DEF IO, Phase
  <2>2. /\ f.stdin = r1.stdin /\ f.stdout = r1.stdout /\ f.sigusr1 = r1.sigusr1 /\ f.single = r1.single
        /\ f.call = r1.call /\ f.kind = r1.kind /\ f.mode = r1.mode /\ f.prefix = r1.prefix /\ f.rev = r1.rev
        /\ f.stdin_buf = r1.stdin_buf /\ f.remote_status = r1.remote_status /\ f.died = r1.died
        /\ f.local_status = r1.local_status /\ f.pc = "finish"
    BY <1>7, <1>10 DEF IO
  <2>3. f.kind = r.kind
    BY <1>7, <2>2 DEF Reacts
  <2> QED BY <1>7, <2>1, <2>2, <2>3, ReactsMore
<1>15. d \in IO /\ Reacts(r, a, d, a1) /\ d.pc = "drained"
  <2>1. d \in IO
    BY <1>7, <1>11 DEF IO, Phase
  <2>2. /\ d.stdin = r1.stdin /\ d.stdout = r1.stdout /\ d.sigusr1 = r1.sigusr1 /\ d.single = r1.single
        /\ d.call = r1.call /\ d.kind = r1.kind /\ d.mode = r1.mode /\ d.prefix = r1.prefix /\ d.rev = r1.rev
        /\ d.stdin_buf = r1.stdin_buf /\ d.remote_status = r1.remote_status /\ d.died = r1.died
        /\ d.local_status = r1.local_status /\ d.pc = "drained"
    BY <1>7, <1>11 DEF IO
  <2> QED BY <1>7, <2>1, <2>2, ReactsMore
<1>16. g \in IO /\ Reacts(r, a, g, a1) /\ g.pc = "poll"
  <2>0. r1.sigusr1 => r1.mode = {}
    <3>1. r.sigusr1 => r.mode = {}
      BY <1>0, ChildMode DEF Pipes
    <3> QED BY <1>7, <3>1 DEF Reacts
  <2>1. /\ v \in IO /\ SameBut(r1, v) /\ v.stdin = r1.stdin
        /\ r1.stdout => v.stdout
        /\ v.stdout => r1.stdout \/ r1.sigusr1
        /\ v.sigusr1 => r1.sigusr1
        /\ v.single => r1.single \/ r1.sigusr1
    BY <1>7, <1>12, <2>0, Switching
  <2>2. g \in IO
    BY <1>13, <2>1, SMT DEF IO, Phase
  <2>3. /\ g.stdin = v.stdin /\ g.stdout = v.stdout /\ g.sigusr1 = v.sigusr1 /\ g.single = v.single
        /\ g.call = v.call /\ g.kind = v.kind /\ g.mode = v.mode /\ g.prefix = v.prefix /\ g.rev = v.rev
        /\ g.stdin_buf = v.stdin_buf /\ g.remote_status = v.remote_status /\ g.died = v.died
        /\ g.local_status = v.local_status /\ g.pc = "poll"
    BY <1>13, <2>1 DEF IO
  <2>4. Reacts(r, a, g, a1)
    BY <1>7, <2>1, <2>3, ReactsMore, SMT DEF SameBut
  <2> QED BY <2>2, <2>3, <2>4
<1>17. StderrEof \in Msg /\ StderrEof.type = "STDERR_EOF"
  BY MsgParts
<1>18. \A u : Timely(r, o, u, a1, o, StderrEof)
  BY <1>17 DEF Timely
<1>19. CASE AllDone(r1, IsService(s)) /\ IsService(s)
  <2>1. s = "service" /\ AllClosed(r1) /\ LocalDone(r1)
    BY <1>19 DEF IsService, AllDone
  <2>2. PICK e : e = IF r.kind = "process" THEN r1.local_status ELSE 0
    OBVIOUS
  <2>3. send_exit_code_and_break(s, r1)
    BY <1>8, <1>19 DEF loop_top
  <2>4. ~r1.stdout
    BY <2>1 DEF AllClosed
  <2>5. CASE Sent(s, ExitCode(e)) /\ Goes(s, f) /\ UNCHANGED open
    <3>1. PICK m, o2 : m = ExitCode(e) /\ o2 = Append(o, m)
      OBVIOUS
    <3>2. ring' = [y \in Side |-> IF y = s THEN q ELSE o2]
      <4>1. TypeOK
        BY DEF IInv
      <4> QED BY <1>1, <2>5, <3>1, <4>1, SentOne, SMT DEF Here
    <3>3. Step(s, f, a1, q, o2, x)
      BY <1>1, <1>9, <2>5, <3>2, WriteStep
    <3>4. m \in Msg /\ m.type = "EXIT_CODE" /\ Timely(r, o, f, a1, o2, m)
      <4>1. r.kind \in {"process", "socket"} /\ r.pc = "top"
        BY <1>0, <1>2, <2>1, ServiceKind
      <4>2. r1 \in IO /\ Reacts(r, a, r1, a1) /\ r1.stdout = r.stdout /\ f.kind = r.kind
        BY <1>7, <1>14
      <4>3. (r.kind = "process" => e = r1.local_status) /\ (r.kind # "process" => e = 0)
        BY <2>2
      <4> QED BY <2>1, <3>1, <4>1, <4>2, <4>3, CodeInTime, SMT
    <3> QED BY <1>1, <1>2, <1>7, <1>14, <2>4, <3>1, <3>3, <3>4, ReactStep
  <2>6. CASE SendFails(s) /\ handle_vchan_error(s)
    <3>0. PICK one \in Status : one = 1
      BY SMT DEF Status
    <3>1. PICK r2 : r2 = Ended(r, one, TRUE)
      OBVIOUS
    <3>2. r2 \in IO /\ Stopped(r, r2) /\ r2.died /\ r2.ret = one
      BY <1>0, <3>1, DeathParts
    <3>3. Goes(s, r2) /\ UNCHANGED ring /\ open' = [open EXCEPT ![s] = FALSE]
      BY <1>1, <2>6, <3>0, <3>1 DEF SendFails, handle_vchan_error, Here
    <3>4. Step(s, r2, a1, q, o, FALSE)
      BY <1>1, <1>9, <3>3, WriteStep
    <3>5. Child(r2, a1)
      BY <1>0, <1>7, <3>2, SMTT(30) DEF Child, Stopped, Reacts
    <3>6. /\ a1.code = a.code /\ a1.in = a.in /\ a1.out = a.out /\ a1.got = a.got /\ a1.rd = a.rd
          /\ a1.written = a.written /\ a1.switched = a.switched
          /\ a1.st = a.st \/ (a.st = "zombie" /\ a1.st = "reaped")
      BY <1>7 DEF Reacts
    <3>7. r.pc # "returned" /\ r2.ret # 0 /\ StderrEof.type \notin {"DATA", "EOF"}
      BY <1>0, <1>17, <3>0, <3>2, SMT
    <3> QED BY <1>1, <1>7, <1>17, <1>18, <3>2, <3>4, <3>5, <3>6, <3>7, EndStep
  <2>7. HasPid(s) <=> r.kind = "process"
    BY <1>1 DEF HasPid, Here
  <2>8. ExitCode(IF HasPid(s) THEN r1.local_status ELSE 0) = ExitCode(e)
    BY <2>2, <2>7
  <2> QED BY <1>10, <2>3, <2>5, <2>6, <2>8 DEF send_exit_code_and_break
<1>20. CASE AllDone(r1, IsService(s)) /\ ~IsService(s)
  <2>1. Goes(s, f) /\ UNCHANGED <<ring, open>>
    BY <1>8, <1>10, <1>20 DEF loop_top
  <2>2. Step(s, f, a1, q, o, x)
    BY <1>1, <1>9, <2>1, WriteStep
  <2>3. ~r1.stdout
    BY <1>20 DEF AllDone, AllClosed
  <2> QED BY <1>1, <1>2, <1>7, <1>14, <1>17, <1>18, <2>2, <2>3, ReactStep
<1>21. CASE ~AllDone(r1, IsService(s))
  <2>1. (IsOpen(s) /\ Goes(s, g)) \/ (~IsOpen(s) /\ Goes(s, d))
    BY <1>8, <1>11, <1>12, <1>13, <1>21 DEF loop_top
  <2>2. UNCHANGED <<ring, open>>
    BY <1>8, <1>21 DEF loop_top
  <2>3. CASE Goes(s, g)
    <3>1. Step(s, g, a1, q, o, x)
      BY <1>1, <1>9, <2>2, <2>3, WriteStep
    <3> QED BY <1>1, <1>2, <1>7, <1>16, <1>17, <1>18, <3>1, ReactStep, ZenonT(30)
  <2>4. CASE ~IsOpen(s) /\ Goes(s, d)
    <3>1. Step(s, d, a1, q, o, x)
      BY <1>1, <1>9, <2>2, <2>4, WriteStep
    <3>2. ~p
      BY <1>1, <2>4 DEF IsOpen, Here
    <3>3. d.pc \in {"poll", "drained", "finish"} /\ StderrEof.type \notin {"DATA", "EOF"}
      BY <1>15, <1>17
    <3>4. r.pc \in Inside /\ a1 \in Prog /\ Timely(r, o, d, a1, o, StderrEof)
      BY <1>2, <1>7, <1>18
    <3> QED BY <1>1, <1>15, <1>17, <3>1, <3>2, <3>3, <3>4, ReactStep, SMTT(30)
  <2> QED BY <2>1, <2>3, <2>4
<1> QED BY <1>19, <1>20, <1>21

-----------------------------------------------------------------------------
(* The end of a side *)

\* handle_vchan_error(), or a signal, with the program as it was
LEMMA DeathStep ==
    ASSUME IInv, NEW s \in Side, NEW r, NEW a, NEW q, NEW o, NEW x, NEW z, NEW p, NEW c,
           Here(s, r, a, q, o, x, z, p, c), r.pc # "returned",
           NEW e \in Status, e # 0, Goes(s, Ended(r, e, TRUE)), UNCHANGED <<prog, ring>>,
           open' = [open EXCEPT ![s] = FALSE]
    PROVE  IInv'
<1>1. PICK r2 : r2 = Ended(r, e, TRUE)
  OBVIOUS
<1>0. r \in IO /\ a \in Prog /\ Child(r, a)
  BY DEF Here, Good
<1>2. r2 \in IO /\ Stopped(r, r2) /\ r2.ret = e /\ r2.died
  BY <1>0, <1>1, DeathParts
<1>3. Step(s, r2, a, q, o, FALSE)
  BY <1>1, WriteStep
<1>4. Child(r2, a)
  BY <1>0, <1>2 DEF Child, Stopped
<1>5. StderrEof \in Msg /\ StderrEof.type \notin {"DATA", "EOF"} /\ StderrEof.type # "EXIT_CODE"
  BY MsgParts
<1>6. Timely(r, o, r2, a, o, StderrEof)
  BY <1>5 DEF Timely
<1>7. r2.ret # 0
  BY <1>2
<1> QED BY <1>0, <1>2, <1>3, <1>4, <1>5, <1>6, <1>7, EndStep

\* A process of the repository is killed.
LEMMA KilledStep ==
    ASSUME IInv, NEW s \in Side, killed(s)
    PROVE  IInv'
<1>1. PICK r, a, q, o, x, z, p, c : Here(s, r, a, q, o, x, z, p, c)
  BY Named
<1>2. PICK e \in Status : e = 255
  BY SMT DEF Status
<1>3. /\ r.pc # "returned" /\ Goes(s, Ended(r, e, TRUE)) /\ UNCHANGED <<prog, ring>>
      /\ open' = [open EXCEPT ![s] = FALSE]
  BY <1>1, <1>2 DEF killed, Here
<1>4. e # 0
  BY <1>2, SMT
<1> QED BY <1>1, <1>3, <1>4, DeathStep

\* What a status is.
LEMMA Statuses ==
    ASSUME NEW r \in IO, NEW b, NEW e, e = Result(r, b)
    PROVE  e \in Status /\ (~b /\ e = 0 => r.remote_status = 0)
<1>1. r.remote_status \in Status /\ r.local_status \in Status /\ 0 \in Status
  BY SMT DEF IO, Status
<1> QED BY <1>1 DEF Result

\* process_io() returns.
LEMMA ReturnStep ==
    ASSUME IInv, NEW s \in Side, process_io_returns(s)
    PROVE  IInv'
<1>1. PICK r, a, q, o, x, z, p, c : Here(s, r, a, q, o, x, z, p, c)
  BY Named
<1>0. /\ Good(s, r, a, q, o, x, z, p, c) /\ r \in IO /\ a \in Prog /\ r.pc = "wait" /\ Child(r, a)
      /\ Control(s, r, x, p)
  BY <1>1 DEF Here, Good, process_io_returns
<1>2. ~r.died /\ (r.kind = "process" => a.st # "running")
  BY <1>0, <1>1 DEF Control, process_io_returns, HasPid, Here
<1>3. PICK w \in BOOLEAN : w <=> SigchldPending(s)
  OBVIOUS
<1>4. w <=> (r.kind = "process" /\ a.st = "zombie")
  BY <1>1, <1>3 DEF SigchldPending, HasPid, Here
<1>5. PICK a1 : a1 = Buried(a, w)
  OBVIOUS
<1>6. PICK r1 : r1 = IF w THEN [r EXCEPT !.local_status = a.code] ELSE r
  OBVIOUS
<1>7. a1 \in Prog /\ (w => a1.st = "reaped") /\ (~w => a1 = a)
      /\ a1.code = a.code /\ a1.in = a.in /\ a1.out = a.out /\ a1.got = a.got /\ a1.rd = a.rd
      /\ a1.written = a.written /\ a1.switched = a.switched
  <2>1. a1 \in Prog
    BY <1>0, <1>5 DEF Prog, Buried
  <2> QED BY <1>0, <1>5, <2>1 DEF Prog, Buried
<1>8. /\ r1 \in IO
      /\ (w => r1.local_status = a.code) /\ (~w => r1 = r) /\ r1.remote_status = r.remote_status
  <2>1. CASE w
    <3>1. a.code \in Status
      BY <1>0, <1>4, <2>1 DEF Child, Status
    <3>2. r1 = [r EXCEPT !.local_status = a.code]
      BY <1>6, <2>1
    <3>3. r1 \in IO
      BY <1>0, <3>1, <3>2 DEF IO
    <3> QED BY <1>0, <2>1, <3>2, <3>3 DEF IO
  <2>2. CASE ~w
    BY <1>0, <1>6, <2>2
  <2> QED BY <2>1, <2>2
<1>9. PICK e : e = Result(r1, IsService(s))
  OBVIOUS
<1>10. e \in Status /\ (s = "client" /\ e = 0 => r1.remote_status = 0)
  <2>1. e \in Status /\ (~IsService(s) /\ e = 0 => r1.remote_status = 0)
    BY <1>8, <1>9, Statuses, SMT
  <2> QED BY <2>1 DEF IsService
<1>11. PICK r2 : r2 = Ended(r1, e, FALSE)
  OBVIOUS
<1>12. r2 \in IO /\ Stopped(r1, r2) /\ r2.ret = e /\ ~r2.died /\ r2.local_status = r1.local_status
  BY <1>8, <1>10, <1>11, EndedParts, ZenonT(30)
<1>13. Stopped(r, r2)
  <2>1. /\ r1.call = r.call /\ r1.kind = r.kind /\ r1.mode = r.mode /\ r1.prefix = r.prefix
        /\ r1.stdin_buf = r.stdin_buf /\ r1.remote_status = r.remote_status
        /\ r1.single = r.single /\ r1.sigusr1 = r.sigusr1
    BY <1>0, <1>6 DEF IO
  <2> QED BY <1>12, <2>1 DEF Stopped
<1>14. Step(s, r2, a1, q, o, FALSE)
  <2>1. Goes(s, r2)
    BY <1>1, <1>3, <1>6, <1>9, <1>11 DEF process_io_returns, Here
  <2>2. prog' = [prog EXCEPT ![s] = a1] \/ (UNCHANGED prog /\ a1 = a)
    BY <1>1, <1>3, <1>5 DEF process_io_returns, Buried, Here
  <2>3. UNCHANGED ring /\ open' = [open EXCEPT ![s] = FALSE]
    BY DEF process_io_returns
  <2> QED BY <1>1, <2>1, <2>2, <2>3, WriteStep
<1>15. Child(r2, a1)
  <2>1. r2.kind = r.kind /\ r2.pc = "returned"
    BY <1>13 DEF Stopped
  <2>2. r.kind = "process" => a.code \in 0 .. 255 /\ ~a.rd /\ (a.st = "reaped" => r.local_status = a.code)
    BY <1>0, <1>2 DEF Child
  <2>3. r.kind = "process" => a1.st = "reaped" /\ r1.local_status = a.code
    BY <1>0, <1>2, <1>4, <1>7, <1>8, <2>2 DEF Prog
  <2> QED BY <1>7, <1>12, <2>1, <2>2, <2>3, SMT DEF Child
<1>16. StderrEof \in Msg /\ StderrEof.type \notin {"DATA", "EOF"} /\ StderrEof.type # "EXIT_CODE"
  BY MsgParts
<1>17. Timely(r, o, r2, a1, o, StderrEof)
  BY <1>16 DEF Timely
<1>18. s = "client" /\ r2.ret = 0 => r2.remote_status = 0
  BY <1>8, <1>10, <1>12, <1>13 DEF Stopped
<1>19. r.pc # "returned" /\ (a1.st = a.st \/ (a.st = "zombie" /\ a1.st = "reaped"))
  BY <1>0, <1>4, <1>7
<1> QED BY <1>1, <1>7, <1>12, <1>13, <1>14, <1>15, <1>16, <1>17, <1>18, <1>19, EndStep

\* After the loop everything is closed.
LEMMA FinishStep ==
    ASSUME IInv, NEW s \in Side, finish(s)
    PROVE  IInv'
<1>1. PICK r, a, q, o, x, z, p, c : Here(s, r, a, q, o, x, z, p, c)
  BY Named
<1>0. /\ Good(s, r, a, q, o, x, z, p, c) /\ r \in IO /\ a \in Prog /\ x \in BOOLEAN /\ r.pc = "finish"
      /\ Child(r, a) /\ Control(s, r, x, p) /\ Pipes(r, a, c.prefix)
      /\ (~p => ~z.stdin)
  BY <1>1 DEF Here, Good, finish
<1>2. PICK r2 : r2 = [r EXCEPT !.pc = "wait", !.stdin = FALSE, !.stdout = FALSE, !.stderr = FALSE]
  OBVIOUS
<1>3. r2 \in IO
  BY <1>0, <1>2, ZenonT(30) DEF IO, Phase
<1>4. /\ r2.pc = "wait" /\ ~r2.stdin /\ ~r2.stdout /\ r2.call = r.call /\ r2.kind = r.kind
      /\ r2.mode = r.mode /\ r2.prefix = r.prefix /\ r2.rev = r.rev /\ r2.stdin_buf = r.stdin_buf
      /\ r2.local_status = r.local_status /\ r2.remote_status = r.remote_status
      /\ r2.died = r.died /\ r2.single = r.single /\ r2.sigusr1 = r.sigusr1
  BY <1>0, <1>2 DEF IO
<1>5. Step(s, r2, a, q, o, x)
  <2>1. Goes(s, r2) /\ UNCHANGED <<prog, ring, open>>
    BY <1>1, <1>2 DEF finish, Here
  <2> QED BY <1>1, <2>1, WriteStep
<1>6. Control(s, r2, x, p)
  BY <1>0, <1>4 DEF Control, NoLoop
<1>7. Child(r2, a)
  BY <1>0, <1>4 DEF Child
<1>8. Receives(r, a, q, r2, a, q)
  BY <1>4 DEF Receives, Rests, Left
<1>9. Plain(r, a, o, z, r2, a, o, StderrEof)
  <2>1. StderrEof \in Msg /\ StderrEof.type = "STDERR_EOF"
    BY MsgParts
  <2>2. /\ "stdin" \in r.rev => ~a.rd
        /\ ~a.rd => a.in = <<>>
        /\ r.sigusr1 \/ (r.kind = "process" /\ r.single) => a.switched
        /\ a.switched => r.kind = "process"
    BY <1>0 DEF Pipes
  <2>3. Announced(r2) => Announced(r) \/ ~z.stdin
    BY <1>0, <1>4 DEF Announced, Control
  <2> QED BY <1>0, <1>4, <2>1, <2>2, <2>3 DEF Plain
<1>10. Timely(r, o, r2, a, o, StderrEof)
  BY MsgParts DEF Timely
<1> QED BY <1>0, <1>1, <1>3, <1>5, <1>6, <1>7, <1>8, <1>9, <1>10, PlainStep

-----------------------------------------------------------------------------
(* A service without a loop *)

\* handle_new_process_common() announces the end of what was not started.
LEMMA NoLoopEofStep ==
    ASSUME IInv, NEW s \in Side, send_stdout_eof(s) \/ send_stderr_eof(s)
    PROVE  IInv'
<1>1. PICK r, a, q, o, x, z, p, c : Here(s, r, a, q, o, x, z, p, c)
  BY Named
<1>0. /\ Good(s, r, a, q, o, x, z, p, c) /\ r \in IO /\ a \in Prog /\ x \in BOOLEAN
      /\ Child(r, a) /\ Control(s, r, x, p) /\ Pipes(r, a, c.prefix)
      /\ (~p => ~z.stdin)
  BY <1>1 DEF Here, Good
<1>2. PICK n : (send_stdout_eof(s) /\ n = "stderr_eof") \/ (send_stderr_eof(s) /\ n = "exit_code")
  OBVIOUS
<1>m. PICK m : m = IF n = "stderr_eof" THEN Eof ELSE StderrEof
  OBVIOUS
<1>3. /\ r.pc = IF n = "stderr_eof" THEN "stdout_eof" ELSE "stderr_eof"
      /\ n \in {"stderr_eof", "exit_code"}
      /\ m.type = IF n = "stderr_eof" THEN "EOF" ELSE "STDERR_EOF"
      /\ m \in Msg
  BY <1>1, <1>2, <1>m, MsgParts DEF send_stdout_eof, send_stderr_eof, Here
<1>4. PICK r2 : r2 = [r EXCEPT !.pc = n]
  OBVIOUS
<1>5. r2 \in IO
  BY <1>0, <1>3, <1>4, SMT DEF IO, Phase
<1>6. OnlyOn(r, r2) /\ r2.rev = r.rev /\ r2.pc = n
  BY <1>0, <1>4 DEF OnlyOn, IO
<1>7. Goes(s, r2) /\ UNCHANGED <<prog, open>> /\ Attempt(s, q, <<m>>)
  BY <1>1, <1>2, <1>4, <1>m DEF send_stdout_eof, send_stderr_eof, Here
<1>8. PICK o2 : /\ (p /\ o2 = Append(o, m)) \/ (~p /\ o2 = o)
               /\ ring' = [y \in Side |-> IF y = s THEN q ELSE o2]
  BY <1>1, <1>7, Attempted, SMTT(30)
<1>9. Step(s, r2, a, q, o2, x)
  BY <1>1, <1>7, <1>8, WriteStep
<1>10. r.kind = "failed" /\ ~r.died /\ x = TRUE
  BY <1>0, <1>3 DEF Control, NoLoop
<1>11. Control(s, r2, x, p)
  BY <1>3, <1>6, <1>10 DEF Control, OnlyOn, NoLoop
<1>12. Child(r2, a)
  BY <1>6, <1>10 DEF Child, OnlyOn
<1>13. Receives(r, a, q, r2, a, q)
  BY <1>3, <1>6 DEF Receives, Rests, OnlyOn, Left
<1>14. Plain(r, a, o, z, r2, a, o2, m)
  <2>2. /\ "stdin" \in r.rev => ~a.rd
        /\ ~a.rd => a.in = <<>>
        /\ r.sigusr1 \/ (r.kind = "process" /\ r.single) => a.switched
        /\ a.switched => r.kind = "process"
    BY <1>0 DEF Pipes
  <2>3. Announced(r2) => Announced(r) \/ ~z.stdin \/ (o2 = Append(o, m) /\ m.type = "EOF")
    BY <1>0, <1>3, <1>8, <1>10 DEF Announced
  <2>4. r.pc # "returned" /\ m.type # "DATA" /\ (o2 = o \/ o2 = Append(o, m))
    BY <1>3, <1>8
  <2> QED BY <1>3, <1>6, <2>2, <2>3, <2>4 DEF Plain, OnlyOn
<1>15. Timely(r, o, r2, a, o2, m)
  <2>1. r2.kind \in NoLoop /\ a.out = <<>>
    BY <1>0, <1>6, <1>10 DEF OnlyOn, NoLoop, Pipes
  <2> QED BY <1>3, <2>1 DEF Timely, Silent
<1> QED BY <1>0, <1>1, <1>5, <1>9, <1>11, <1>12, <1>13, <1>14, <1>15, PlainStep

\* ... and sends its exit code.
LEMMA NoLoopCodeStep ==
    ASSUME IInv, NEW s \in Side, send_exit_code(s)
    PROVE  IInv'
<1>1. PICK r, a, q, o, x, z, p, c : Here(s, r, a, q, o, x, z, p, c)
  BY Named
<1>0. /\ Good(s, r, a, q, o, x, z, p, c) /\ r \in IO /\ a \in Prog /\ x \in BOOLEAN
      /\ Control(s, r, x, p) /\ r.pc = "exit_code" /\ Fixed(s, r, c) /\ c \in CallType
  BY <1>1 DEF Here, Good, send_exit_code
<1>2. r.kind \in NoLoop /\ s # "client"
  <2>1. r.kind \in NoLoop
    BY <1>0 DEF Control, NoLoop
  <2> QED BY <1>0, <2>1 DEF Fixed, CallType, NoLoop
<1>3. PICK e : /\ e \in IF r.kind = "failed" THEN {QREXEC_EXIT_PROBLEM} ELSE {0, QREXEC_EXIT_PROBLEM}
              /\ prog' = [prog EXCEPT ![s].code = e]
              /\ \/ /\ Sent(s, ExitCode(e))
                    /\ Goes(s, Ended(r, IF r.kind = "failed" THEN e ELSE 0, FALSE))
                 \/ /\ SendFails(s)
                    /\ Goes(s, IF r.kind = "failed" THEN Ended(r, e, FALSE)
                               ELSE Ended(r, 1, TRUE))
  BY <1>1 DEF send_exit_code, Here
<1>4. e \in 0 .. 255
  BY <1>3, SMT DEF QREXEC_EXIT_PROBLEM
<1>5. PICK m : m = ExitCode(e)
  OBVIOUS
<1>6. m \in Msg /\ m.type = "EXIT_CODE" /\ m.code = e
  BY <1>4, <1>5, MsgParts
<1>7. PICK a2 : a2 = [a EXCEPT !.code = e]
  OBVIOUS
<1>8. a2 \in Prog
  BY <1>0, <1>4, <1>7, ZenonT(30) DEF Prog, Status
<1>9. /\ a2.code = e /\ a2.in = a.in /\ a2.out = a.out /\ a2.got = a.got /\ a2.rd = a.rd
      /\ a2.written = a.written /\ a2.switched = a.switched /\ a2.st = a.st
  BY <1>0, <1>7 DEF Prog
<1>10. prog' = [prog EXCEPT ![s] = a2] /\ open' = [open EXCEPT ![s] = FALSE]
  BY <1>1, <1>3, <1>7 DEF send_exit_code, Here
<1>11. PICK zero \in Status : zero = 0
  BY SMT DEF Status
<1>12. PICK one \in Status : one = 1
  BY SMT DEF Status
<1>13. PICK u : u = Ended(r, zero, FALSE)
  OBVIOUS
<1>14. PICK v : v = Ended(r, one, TRUE)
  OBVIOUS
<1>15. PICK w : w = Ended(r, e, FALSE)
  OBVIOUS
<1>16. \A y \in {u, v, w} : y \in IO /\ Stopped(r, y)
  <2>1. e \in Status
    BY <1>4 DEF Status
  <2>2. u \in IO /\ Stopped(r, u)
    BY <1>0, <1>13, EndedParts
  <2>3. v \in IO /\ Stopped(r, v)
    BY <1>0, <1>14, DeathParts
  <2>4. w \in IO /\ Stopped(r, w)
    BY <1>0, <1>15, <2>1, EndedParts
  <2> QED BY <2>2, <2>3, <2>4
<1>17. PICK r2 \in {u, v, w} : Goes(s, r2)
  <2>1. Goes(s, u) \/ Goes(s, v) \/ Goes(s, w)
    BY <1>3, <1>11, <1>12, <1>13, <1>14, <1>15
  <2> QED BY <2>1
<1>18. PICK o2 : /\ o2 = Append(o, m) \/ o2 = o
                 /\ \/ ring' = [y \in Side |-> IF y = s THEN q ELSE o2]
                    \/ UNCHANGED ring /\ o2 = o
  <2>1. CASE Sent(s, m)
    <3>1. ring' = [y \in Side |-> IF y = s THEN q ELSE Append(o, m)]
      BY <1>1, <2>1, SentOne, SMT DEF Here, IInv
    <3> QED BY <3>1
  <2>2. CASE UNCHANGED ring
    BY <2>2
  <2> QED BY <1>3, <1>5, <2>1, <2>2 DEF SendFails
<1>19. Step(s, r2, a2, q, o2, FALSE)
  BY <1>1, <1>10, <1>17, <1>18, WriteStep
<1>20. r2 \in IO /\ Stopped(r, r2) /\ r2.kind = r.kind /\ r2.pc = "returned"
  BY <1>16 DEF Stopped
<1>21. Child(r2, a2)
  BY <1>2, <1>20 DEF Child, NoLoop
<1>22. Timely(r, o, r2, a2, o2, m)
  <2>1. Known(r2, a2, m.code)
    BY <1>2, <1>6, <1>9, <1>20 DEF Known, NoLoop
  <2>2. r.kind # "just_exec" => Announced(r)
    BY <1>0, <1>2 DEF Announced, NoLoop
  <2> QED BY <1>6, <2>1, <2>2 DEF Timely
<1>23. r.pc # "returned" /\ m.type \notin {"DATA", "EOF"}
  BY <1>0, <1>6
<1>24. m \in Msg /\ r2 \in IO /\ Stopped(r, r2) /\ (o2 = o \/ o2 = Append(o, m))
  BY <1>6, <1>18, <1>20
<1>25. /\ a2.in = a.in /\ a2.out = a.out /\ a2.got = a.got /\ a2.rd = a.rd
       /\ a2.written = a.written /\ a2.switched = a.switched /\ a2.st = a.st
  BY <1>9
<1> QED BY <1>1, <1>2, <1>8, <1>19, <1>21, <1>22, <1>23, <1>24, <1>25, EndStep

-----------------------------------------------------------------------------
(* Data for the program *)

\* close_stdin()
LEMMA CloseStep ==
    ASSUME IInv, NEW s \in Side, NEW r, NEW a, NEW q, NEW o, NEW x, NEW z, NEW p, NEW c,
           Here(s, r, a, q, o, x, z, p, c), r.pc \in Inside,
           NEW r0 \in IO, OnlyOn(r, r0), r0.pc \in {"flush", "stdout"}, r0.rev \subseteq r.rev,
           NEW q2, close_stdin(s, r0, q2), UNCHANGED <<prog, open>>,
           Receives(r, a, q, StdinClosed(r0), a, q2)
    PROVE  IInv'
<1>0. /\ Good(s, r, a, q, o, x, z, p, c) /\ r \in IO /\ a \in Prog /\ x \in BOOLEAN /\ o \in Seq(Msg)
      /\ Child(r, a) /\ Control(s, r, x, p) /\ Pipes(r, a, c.prefix)
      /\ (~p => ~z.stdin)
  BY DEF Here, Good
<1>1. x = TRUE /\ r.kind \notin NoLoop /\ ~r.died /\ r.pc # "returned"
  BY <1>0, InsideLoop DEF Inside
<1>2. PICK r2 : r2 = StdinClosed(r0)
  OBVIOUS
<1>3. /\ r2 \in IO /\ SameBut(r0, r2) /\ ~r2.stdin
      /\ r2.stdout = IF "stdin" \in r0.mode THEN FALSE ELSE r0.stdout
      /\ r2.single = r0.single /\ r2.sigusr1 = r0.sigusr1
  BY <1>2, Closing
<1>4. /\ r2.call = r.call /\ r2.kind = r.kind /\ r2.mode = r.mode /\ r2.prefix = r.prefix
      /\ r2.pc \in {"flush", "stdout"} /\ r2.rev \subseteq r.rev /\ r2.stdin_buf = r.stdin_buf
      /\ r2.local_status = r.local_status /\ r2.remote_status = r.remote_status /\ r2.died = r.died
      /\ r2.single = r.single /\ r2.sigusr1 = r.sigusr1
      /\ ("stdin" \notin r.mode => r2.stdout = r.stdout)
      /\ (r2.stdout => r.stdout)
  BY <1>0, <1>3 DEF SameBut, OnlyOn
<1>5. Eof \in Msg /\ Eof.type = "EOF"
  BY MsgParts
<1>6. PICK o2 : /\ \/ "stdin" \in r.mode /\ ((p /\ o2 = Append(o, Eof)) \/ (~p /\ o2 = o))
                   \/ o2 = o /\ ("stdin" \notin r.mode \/ ~r.stdout)
                /\ ring' = [y \in Side |-> IF y = s THEN q2 ELSE o2]
  <2>1. CASE "stdin" \in r.mode /\ r.stdout
    <3>1. Attempt(s, q2, <<Eof>>)
      BY <2>1 DEF close_stdin, OnlyOn
    <3>2. PICK o2 : /\ (p /\ o2 = Append(o, Eof)) \/ (~p /\ o2 = o)
                   /\ ring' = [y \in Side |-> IF y = s THEN q2 ELSE o2]
      BY <3>1, Attempted, SMTT(30)
    <3> QED BY <2>1, <3>2
  <2>2. CASE "stdin" \notin r.mode \/ ~r.stdout
    <3>1. Attempt(s, q2, <<>>)
      BY <2>2 DEF close_stdin, OnlyOn
    <3>2. ring' = [y \in Side |-> IF y = s THEN q2 ELSE o]
      BY <3>1, Unattempted
    <3> QED BY <2>2, <3>2
  <2> QED BY <2>1, <2>2
<1>7. Step(s, r2, a, q2, o2, x)
  <2>1. Goes(s, r2)
    BY <1>2 DEF close_stdin
  <2> QED BY <1>6, <2>1, WriteStep
<1>8. Control(s, r2, x, p)
  BY <1>1, <1>3, <1>4 DEF Control, NoLoop
<1>9. Child(r2, a)
  BY <1>0, <1>1, <1>4 DEF Child
<1>10. Receives(r, a, q, r2, a, q2)
  BY <1>2
<1>11. Plain(r, a, o, z, r2, a, o2, Eof)
  <2>1. /\ "stdin" \in r.rev => ~a.rd
        /\ ~a.rd => a.in = <<>>
        /\ r.sigusr1 \/ (r.kind = "process" /\ r.single) => a.switched
        /\ a.switched => r.kind = "process"
    BY <1>0 DEF Pipes
  <2>2. Announced(r2) => Announced(r) \/ ~z.stdin \/ (o2 = Append(o, Eof) /\ Eof.type = "EOF")
    BY <1>0, <1>1, <1>4, <1>5, <1>6 DEF Announced, NoLoop
  <2>3. o2 = o \/ o2 = Append(o, Eof)
    BY <1>6
  <2> QED BY <1>1, <1>4, <1>5, <2>1, <2>2, <2>3 DEF Plain
<1>12. Timely(r, o, r2, a, o2, Eof)
  <2>1. o # Append(o, Eof)
    BY <1>0, <1>5, Appended, SMT
  <2> QED BY <1>5, <1>6, <2>1 DEF Timely
<1> QED BY <1>0, <1>3, <1>7, <1>8, <1>9, <1>10, <1>11, <1>12, PlainStep

\* POLLHUP on stdin
LEMMA HupStep ==
    ASSUME IInv, NEW s \in Side, flush_on_hup(s)
    PROVE  IInv'
<1>1. PICK r, a, q, o, x, z, p, c : Here(s, r, a, q, o, x, z, p, c)
  BY Named
<1>0. r \in IO /\ r.pc = "flush" /\ "stdin" \in r.rev /\ Pipes(r, a, c.prefix) /\ Control(s, r, x, p)
  BY <1>1 DEF Here, Good, flush_on_hup
<1>2. PICK r0 : r0 = [r EXCEPT !.rev = @ \ {"stdin"}]
  OBVIOUS
<1>3. r0 \in IO
  BY <1>0, <1>2 DEF IO
<1>4. OnlyOn(r, r0) /\ r0.pc = r.pc /\ r0.rev \subseteq r.rev
  BY <1>0, <1>2 DEF OnlyOn, IO
<1>5. close_stdin(s, r0, q) /\ UNCHANGED <<prog, open>>
  BY <1>1, <1>2 DEF flush_on_hup, Here
<1>6. ~a.rd
  BY <1>0 DEF Pipes
<1>7. Receives(r, a, q, StdinClosed(r0), a, q)
  <2>1. SameBut(r0, StdinClosed(r0)) /\ ~StdinClosed(r0).stdin
    BY <1>3, Closing
  <2>2. ~r.died
    BY <1>0 DEF Control
  <2> QED BY <1>0, <1>4, <1>6, <2>1, <2>2 DEF Receives, Rests, SameBut, OnlyOn, Left
<1>8. r.pc \in Inside /\ r0.pc \in {"flush", "stdout"}
  BY <1>0, <1>4 DEF Inside
<1> QED BY <1>1, <1>3, <1>4, <1>5, <1>7, <1>8, CloseStep

\* A step that is about the input of the program only
Gets(r, a, r2, a2) ==
    /\ r2.call = r.call /\ r2.kind = r.kind /\ r2.mode = r.mode /\ r2.prefix = r.prefix /\ r2.rev = r.rev
    /\ r2.stdin = r.stdin /\ r2.stdout = r.stdout /\ r2.single = r.single /\ r2.sigusr1 = r.sigusr1
    /\ r2.local_status = r.local_status /\ r2.remote_status = r.remote_status /\ r2.died = r.died
    /\ r2.pc = "returned" <=> r.pc = "returned"
    /\ r2.pc = r.pc \/ r.kind \notin NoLoop
    /\ a2.st = a.st /\ a2.code = a.code /\ a2.out = a.out /\ a2.written = a.written
    /\ a2.switched = a.switched
    /\ a2.rd => a.rd
    /\ ~a2.rd => a2.in = <<>>

\* ... sends nothing.
LEMMA GetStep ==
    ASSUME IInv, NEW s \in Side, NEW r, NEW a, NEW q, NEW o, NEW x, NEW z, NEW p, NEW c,
           Here(s, r, a, q, o, x, z, p, c),
           NEW r2 \in IO, NEW a2 \in Prog, NEW q2, Gets(r, a, r2, a2),
           Control(s, r2, x, p), Receives(r, a, q, r2, a2, q2), Step(s, r2, a2, q2, o, x)
    PROVE  IInv'
<1>0. /\ Good(s, r, a, q, o, x, z, p, c) /\ r \in IO /\ a \in Prog /\ x \in BOOLEAN /\ o \in Seq(Msg)
      /\ Child(r, a) /\ Pipes(r, a, c.prefix)
  BY DEF Here, Good
<1>1. Child(r2, a2)
  BY <1>0, ZenonT(30) DEF Child, Gets
<1>2. Eof \in Msg /\ Eof.type = "EOF"
  BY MsgParts
<1>3. Plain(r, a, o, z, r2, a2, o, Eof)
  <2>1. /\ "stdin" \in r.rev => ~a.rd
        /\ r.sigusr1 \/ (r.kind = "process" /\ r.single) => a.switched
        /\ a.switched => r.kind = "process"
    BY <1>0 DEF Pipes
  <2>2. Announced(r2) => Announced(r)
    BY DEF Announced, Gets, NoLoop
  <2> QED BY <1>2, <2>1, <2>2 DEF Plain, Gets
<1>4. Timely(r, o, r2, a2, o, Eof)
  <2>1. o # Append(o, Eof)
    BY <1>0, <1>2, Appended, SMT
  <2> QED BY <2>1 DEF Timely
<1> QED BY <1>0, <1>1, <1>3, <1>4, PlainStep

\* flush_client_data()
LEMMA FlushStep ==
    ASSUME IInv, NEW s \in Side, flush_client_data(s)
    PROVE  IInv'
<1>1. PICK r, a, q, o, x, z, p, c : Here(s, r, a, q, o, x, z, p, c)
  BY Named
<1>0. /\ r \in IO /\ a \in Prog /\ r.pc = "flush" /\ Control(s, r, x, p)
      /\ r.kind \notin NoLoop /\ r.pc \in Inside /\ x = TRUE /\ ~r.died
  BY <1>1 DEF Here, Good, flush_client_data, Inside, NoLoop, Control
<1>e. r = io[s] /\ a = prog[s] /\ q = ring[s] /\ o = ring[Other(s)]
  BY <1>1 DEF Here
<1>2. CASE ~r.stdin \/ r.stdin_buf = <<>>
  <2>1. CASE Goes(s, [r EXCEPT !.pc = "recv"]) /\ UNCHANGED <<prog, ring, open>>
    <3>1. PICK r2 : r2 = [r EXCEPT !.pc = "recv"]
      OBVIOUS
    <3>2. r2 \in IO
      BY <1>0, <3>1 DEF IO, Phase
    <3>3. OnlyOn(r, r2) /\ r2.pc = "recv" /\ r2.rev = r.rev
      BY <1>0, <3>1 DEF OnlyOn, IO
    <3>4. Control(s, r2, x, p)
      BY <1>0, <1>2, <3>3 DEF Control, OnlyOn, NoLoop
    <3>5. Gets(r, a, r2, a)
      <4>1. ~a.rd => a.in = <<>>
        BY <1>1 DEF Here, Good, Pipes
      <4> QED BY <1>0, <3>3, <4>1 DEF Gets, OnlyOn
    <3>6. Receives(r, a, q, r2, a, q)
      BY <1>0, <3>3 DEF Receives, Rests, OnlyOn, Left
    <3>7. Step(s, r2, a, q, o, x)
      BY <1>1, <2>1, <3>1, WriteStep
    <3> QED BY <1>0, <1>1, <3>2, <3>4, <3>5, <3>6, <3>7, GetStep
  <2> QED BY <1>2, <1>e, <2>1 DEF flush_client_data
<1>3. CASE r.stdin /\ r.stdin_buf # <<>> /\ ~a.rd
  <2>1. PICK r0 : r0 = [r EXCEPT !.pc = "stdout"]
    OBVIOUS
  <2>2. r0 \in IO
    BY <1>0, <2>1 DEF IO, Phase
  <2>3. OnlyOn(r, r0) /\ r0.pc = "stdout" /\ r0.rev = r.rev
    BY <1>0, <2>1 DEF OnlyOn, IO
  <2>4. close_stdin(s, r0, q) /\ UNCHANGED <<prog, open>>
    BY <1>3, <1>e, <2>1 DEF flush_client_data, Broken
  <2>5. Receives(r, a, q, StdinClosed(r0), a, q)
    <3>1. SameBut(r0, StdinClosed(r0)) /\ ~StdinClosed(r0).stdin
      BY <2>2, Closing
    <3> QED BY <1>0, <1>3, <2>3, <3>1 DEF Receives, Rests, SameBut, OnlyOn, Left
  <2>6. r0.rev \subseteq r.rev /\ r0.pc \in {"flush", "stdout"}
    BY <2>3
  <2> QED BY <1>0, <1>1, <2>2, <2>3, <2>4, <2>5, <2>6, CloseStep
<1>4. CASE r.stdin /\ r.stdin_buf # <<>> /\ a.rd /\ a.in = <<>>
  <2>1. PICK r2 : r2 = [r EXCEPT !.stdin_buf = Tail(@)]
    OBVIOUS
  <2>2. PICK a2 : a2 = [a EXCEPT !.in = Append(@, Head(r.stdin_buf))]
    OBVIOUS
  <2>3. r.stdin_buf \in Seq(Chunk) /\ Tail(r.stdin_buf) \in Seq(Chunk) /\ Head(r.stdin_buf) \in Chunk
    <3>1. r.stdin_buf \in Seq(Chunk)
      BY <1>0 DEF IO
    <3> QED BY <1>4, <3>1, SMT
  <2>4. r2 \in IO
    BY <1>0, <2>1, <2>3 DEF IO
  <2>5. a2 \in Prog
    <3>1. Append(a.in, Head(r.stdin_buf)) \in Seq(Chunk)
      <4>1. a.in \in Seq(Chunk)
        BY <1>0 DEF Prog
      <4> QED BY <2>3, <4>1, SMT
    <3> QED BY <1>0, <2>2, <3>1 DEF Prog
  <2>6. /\ a2.in = Append(a.in, Head(r.stdin_buf)) /\ a2.got = a.got /\ a2.rd = a.rd
        /\ a2.st = a.st /\ a2.code = a.code /\ a2.out = a.out /\ a2.written = a.written
        /\ a2.switched = a.switched
    BY <1>0, <2>2 DEF Prog
  <2>7. /\ r2.call = r.call /\ r2.kind = r.kind /\ r2.mode = r.mode /\ r2.prefix = r.prefix /\ r2.rev = r.rev
        /\ r2.stdin = r.stdin /\ r2.stdout = r.stdout /\ r2.single = r.single /\ r2.sigusr1 = r.sigusr1
        /\ r2.local_status = r.local_status /\ r2.remote_status = r.remote_status /\ r2.died = r.died
        /\ r2.pc = r.pc /\ r2.stdin_buf = Tail(r.stdin_buf) /\ r2.ret = r.ret
    BY <1>0, <2>1 DEF IO
  <2>8. Gets(r, a, r2, a2)
    BY <1>4, <2>6, <2>7 DEF Gets
  <2>9. Control(s, r2, x, p)
    BY <1>0, <2>7 DEF Control
  <2>10. Receives(r, a, q, r2, a2, q)
    BY <1>0, <1>4, <2>6, <2>7 DEF Receives, Moves, Left
  <2>11. /\ io' = [io EXCEPT ![s] = r2] /\ prog' = [prog EXCEPT ![s] = a2]
         /\ UNCHANGED <<ring, open>>
    <3>1. /\ Goes(s, [r EXCEPT !.stdin_buf = Tail(@)]) /\ UNCHANGED <<ring, open>>
          /\ Gives(s, Head(r.stdin_buf))
      BY <1>4, <1>e DEF flush_client_data, Broken, PipeRoom
    <3>2. prog' = [prog EXCEPT ![s] = [a EXCEPT !.in = Append(@, Head(r.stdin_buf))]]
      BY <1>e, <3>1 DEF Gives
    <3> QED BY <2>1, <2>2, <3>1, <3>2 DEF Goes
  <2>12. Step(s, r2, a2, q, o, x)
    BY <1>1, <2>11, WriteStep DEF Goes
  <2> QED BY <1>1, <2>4, <2>5, <2>8, <2>9, <2>10, <2>12, GetStep
<1>5. CASE r.stdin /\ r.stdin_buf # <<>> /\ a.rd /\ a.in # <<>>
  <2>1. PICK r2 : r2 = [r EXCEPT !.pc = "stdout"]
    OBVIOUS
  <2>2. r2 \in IO
    BY <1>0, <2>1 DEF IO, Phase
  <2>3. OnlyOn(r, r2) /\ r2.pc = "stdout" /\ r2.rev = r.rev
    BY <1>0, <2>1 DEF OnlyOn, IO
  <2>4. Control(s, r2, x, p)
    BY <1>0, <2>3 DEF Control, OnlyOn, NoLoop
  <2>5. Gets(r, a, r2, a)
    BY <1>0, <1>5, <2>3 DEF Gets, OnlyOn
  <2>6. Receives(r, a, q, r2, a, q)
    BY <1>0, <2>3 DEF Receives, Rests, OnlyOn, Left
  <2>7. Goes(s, r2) /\ UNCHANGED <<prog, ring, open>>
    BY <1>5, <1>e, <2>1 DEF flush_client_data, Broken, PipeRoom
  <2>8. Step(s, r2, a, q, o, x)
    BY <1>1, <2>7, WriteStep
  <2> QED BY <1>0, <1>1, <2>2, <2>4, <2>5, <2>6, <2>8, GetStep
<1> QED BY <1>2, <1>3, <1>4, <1>5

\* MSG_DATA_EXIT_CODE, at the client
LEMMA RemoteExitedStep ==
    ASSUME IInv, NEW s \in Side, NEW r, NEW a, NEW q, NEW o, NEW x, NEW z, NEW p, NEW c,
           Here(s, r, a, q, o, x, z, p, c), r.pc = "recv", q # <<>>,
           Head(q).type = "EXIT_CODE", ~IsService(s), remote_exited(s, Head(q).code, Tail(q)),
           UNCHANGED open
    PROVE  IInv'
<1>0. /\ Good(s, r, a, q, o, x, z, p, c) /\ r \in IO /\ a \in Prog /\ x \in BOOLEAN /\ o \in Seq(Msg)
      /\ q \in Seq(Msg) /\ s # "service" /\ (~p => ~z.stdin)
      /\ Child(r, a) /\ Control(s, r, x, p) /\ Pipes(r, a, c.prefix) /\ Fixed(s, r, c)
  BY DEF Here, Good, IsService
<1>1. r.pc \in Inside /\ x = TRUE /\ r.kind \notin NoLoop /\ ~r.died /\ r.pc # "returned" /\ r.mode = {}
  BY <1>0 DEF Inside, Control, NoLoop, Fixed
<1>2. PICK code : code = Head(q).code
  OBVIOUS
<1>3. code \in Status
  <2>1. Head(q) \in Msg
    BY <1>0, Removed
  <2> QED BY <1>2, <2>1, MsgParts DEF Status
<1>q. PICK q2 : q2 = Tail(q)
  OBVIOUS
<1>4. PICK r0 : r0 = [r EXCEPT !.pc = "stdout", !.remote_status = code]
  OBVIOUS
<1>5. r0 \in IO
  BY <1>0, <1>3, <1>4 DEF IO, Phase
<1>6. /\ r0.call = r.call /\ r0.kind = r.kind /\ r0.mode = r.mode /\ r0.prefix = r.prefix
      /\ r0.stdin = r.stdin /\ r0.stdout = r.stdout /\ r0.stdin_buf = r.stdin_buf /\ r0.rev = r.rev
      /\ r0.local_status = r.local_status /\ r0.died = r.died /\ r0.single = r.single
      /\ r0.sigusr1 = r.sigusr1 /\ r0.pc = "stdout" /\ r0.remote_status = code
  BY <1>0, <1>4 DEF IO
<1>7. PICK r2 : r2 = StdoutClosed(r0)
  OBVIOUS
<1>8. /\ r2 \in IO /\ SameBut(r0, r2) /\ ~r2.stdout
      /\ r2.single = r0.single /\ r2.sigusr1 = r0.sigusr1
  BY <1>5, <1>7, Closing
<1>9. r2.stdin = r0.stdin
  BY <1>1, <1>5, <1>6, <1>7, Closing
<1>10. Eof \in Msg /\ Eof.type = "EOF"
  BY MsgParts
<1>11. PICK o2 : /\ \/ (p /\ o2 = Append(o, Eof)) \/ (~p /\ o2 = o)
                    \/ o2 = o /\ ~r.stdout
                 /\ ring' = [y \in Side |-> IF y = s THEN q2 ELSE o2]
  <2>1. CASE r.stdout
    <3>1. Attempt(s, q2, <<Eof>>)
      BY <1>q, <2>1 DEF remote_exited, Here
    <3>2. PICK o2 : /\ (p /\ o2 = Append(o, Eof)) \/ (~p /\ o2 = o)
                    /\ ring' = [y \in Side |-> IF y = s THEN q2 ELSE o2]
      BY <3>1, Attempted, SMT
    <3> QED BY <3>2
  <2>2. CASE ~r.stdout
    <3>1. Attempt(s, q2, <<>>)
      BY <1>q, <2>2 DEF remote_exited, Here
    <3>2. ring' = [y \in Side |-> IF y = s THEN q2 ELSE o]
      BY <3>1, Unattempted
    <3> QED BY <2>2, <3>2
  <2> QED BY <2>1, <2>2
<1>12. Step(s, r2, a, q2, o2, x)
  <2>1. Goes(s, r2) /\ UNCHANGED prog
    BY <1>2, <1>4, <1>7 DEF remote_exited, Here
  <2> QED BY <1>11, <2>1, WriteStep
<1>13. Control(s, r2, x, p)
  BY <1>1, <1>6, <1>8 DEF Control, SameBut, NoLoop
<1>14. Child(r2, a)
  BY <1>0, <1>1, <1>6, <1>8 DEF Child, SameBut
<1>15. Receives(r, a, q, r2, a, q2)
  <2>1. Takes(r, a, q, r2, a, q2)
    BY <1>0, <1>q, <1>2, <1>6, <1>8, <1>9 DEF Takes, SameBut
  <2> QED BY <1>1, <1>6, <1>9, <2>1 DEF Receives, Left
<1>16. Plain(r, a, o, z, r2, a, o2, Eof)
  <2>1. /\ "stdin" \in r.rev => ~a.rd
        /\ ~a.rd => a.in = <<>>
        /\ r.sigusr1 \/ (r.kind = "process" /\ r.single) => a.switched
        /\ a.switched => r.kind = "process"
    BY <1>0 DEF Pipes
  <2>2. Announced(r2) => Announced(r) \/ ~z.stdin \/ (o2 = Append(o, Eof) /\ Eof.type = "EOF")
    BY <1>0, <1>1, <1>10, <1>11 DEF Announced
  <2>3. o2 = o \/ o2 = Append(o, Eof)
    BY <1>11
  <2> QED BY <1>1, <1>6, <1>8, <1>10, <2>1, <2>2, <2>3 DEF Plain, SameBut
<1> QED BY <1>0, <1>8, <1>12, <1>13, <1>14, <1>15, <1>16, PlainStep

\* A message is taken, and the program gets it at once, later or never.
LEMMA TakenStep ==
    ASSUME IInv, NEW s \in Side, NEW r, NEW a, NEW q, NEW o, NEW x, NEW z, NEW p, NEW c,
           Here(s, r, a, q, o, x, z, p, c), r.pc = "recv", q # <<>>,
           NEW r2 \in IO, NEW a2 \in Prog, Gets(r, a, r2, a2), r2.pc \in {"recv", "stdout"},
           r2.pc = "recv" /\ r2.stdin => r2.stdin_buf = <<>>,
           Takes(r, a, q, r2, a2, Tail(q)),
           Goes(s, r2) \/ (UNCHANGED io /\ r2 = r),
           prog' = [prog EXCEPT ![s] = a2] \/ (UNCHANGED prog /\ a2 = a),
           Attempt(s, Tail(q), <<>>), UNCHANGED open
    PROVE  IInv'
<1>1. PICK q2 : q2 = Tail(q)
  OBVIOUS
<1>2. Control(s, r, x, p)
  BY DEF Here, Good
<1>3. Control(s, r2, x, p)
  BY <1>2 DEF Control, Gets, NoLoop
<1>4. Receives(r, a, q, r2, a2, q2)
  BY <1>1 DEF Receives, Gets, Left
<1>5. ring' = [y \in Side |-> IF y = s THEN q2 ELSE o]
  <2>1. Attempt(s, q2, <<>>)
    BY <1>1
  <2> QED BY <2>1, Unattempted, SMT
<1>6. Step(s, r2, a2, q2, o, x)
  BY <1>5, WriteStep
<1> QED BY <1>3, <1>4, <1>6, GetStep

\* close_stdin() after a message
LEMMA TakenCloseStep ==
    ASSUME IInv, NEW s \in Side, NEW r, NEW a, NEW q, NEW o, NEW x, NEW z, NEW p, NEW c,
           Here(s, r, a, q, o, x, z, p, c), r.pc = "recv", q # <<>>,
           (Head(q).type = "DATA" /\ ~a.rd) \/ Head(q).type = "EOF",
           close_stdin(s, [r EXCEPT !.pc = "stdout"], Tail(q)), UNCHANGED <<prog, open>>
    PROVE  IInv'
<1>0. r \in IO /\ Control(s, r, x, p) /\ r.pc \in Inside
  BY DEF Here, Good, Inside
<1>1. PICK r0 : r0 = [r EXCEPT !.pc = "stdout"]
  OBVIOUS
<1>2. PICK q2 : q2 = Tail(q)
  OBVIOUS
<1>3. r0 \in IO
  BY <1>0, <1>1 DEF IO, Phase
<1>4. OnlyOn(r, r0) /\ r0.pc = "stdout" /\ r0.rev = r.rev
  BY <1>0, <1>1 DEF OnlyOn, IO
<1>5. close_stdin(s, r0, q2)
  BY <1>1, <1>2
<1>6. Receives(r, a, q, StdinClosed(r0), a, q2)
  <2>1. SameBut(r0, StdinClosed(r0)) /\ ~StdinClosed(r0).stdin
    BY <1>3, Closing
  <2>2. ~r.died
    BY <1>0 DEF Control
  <2>3. Takes(r, a, q, StdinClosed(r0), a, q2)
    BY <1>2, <1>4, <2>1 DEF Takes, SameBut, OnlyOn
  <2> QED BY <1>4, <2>1, <2>2, <2>3 DEF Receives, SameBut, OnlyOn, Left
<1>7. r0.rev \subseteq r.rev /\ r0.pc \in {"flush", "stdout"}
  BY <1>4
<1> QED BY <1>0, <1>3, <1>4, <1>5, <1>6, <1>7, CloseStep

\* handle_remote_data_v2()
LEMMA RemoteStep ==
    ASSUME IInv, NEW s \in Side, handle_remote_data_v2(s)
    PROVE  IInv'
<1>1. PICK r, a, q, o, x, z, p, c : Here(s, r, a, q, o, x, z, p, c)
  BY Named
<1>e. r = io[s] /\ a = prog[s] /\ q = ring[s] /\ o = ring[Other(s)]
  BY <1>1 DEF Here
<1>0. /\ r \in IO /\ a \in Prog /\ q \in Seq(Msg) /\ r.pc = "recv" /\ q # <<>> /\ Control(s, r, x, p)
      /\ r.kind \notin NoLoop /\ (~a.rd => a.in = <<>>) /\ (r.stdin => r.stdin_buf = <<>>)
  BY <1>1 DEF Here, Good, handle_remote_data_v2, NoLoop, Control, Pipes
<1>m. UNCHANGED open
  BY DEF handle_remote_data_v2
<1>h. PICK m : m = Head(q)
  OBVIOUS
<1>t. /\ m \in Msg /\ m.type \in {"DATA", "EOF", "STDERR_EOF", "EXIT_CODE"}
      /\ (m.type = "DATA" => m.chunk \in Chunk)
  <2>1. m \in Msg
    BY <1>0, <1>h, Removed
  <2> QED BY <2>1, MsgParts
<1>2. ASSUME m.type = "DATA", r.stdin, write_stdin(s, m.chunk, Tail(q)) PROVE IInv'
  <2>0. m.chunk \in Chunk
    BY <1>2, <1>t
  <2>1. CASE /\ Broken(s) /\ close_stdin(s, [io[s] EXCEPT !.pc = "stdout"], Tail(q))
             /\ UNCHANGED prog
    <3>1. ~a.rd /\ close_stdin(s, [r EXCEPT !.pc = "stdout"], Tail(q)) /\ UNCHANGED prog
      BY <1>e, <2>1 DEF Broken
    <3> QED BY <1>0, <1>1, <1>2, <1>h, <1>m, <3>1, TakenCloseStep
  <2>2. CASE ~Broken(s) /\ PipeRoom(s) /\ Gives(s, m.chunk) /\ Attempt(s, Tail(q), <<>>) /\ UNCHANGED io
    <3>1. a.rd /\ a.in = <<>>
      BY <1>e, <2>2 DEF Broken, PipeRoom
    <3>2. PICK a2 : a2 = [a EXCEPT !.in = Append(@, m.chunk)]
      OBVIOUS
    <3>3. a2 \in Prog
      <4>1. a.in \in Seq(Chunk)
        BY <1>0 DEF Prog
      <4>2. Append(a.in, m.chunk) \in Seq(Chunk)
        BY <2>0, <4>1, SMT
      <4> QED BY <1>0, <3>2, <4>2 DEF Prog
    <3>4. /\ a2.in = Append(a.in, m.chunk) /\ a2.got = a.got /\ a2.rd = a.rd
          /\ a2.st = a.st /\ a2.code = a.code /\ a2.out = a.out /\ a2.written = a.written
          /\ a2.switched = a.switched
      BY <1>0, <3>2 DEF Prog
    <3>5. Gets(r, a, r, a2)
      BY <3>1, <3>4 DEF Gets
    <3>6. Takes(r, a, q, r, a2, Tail(q))
      BY <1>0, <1>2, <1>h, <3>1, <3>4 DEF Takes
    <3>7. prog' = [prog EXCEPT ![s] = a2]
      BY <1>e, <2>2, <3>2 DEF Gives
    <3>8. r.pc \in {"recv", "stdout"} /\ UNCHANGED io /\ Attempt(s, Tail(q), <<>>)
      BY <1>0, <2>2
    <3> QED BY <1>0, <1>1, <1>m, <3>3, <3>5, <3>6, <3>7, <3>8, TakenStep
  <2>3. CASE /\ ~Broken(s) /\ ~PipeRoom(s)
             /\ Goes(s, [io[s] EXCEPT !.pc = "stdout", !.stdin_buf = Append(@, m.chunk)])
             /\ Attempt(s, Tail(q), <<>>) /\ UNCHANGED prog
    <3>1. a.rd
      BY <1>e, <2>3 DEF Broken
    <3>2. PICK r2 : r2 = [r EXCEPT !.pc = "stdout", !.stdin_buf = Append(@, m.chunk)]
      OBVIOUS
    <3>3. r2 \in IO
      <4>1. r.stdin_buf \in Seq(Chunk)
        BY <1>0 DEF IO
      <4>2. Append(r.stdin_buf, m.chunk) \in Seq(Chunk)
        BY <2>0, <4>1, SMT
      <4> QED BY <1>0, <3>2, <4>2 DEF IO, Phase
    <3>4. /\ r2.call = r.call /\ r2.kind = r.kind /\ r2.mode = r.mode /\ r2.prefix = r.prefix /\ r2.rev = r.rev
          /\ r2.stdin = r.stdin /\ r2.stdout = r.stdout /\ r2.single = r.single /\ r2.sigusr1 = r.sigusr1
          /\ r2.local_status = r.local_status /\ r2.remote_status = r.remote_status /\ r2.died = r.died
          /\ r2.pc = "stdout" /\ r2.stdin_buf = Append(r.stdin_buf, m.chunk)
      BY <1>0, <3>2 DEF IO
    <3>5. Gets(r, a, r2, a)
      BY <1>0, <3>1, <3>4 DEF Gets
    <3>6. Takes(r, a, q, r2, a, Tail(q))
      BY <1>0, <1>2, <1>h, <3>1, <3>4 DEF Takes
    <3>7. Goes(s, r2) /\ Attempt(s, Tail(q), <<>>) /\ UNCHANGED prog
      BY <1>e, <2>3, <3>2
    <3>8. r2.pc \in {"recv", "stdout"} /\ r2.pc # "recv"
      BY <3>4
    <3> QED BY <1>0, <1>1, <1>m, <3>3, <3>5, <3>6, <3>7, <3>8, TakenStep
  <2> QED BY <1>2, <2>1, <2>2, <2>3 DEF write_stdin
<1>3. ASSUME m.type = "EOF", close_stdin(s, [r EXCEPT !.pc = "stdout"], Tail(q)), UNCHANGED prog PROVE IInv'
  BY <1>0, <1>1, <1>3, <1>h, <1>m, TakenCloseStep
<1>4. ASSUME m.type \in {"DATA", "EOF"} => ~r.stdin, discard(s, Tail(q)) PROVE IInv'
  <2>1. Gets(r, a, r, a)
    BY <1>0 DEF Gets
  <2>2. Takes(r, a, q, r, a, Tail(q))
    BY <1>0, <1>4, <1>h DEF Takes
  <2>3. r.pc \in {"recv", "stdout"} /\ UNCHANGED <<io, prog>> /\ Attempt(s, Tail(q), <<>>)
    BY <1>0, <1>4 DEF discard
  <2> QED BY <1>0, <1>1, <1>m, <2>1, <2>2, <2>3, TakenStep
<1>5. ASSUME m.type = "EXIT_CODE", ~IsService(s), remote_exited(s, m.code, Tail(q)) PROVE IInv'
  BY <1>0, <1>1, <1>5, <1>h, <1>m, RemoteExitedStep
<1>6. \/ m.type = "DATA" /\ r.stdin /\ write_stdin(s, m.chunk, Tail(q))
      \/ m.type = "EOF" /\ close_stdin(s, [r EXCEPT !.pc = "stdout"], Tail(q)) /\ UNCHANGED prog
      \/ m.type \in {"DATA", "EOF"} /\ ~r.stdin /\ discard(s, Tail(q))
      \/ m.type = "STDERR_EOF" /\ discard(s, Tail(q))
      \/ m.type = "EXIT_CODE" /\ discard(s, Tail(q))
      \/ m.type = "EXIT_CODE" /\ ~IsService(s) /\ remote_exited(s, m.code, Tail(q))
  BY <1>e, <1>h DEF handle_remote_data_v2
<1> QED BY <1>2, <1>3, <1>4, <1>5, <1>6

=============================================================================
