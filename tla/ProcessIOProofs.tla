-------------------------- MODULE ProcessIOProofs --------------------------
(***************************************************************************)
(* Proofs about ProcessIO, for any calls: kinds of programs, rings, and    *)
(* amounts of data of any size.  To the steps of module ProcessIOSteps are *)
(* added those that send what the program wrote, and the programs' own;    *)
(* the safety properties then follow from the invariant.                   *)
(***************************************************************************)
EXTENDS ProcessIOSteps

\* Most leaves are first-order reasoning, which is Zenon's; a leaf that needs
\* arithmetic, or functions and records taken apart, names SMT.
USE Zenon

-----------------------------------------------------------------------------
(* Data from the program *)

\* A step of a side whose parts are named.
LEMMA FineStep ==
    ASSUME IInv, NEW s \in Side, NEW r, NEW a, NEW q, NEW o, NEW x, NEW z, NEW p, NEW c,
           Here(s, r, a, q, o, x, z, p, c), NEW r2, NEW a2, NEW q2, NEW o2, NEW x2, NEW m,
           Step(s, r2, a2, q2, o2, x2), Fine(s, r, a, q, o, x, z, p, c, r2, a2, q2, o2, x2, m)
    PROVE  IInv'
<1>1. Fine(s, io[s], prog[s], ring[s], ring[Other(s)], open[s], io[Other(s)], open[Other(s)], Call,
           r2, a2, q2, o2, x2, m)
  BY DEF Here
<1> QED BY <1>1, Assemble

\* What a send does to the rings, if it does not fail.
LEMMA SentStep ==
    ASSUME IInv, NEW s \in Side, NEW r, NEW a, NEW q, NEW o, NEW x, NEW z, NEW p, NEW c,
           Here(s, r, a, q, o, x, z, p, c), NEW m, Sent(s, m), NEW o2, o2 = Append(o, m)
    PROVE  p /\ ring' = [y \in Side |-> IF y = s THEN q ELSE o2]
BY SentOne, SMT DEF Here, IInv

\* handle_input_v2() sends from the prefix; only qrexec-client-vm has one.
LEMMA PrefixStep ==
    ASSUME IInv, NEW s \in Side, handle_input_prefix(s)
    PROVE  IInv'
<1>1. PICK r, a, q, o, x, z, p, c : Here(s, r, a, q, o, x, z, p, c)
  BY Named
<1>e. r = io[s] /\ a = prog[s] /\ q = ring[s] /\ o = ring[Other(s)] /\ c = Call
  BY <1>1 DEF Here
<1>0. /\ Good(s, r, a, q, o, x, z, p, c) /\ r \in IO /\ a \in Prog /\ o \in Seq(Msg) /\ x \in BOOLEAN
      /\ r.pc = "stdout" /\ r.prefix > 0 /\ Control(s, r, x, p) /\ Child(r, a) /\ Pipes(r, a, c.prefix)
      /\ Fixed(s, r, c) /\ c \in CallType
  BY <1>1 DEF Here, Good, handle_input_prefix
<1>n. r.prefix \in Nat /\ c.prefix \in Nat /\ r.prefix <= c.prefix /\ s # "service"
  BY <1>0, SMT DEF IO, CallType, Fixed
<1>2. CASE SendFails(s) /\ handle_vchan_error(s)
  <2>1. PICK one \in Status : one = 1
    BY SMT DEF Status
  <2>2. Goes(s, Ended(r, one, TRUE)) /\ open' = [open EXCEPT ![s] = FALSE]
    BY <1>2, <1>e, <2>1 DEF handle_vchan_error
  <2>3. UNCHANGED <<prog, ring>> /\ one # 0 /\ r.pc # "returned"
    BY <1>0, <1>2, <2>1, SMT DEF SendFails, handle_input_prefix
  <2> QED BY <1>1, <2>2, <2>3, DeathStep
<1>3. CASE /\ Sent(s, Data(Call.prefix - io[s].prefix + 1))
           /\ Goes(s, [io[s] EXCEPT !.prefix = @ - 1, !.rev = @ \cup {"prefix"}])
           /\ UNCHANGED open
  <2>1. PICK n : n = c.prefix - r.prefix + 1
    OBVIOUS
  <2>2. PICK m : m = Data(n)
    OBVIOUS
  <2>3. m \in Msg /\ m.type = "DATA" /\ m.chunk = n
    <3>1. n \in Chunk
      BY <1>n, <2>1, SMT DEF Chunk
    <3> QED BY <2>2, <3>1, MsgParts
  <2>4. PICK o2 : o2 = Append(o, m)
    OBVIOUS
  <2>5. Sent(s, m)
    BY <1>3, <1>e, <2>1, <2>2
  <2>6. ring' = [y \in Side |-> IF y = s THEN q ELSE o2]
    BY <1>1, <2>4, <2>5, SentStep, SMT
  <2>7. PICK r2 : r2 = [r EXCEPT !.prefix = r.prefix - 1, !.rev = r.rev \cup {"prefix"}]
    OBVIOUS
  <2>8. r2 \in IO
    <3>1. r.prefix - 1 \in Nat
      BY <1>0, <1>n, SMT
    <3>2. r.rev \cup {"prefix"} \in SUBSET {"stdin", "stdout", "stderr", "prefix"}
      BY <1>0 DEF IO
    <3> QED BY <1>0, <2>7, <3>1, <3>2 DEF IO
  <2>10. /\ r2.call = r.call /\ r2.kind = r.kind /\ r2.mode = r.mode /\ r2.prefix = r.prefix - 1
         /\ r2.rev = r.rev \cup {"prefix"}
         /\ r2.stdin = r.stdin /\ r2.stdout = r.stdout /\ r2.single = r.single /\ r2.sigusr1 = r.sigusr1
         /\ r2.local_status = r.local_status /\ r2.remote_status = r.remote_status /\ r2.died = r.died
         /\ r2.pc = r.pc /\ r2.stdin_buf = r.stdin_buf
    BY <1>0, <2>7 DEF IO
  <2>11. Step(s, r2, a, q, o2, x)
    <3>1. Goes(s, r2) /\ UNCHANGED <<prog, open>>
      BY <1>3, <1>e, <2>7 DEF handle_input_prefix
    <3> QED BY <1>1, <2>6, <3>1, WriteStep
  <2>12. Fixed(s, r2, c)
    BY <1>0, <1>n, <2>10, SMT DEF Fixed
  <2>13. Control(s, r2, x, p)
    BY <1>0, <2>10 DEF Control
  <2>14. Child(r2, a)
    BY <1>0, <2>10 DEF Child
  <2>15. Pipes(r2, a, c.prefix)
    <3>1. ("stdin" \in r2.rev <=> "stdin" \in r.rev) /\ (r2.prefix > 0 => r.prefix > 0)
      BY <1>n, <2>10, SMT
    <3> QED BY <1>0, <2>10, <3>1 DEF Pipes
  <2>16. Receives(r, a, q, r2, a, q)
    BY <2>10 DEF Receives, Rests
  <2>17. Sends(s, r, a, o, r2, a, o2, m, z, c.prefix)
    <3>1. ASSUME ~a.switched
          PROVE  Emitted(r, a, c.prefix) = c.prefix - r.prefix /\ Emitted(r2, a, c.prefix) = n
      <4>1. Emitted(r, a, c.prefix) = c.prefix - r.prefix
        BY <1>0 DEF Emitted
      <4>2. a.written - Some(a.out) = c.prefix
        BY <1>0, <3>1 DEF Pipes
      <4>3. CASE r2.prefix > 0
        BY <1>n, <2>1, <2>10, <4>1, <4>3, SMT DEF Emitted
      <4>4. CASE ~(r2.prefix > 0)
        <5>1. r.prefix = 1
          BY <1>0, <1>n, <2>10, <4>4, SMT
        <5>2. Emitted(r2, a, c.prefix) = c.prefix
          BY <4>2, <4>4 DEF Emitted
        <5> QED BY <1>n, <2>1, <4>1, <5>1, <5>2, SMT
      <4> QED BY <4>1, <4>3, <4>4
    <3>2. Speaks(r, a, o, r2, a, o2, m, c.prefix)
      BY <2>1, <2>3, <2>4, <3>1 DEF Speaks
    <3> QED BY <1>n, <2>3, <3>2 DEF Sends
  <2>18. Fine(s, r, a, q, o, x, z, p, c, r2, a, q, o2, x, m)
    BY <1>0, <2>8, <2>12, <2>13, <2>14, <2>15, <2>16, <2>17 DEF Fine
  <2> QED BY <1>1, <2>11, <2>18, FineStep
<1> QED BY <1>2, <1>3 DEF handle_input_prefix

\* A program of whose output something was read
SameBelow(a, a2) ==
    /\ a2.st = a.st /\ a2.code = a.code /\ a2.in = a.in /\ a2.got = a.got /\ a2.rd = a.rd
    /\ a2.written = a.written /\ a2.switched = a.switched
\* ... and the loop, which sent it, or died of it
Said(r, o, x, p, r2, o2, x2, m) ==
    \/ r2 = r /\ x2 = x /\ o2 = Append(o, m)
    \/ Stopped(r, r2) /\ r2.died /\ r2.ret # 0 /\ x2 = FALSE /\ o2 = o /\ ~p

\* What such a loop leaves as it was
Continues(r, r2) ==
    /\ r2.prefix = r.prefix /\ r2.kind = r.kind /\ r2.mode = r.mode /\ r2.call = r.call
    /\ r2.rev \subseteq r.rev /\ r2.sigusr1 = r.sigusr1 /\ r2.single = r.single
    /\ Announced(r2) => Announced(r)
    /\ r2.stdout => r.stdout
\* ... and what it is.
LEMMA SaidParts ==
    ASSUME NEW s, NEW r \in IO, NEW x, NEW p, Control(s, r, x, p), r.pc = "stdout",
           NEW r2, NEW o, NEW o2, NEW x2, NEW m, Said(r, o, x, p, r2, o2, x2, m)
    PROVE  Continues(r, r2) /\ r.kind \notin NoLoop /\ ~r.died
<1>0. ~r.died /\ r.kind \notin NoLoop
  BY DEF Control, NoLoop
<1>1. CASE r2 = r
  BY <1>0, <1>1 DEF Continues
<1>2. CASE Stopped(r, r2)
  <2>1. ~Announced(r2)
    BY <1>0, <1>2 DEF Announced, Stopped, NoLoop
  <2> QED BY <1>0, <1>2, <2>1 DEF Stopped, Continues
<1> QED BY <1>0, <1>1, <1>2 DEF Said

\* What holds of such a loop.
LEMMA SaidSide ==
    ASSUME NEW s, NEW r \in IO, NEW a, NEW q, NEW x \in BOOLEAN, NEW p, NEW c,
           Control(s, r, x, p), Fixed(s, r, c), Child(r, a), r.pc = "stdout",
           NEW r2, NEW a2, SameBelow(a, a2), NEW o, NEW o2, NEW x2, NEW m,
           Said(r, o, x, p, r2, o2, x2, m)
    PROVE  /\ Fixed(s, r2, c) /\ Control(s, r2, x2, p) /\ Child(r2, a2) /\ x2 \in BOOLEAN
           /\ Receives(r, a, q, r2, a2, q)
           /\ x2 => x
<1>0. ~r.died /\ r.kind \notin NoLoop
  BY SaidParts
<1>1. CASE r2 = r /\ x2 = x
  <2>1. Child(r2, a2)
    BY <1>1 DEF Child, SameBelow
  <2>2. Receives(r, a, q, r2, a2, q)
    BY <1>1 DEF Receives, Rests, SameBelow
  <2> QED BY <1>1, <2>1, <2>2
<1>2. CASE Stopped(r, r2) /\ r2.died /\ r2.ret # 0 /\ x2 = FALSE
  <2>1. Child(r2, a2)
    BY <1>0, <1>2 DEF Child, SameBelow, Stopped
  <2>2. Receives(r, a, q, r2, a2, q)
    BY <1>0, <1>2 DEF Receives, Rests, SameBelow, Stopped, Left
  <2>3. Fixed(s, r2, c)
    BY <1>0, <1>2 DEF Fixed, Stopped
  <2>4. Control(s, r2, x2, p)
    BY <1>0, <1>2 DEF Control, Stopped, NoLoop
  <2> QED BY <1>2, <2>1, <2>2, <2>3, <2>4
<1> QED BY <1>1, <1>2 DEF Said

\* Output of a program that uses one socket is read.
LEMMA SocketDataStep ==
    ASSUME IInv, NEW s \in Side, NEW r, NEW a, NEW q, NEW o, NEW x, NEW z, NEW p, NEW c,
           Here(s, r, a, q, o, x, z, p, c), r.pc = "stdout", a.switched,
           NEW r2 \in IO, NEW a2 \in Prog, SameBelow(a, a2), NEW o2, NEW x2, NEW m \in Msg, m.type = "DATA",
           Said(r, o, x, p, r2, o2, x2, m), Step(s, r2, a2, q, o2, x2)
    PROVE  IInv'
<1>0. /\ Good(s, r, a, q, o, x, z, p, c) /\ r \in IO /\ a \in Prog /\ x \in BOOLEAN /\ Pipes(r, a, c.prefix)
  BY DEF Here, Good
<1>1. /\ Fixed(s, r2, c) /\ Control(s, r2, x2, p) /\ Child(r2, a2) /\ x2 \in BOOLEAN
      /\ Receives(r, a, q, r2, a2, q)
      /\ x2 => x
  <2>1. r \in IO /\ x \in BOOLEAN /\ Control(s, r, x, p) /\ Fixed(s, r, c) /\ Child(r, a)
    BY <1>0 DEF Good
  <2> QED BY <2>1, SaidSide, ZenonT(30)
<1>2. /\ r2.prefix = r.prefix /\ r2.kind = r.kind /\ r2.mode = r.mode /\ r2.call = r.call
      /\ r2.rev \subseteq r.rev /\ r2.sigusr1 = r.sigusr1 /\ r2.single = r.single
      /\ Announced(r2) => Announced(r)
      /\ r2.stdout => r.stdout
  <2>1. Control(s, r, x, p)
    BY <1>0 DEF Good
  <2>2. Continues(r, r2)
    BY <1>0, <2>1, SaidParts
  <2> QED BY <2>2 DEF Continues
<1>3. Plain(r, a, o, z, r2, a2, o2, m)
  <2>1. /\ "stdin" \in r.rev => ~a.rd
        /\ ~a.rd => a.in = <<>>
        /\ a.switched => r.kind = "process"
    BY <1>0 DEF Pipes
  <2>2. o2 = o \/ o2 = Append(o, m)
    BY DEF Said
  <2> QED BY <1>2, <2>1, <2>2 DEF Plain, SameBelow
<1>4. Timely(r, o, r2, a2, o2, m)
  BY DEF Timely
<1> QED BY <1>1, <1>3, <1>4, PlainStep

\* Output of a program that uses pipes is read.
LEMMA PipeDataStep ==
    ASSUME IInv, NEW s \in Side, NEW r, NEW a, NEW q, NEW o, NEW x, NEW z, NEW p, NEW c,
           Here(s, r, a, q, o, x, z, p, c), r.pc = "stdout", ~a.switched, r.prefix = 0, r.stdout,
           a.out # <<>>,
           NEW r2 \in IO, NEW a2 \in Prog, SameBelow(a, a2), a2.out = Tail(a.out),
           NEW o2, NEW x2, NEW m, m = Data(Head(a.out)),
           Said(r, o, x, p, r2, o2, x2, m), Step(s, r2, a2, q, o2, x2)
    PROVE  IInv'
<1>0. /\ Good(s, r, a, q, o, x, z, p, c) /\ r \in IO /\ a \in Prog /\ x \in BOOLEAN /\ Pipes(r, a, c.prefix)
      /\ o \in Seq(Msg) /\ (~p => ~z.stdin)
  BY DEF Here, Good
<1>1. /\ Fixed(s, r2, c) /\ Control(s, r2, x2, p) /\ Child(r2, a2) /\ x2 \in BOOLEAN
      /\ Receives(r, a, q, r2, a2, q)
      /\ x2 => x
  <2>1. r \in IO /\ x \in BOOLEAN /\ Control(s, r, x, p) /\ Fixed(s, r, c) /\ Child(r, a)
    BY <1>0 DEF Good
  <2> QED BY <2>1, SaidSide, SMT
<1>2. /\ r2.prefix = r.prefix /\ r2.kind = r.kind /\ r2.mode = r.mode /\ r2.call = r.call
      /\ r2.rev \subseteq r.rev /\ r2.sigusr1 = r.sigusr1 /\ r2.single = r.single
      /\ Announced(r2) => Announced(r)
      /\ r.kind \notin NoLoop
  <2>1. Control(s, r, x, p)
    BY <1>0 DEF Good
  <2>2. Continues(r, r2) /\ r.kind \notin NoLoop
    BY <1>0, <2>1, SaidParts
  <2> QED BY <2>2 DEF Continues
<1>3. a.written \in Nat /\ a.out = <<a.written>> /\ Some(a.out) <= a.written
  BY <1>0 DEF Pipes, Prog
<1>4. Some(a.out) = 1 /\ Head(a.out) = a.written /\ a2.out = <<>> /\ Some(a2.out) = 0
  BY <1>3, SMT DEF Some
<1>5. m \in Msg /\ m.type = "DATA" /\ m.chunk = a.written
  <2>1. a.written \in Chunk
    BY <1>3, <1>4, SMT DEF Chunk
  <2>2. m = Data(a.written)
    BY <1>4
  <2>3. \A n \in Chunk : Data(n) \in Msg /\ Data(n).type = "DATA" /\ Data(n).chunk = n
    BY MsgParts
  <2> QED BY <2>1, <2>2, <2>3
<1>6. Pipes(r2, a2, c.prefix)
  <2>1. /\ "stdin" \in r2.rev => ~a2.rd
        /\ ~a2.rd => a2.in = <<>>
        /\ r2.sigusr1 \/ (r2.kind = "process" /\ r2.single) => a2.switched
        /\ a2.switched => r2.kind = "process"
    BY <1>0, <1>2 DEF Pipes, SameBelow
  <2>2. a2.out \in {<<>>, <<a2.written>>} /\ Some(a2.out) <= a2.written /\ r2.prefix = 0
    BY <1>2, <1>3, <1>4, SMT DEF SameBelow
  <2> QED BY <1>2, <2>1, <2>2, SMT DEF Pipes
<1>7. Emitted(r, a, c.prefix) = a.written - 1 /\ Emitted(r2, a2, c.prefix) = Emitted(r, a, c.prefix) + 1
  BY <1>2, <1>3, <1>4, SMT DEF Emitted, SameBelow
<1>8. ~Silent(r)
  BY <1>2 DEF Silent
<1>9. Answers(r, a, o, r2, a2, o2, m, z)
  <2>1. r.pc # "returned"
    OBVIOUS
  <2> QED BY <1>2, <1>5, <1>8, <2>1 DEF Answers, SameBelow
<1>10. Quiet(r, a, o, r2, a2, o2, z, c.prefix) \/ Speaks(r, a, o, r2, a2, o2, m, c.prefix)
  <2>1. CASE o2 = Append(o, m)
    BY <1>3, <1>5, <1>7, <2>1, SMT DEF Speaks
  <2>2. CASE o2 = o /\ ~p
    BY <1>0, <1>7, <2>2 DEF Quiet
  <2> QED BY <2>1, <2>2 DEF Said
<1>11. Sends(s, r, a, o, r2, a2, o2, m, z, c.prefix)
  BY <1>5, <1>9, <1>10 DEF Sends, SameBelow
<1>12. Fine(s, r, a, q, o, x, z, p, c, r2, a2, q, o2, x2, m)
  BY <1>1, <1>6, <1>11 DEF Fine
<1> QED BY <1>12, FineStep

\* The end of the output is read, and announced.
LEMMA OutEndStep ==
    ASSUME IInv, NEW s \in Side, NEW r, NEW a, NEW q, NEW o, NEW x, NEW z, NEW p, NEW c,
           Here(s, r, a, q, o, x, z, p, c), r.pc = "stdout", r.stdout,
           Out(s) = <<>>, Attempt(s, q, <<Eof>>),
           Goes(s, StdoutClosed([r EXCEPT !.pc = "stderr"])), UNCHANGED <<prog, open>>
    PROVE  IInv'
<1>0. /\ Good(s, r, a, q, o, x, z, p, c) /\ r \in IO /\ a \in Prog /\ x \in BOOLEAN /\ o \in Seq(Msg)
      /\ (~p => ~z.stdin) /\ r = io[s] /\ a = prog[s]
      /\ Child(r, a) /\ Control(s, r, x, p) /\ Pipes(r, a, c.prefix)
  BY DEF Here, Good
<1>1. r.pc \in Inside /\ x = TRUE /\ r.kind \notin NoLoop /\ ~r.died /\ r.pc # "returned"
  BY <1>0 DEF Inside, Control, NoLoop
<1>2. PICK r0 : r0 = [r EXCEPT !.pc = "stderr"]
  OBVIOUS
<1>3. r0 \in IO
  BY <1>0, <1>2, ZenonT(30) DEF IO, Phase
<1>4. OnlyOn(r, r0) /\ r0.pc = "stderr" /\ r0.rev = r.rev
  BY <1>0, <1>2 DEF OnlyOn, IO
<1>5. PICK r2 : r2 = StdoutClosed(r0)
  OBVIOUS
<1>6. /\ r2 \in IO /\ SameBut(r0, r2) /\ ~r2.stdout
      /\ r2.single = r0.single /\ r2.sigusr1 = r0.sigusr1
      /\ r2.stdin = IF "stdout" \in r0.mode THEN FALSE ELSE r0.stdin
  BY <1>3, <1>5, Closing
<1>7. Eof \in Msg /\ Eof.type = "EOF"
  BY MsgParts
<1>8. PICK o2 : /\ (p /\ o2 = Append(o, Eof)) \/ (~p /\ o2 = o)
                /\ ring' = [y \in Side |-> IF y = s THEN q ELSE o2]
  BY Attempted, SMT
<1>9. Step(s, r2, a, q, o2, x)
  <2>1. Goes(s, r2) /\ UNCHANGED <<prog, open>>
    BY <1>2, <1>5
  <2> QED BY <1>8, <2>1, WriteStep
<1>10. Control(s, r2, x, p)
  BY <1>1, <1>4, <1>6 DEF Control, SameBut, OnlyOn, NoLoop
<1>11. Child(r2, a)
  <2>1. r2.kind = r.kind /\ r2.died = r.died /\ r2.local_status = r.local_status /\ r2.pc # "returned"
    BY <1>4, <1>6 DEF SameBut, OnlyOn
  <2> QED BY <1>0, <2>1 DEF Child
<1>12. Receives(r, a, q, r2, a, q)
  BY <1>0, <1>1, <1>4, <1>6 DEF Receives, Rests, SameBut, OnlyOn, Left
<1>13. Plain(r, a, o, z, r2, a, o2, Eof)
  <2>1. /\ "stdin" \in r.rev => ~a.rd
        /\ ~a.rd => a.in = <<>>
        /\ r.sigusr1 \/ (r.kind = "process" /\ r.single) => a.switched
        /\ a.switched => r.kind = "process"
    BY <1>0 DEF Pipes
  <2>2. ~z.stdin \/ (o2 = Append(o, Eof) /\ Eof.type = "EOF")
    BY <1>0, <1>7, <1>8
  <2>3. o2 = o \/ o2 = Append(o, Eof)
    BY <1>8
  <2> QED BY <1>1, <1>4, <1>6, <1>7, <2>1, <2>2, <2>3, SMT DEF Plain, SameBut, OnlyOn
<1>14. Timely(r, o, r2, a, o2, Eof)
  <2>1. ~a.switched => a.out = <<>>
    BY <1>0 DEF Out, OneSocket, HasPid, Pipes
  <2>2. Silent(r2)
    BY <1>6 DEF Silent
  <2> QED BY <1>7, <2>1, <2>2 DEF Timely
<1> QED BY <1>0, <1>6, <1>9, <1>10, <1>11, <1>12, <1>13, <1>14, PlainStep, SMTT(30)

\* handle_input_v2()
LEMMA InputStep ==
    ASSUME IInv, NEW s \in Side, handle_input_v2(s)
    PROVE  IInv'
<1>1. PICK r, a, q, o, x, z, p, c : Here(s, r, a, q, o, x, z, p, c)
  BY Named
<1>e. r = io[s] /\ a = prog[s] /\ q = ring[s] /\ o = ring[Other(s)] /\ p = open[Other(s)]
  BY <1>1 DEF Here
<1>0. /\ Good(s, r, a, q, o, x, z, p, c) /\ r \in IO /\ a \in Prog /\ Pipes(r, a, c.prefix)
      /\ r.pc = "stdout" /\ r.prefix = 0
  BY <1>1 DEF Here, Good, handle_input_v2
<1>o. PICK one \in Status : one = 1
  BY SMT DEF Status
<1>2. ASSUME r.stdout, Out(s) # <<>>, Taken(s), 
             \/ Sent(s, Data(Head(Out(s)))) /\ UNCHANGED <<io, open>>
             \/ SendFails(s) /\ handle_vchan_error(s)
      PROVE  IInv'
  <2>1. PICK m : m = Data(Head(Out(s)))
    OBVIOUS
  <2>2. PICK v : v = Ended(r, one, TRUE)
    OBVIOUS
  <2>3. v \in IO /\ Stopped(r, v) /\ v.ret = one /\ v.died
    BY <1>0, <2>2, DeathParts
  <2>4. PICK r2, o2, x2 :
           /\ r2 \in IO /\ Said(r, o, x, p, r2, o2, x2, m)
           /\ Goes(s, r2) \/ (UNCHANGED io /\ r2 = r)
           /\ ring' = [y \in Side |-> IF y = s THEN q ELSE o2] \/ (UNCHANGED ring /\ o2 = o)
           /\ open' = [open EXCEPT ![s] = x2] \/ (UNCHANGED open /\ x2 = x)
    <3>1. CASE Sent(s, Data(Head(Out(s)))) /\ UNCHANGED <<io, open>>
      <4>1. PICK o2 : o2 = Append(o, m)
        OBVIOUS
      <4>2. Sent(s, m)
        BY <2>1, <3>1
      <4>3. ring' = [y \in Side |-> IF y = s THEN q ELSE o2]
        BY <1>1, <4>1, <4>2, SentStep, SMT
      <4>4. Said(r, o, x, p, r, o2, x, m)
        BY <4>1 DEF Said
      <4> QED BY <1>0, <3>1, <4>3, <4>4
    <3>2. CASE SendFails(s) /\ handle_vchan_error(s)
      <4>1. Goes(s, v) /\ open' = [open EXCEPT ![s] = FALSE]
        BY <1>e, <1>o, <2>2, <3>2 DEF handle_vchan_error
      <4>2. UNCHANGED ring /\ ~p
        BY <1>e, <3>2 DEF SendFails, IsOpen
      <4>3. v.ret # 0
        BY <1>o, <2>3, SMT
      <4>4. Said(r, o, x, p, v, o, FALSE, m)
        BY <2>3, <4>2, <4>3 DEF Said
      <4> QED BY <2>3, <4>1, <4>2, <4>4
    <3> QED BY <1>2, <3>1, <3>2
  <2>5. CASE OneSocket(s)
    <3>1. PICK a2 : a2 = [a EXCEPT !.sock = Tail(@)]
      OBVIOUS
    <3>2. prog' = [prog EXCEPT ![s] = a2] /\ a.sock # <<>> /\ m = Data(Head(a.sock))
      BY <1>2, <1>e, <2>1, <2>5, <3>1 DEF Taken, Out
    <3>3. a.switched
      BY <1>0, <1>e, <2>5 DEF Pipes, OneSocket, HasPid
    <3>4. a.sock \in Seq(Chunk)
      BY <1>0 DEF Prog
    <3>5. Tail(a.sock) \in Seq(Chunk) /\ Head(a.sock) \in Chunk
      BY <3>2, <3>4, SMT
    <3>6. a2 \in Prog
      BY <1>0, <3>1, <3>5 DEF Prog
    <3>7. SameBelow(a, a2)
      BY <1>0, <3>1 DEF Prog, SameBelow
    <3>8. m \in Msg /\ m.type = "DATA"
      BY <3>2, <3>5, MsgParts
    <3>9. Step(s, r2, a2, q, o2, x2)
      BY <1>1, <2>4, <3>2, WriteStep
    <3> QED BY <1>0, <1>1, <2>4, <3>3, <3>6, <3>7, <3>8, <3>9, SocketDataStep
  <2>6. CASE ~OneSocket(s)
    <3>1. PICK a2 : a2 = [a EXCEPT !.out = Tail(@)]
      OBVIOUS
    <3>2. prog' = [prog EXCEPT ![s] = a2] /\ a.out # <<>> /\ m = Data(Head(a.out))
      BY <1>2, <1>e, <2>1, <2>6, <3>1 DEF Taken, Out
    <3>3. a.out \in Seq(Chunk)
      BY <1>0 DEF Prog
    <3>4. Tail(a.out) \in Seq(Chunk) /\ Head(a.out) \in Chunk
      BY <3>2, <3>3, SMT
    <3>5. a2 \in Prog
      BY <1>0, <3>1, <3>4 DEF Prog
    <3>6. SameBelow(a, a2) /\ a2.out = Tail(a.out)
      BY <1>0, <3>1 DEF Prog, SameBelow
    <3>7. m \in Msg /\ m.type = "DATA"
      BY <3>2, <3>4, MsgParts
    <3>8. Step(s, r2, a2, q, o2, x2)
      BY <1>1, <2>4, <3>2, WriteStep
    <3>9. CASE a.switched
      BY <1>0, <1>1, <2>4, <3>5, <3>6, <3>7, <3>8, <3>9, SocketDataStep
    <3>10. CASE ~a.switched
      BY <1>0, <1>1, <1>2, <2>4, <3>2, <3>5, <3>6, <3>8, <3>10, PipeDataStep
    <3> QED BY <3>9, <3>10
  <2> QED BY <2>5, <2>6
<1>3. ASSUME r.stdout, Out(s) = <<>>, Attempt(s, ring[s], <<Eof>>),
             Goes(s, StdoutClosed([io[s] EXCEPT !.pc = "stderr"])), UNCHANGED <<prog, open>>
      PROVE  IInv'
  <2>1. Attempt(s, q, <<Eof>>) /\ Goes(s, StdoutClosed([r EXCEPT !.pc = "stderr"]))
    BY <1>3, <1>e
  <2> QED BY <1>0, <1>1, <1>3, <2>1, OutEndStep
<1>4. ASSUME handle_vchan_error(s), UNCHANGED <<prog, ring>> PROVE IInv'
  <2>1. Goes(s, Ended(r, one, TRUE)) /\ open' = [open EXCEPT ![s] = FALSE]
    BY <1>4, <1>e, <1>o DEF handle_vchan_error
  <2>2. one # 0 /\ r.pc # "returned"
    BY <1>0, <1>o, SMT
  <2> QED BY <1>1, <1>4, <2>1, <2>2, DeathStep
<1>5. \/ /\ r.stdout /\ Out(s) # <<>> /\ Taken(s)
         /\ \/ Sent(s, Data(Head(Out(s)))) /\ UNCHANGED <<io, open>>
            \/ SendFails(s) /\ handle_vchan_error(s)
      \/ /\ r.stdout /\ Out(s) = <<>> /\ Attempt(s, ring[s], <<Eof>>)
         /\ Goes(s, StdoutClosed([io[s] EXCEPT !.pc = "stderr"])) /\ UNCHANGED <<prog, open>>
      \/ handle_vchan_error(s) /\ UNCHANGED <<prog, ring>>
  BY <1>e DEF handle_input_v2
<1> QED BY <1>2, <1>3, <1>4, <1>5

-----------------------------------------------------------------------------
(* The programs *)

\* A program reads, or closes a descriptor.
LEMMA ProgGets ==
    ASSUME IInv, NEW s \in Side, NEW r, NEW a, NEW q, NEW o, NEW x, NEW z, NEW p, NEW c,
           Here(s, r, a, q, o, x, z, p, c), NEW a2 \in Prog, ProgStep, prog' = [prog EXCEPT ![s] = a2],
           a2.st = a.st, a2.code = a.code, a2.out = a.out, a2.written = a.written, a2.switched = a.switched,
           a2.rd => a.rd,
           ~a2.rd => a2.in = <<>>,
           \/ a2.got = a.got /\ a2.in = a.in
           \/ a2.got = a.got \o a.in /\ a2.in = <<>> /\ a2.rd = a.rd
           \/ a2.got = a.got /\ a2.in = <<>> /\ ~a2.rd
    PROVE  IInv'
<1>1. r \in IO /\ Control(s, r, x, p)
  BY DEF Here, Good
<1>2. Gets(r, a, r, a2)
  BY DEF Gets
<1>3. Receives(r, a, q, r, a2, q)
  BY DEF Receives, Rests, Moves
<1>4. Step(s, r, a2, q, o, x)
  BY WriteStep DEF ProgStep
<1> QED BY <1>1, <1>2, <1>3, <1>4, GetStep

\* The steps of a program that reads, or closes a descriptor.
LEMMA ProgReadStep ==
    ASSUME IInv, NEW s \in Side, prog_read(s) \/ prog_close_stdout(s) \/ prog_close_stdin(s) \/ prog_close_stderr(s)
    PROVE  IInv'
<1>1. PICK r, a, q, o, x, z, p, c : Here(s, r, a, q, o, x, z, p, c)
  BY Named
<1>0. a \in Prog /\ a = prog[s] /\ (~a.rd => a.in = <<>>)
  BY <1>1 DEF Here, Good, Pipes
<1>2. CASE prog_read(s)
  <2>1. PICK a2 : a2 = [a EXCEPT !.got = @ \o a.in, !.in = <<>>]
    OBVIOUS
  <2>2. a2 \in Prog
    <3>1. a.got \o a.in \in Seq(Chunk) /\ <<>> \in Seq(Chunk)
      <4>1. a.got \in Seq(Chunk) /\ a.in \in Seq(Chunk)
        BY <1>0 DEF Prog
      <4> QED BY <4>1, SMT
    <3> QED BY <1>0, <2>1, <3>1 DEF Prog
  <2>3. /\ a2.st = a.st /\ a2.code = a.code /\ a2.out = a.out /\ a2.written = a.written
        /\ a2.switched = a.switched /\ a2.rd = a.rd /\ a2.got = a.got \o a.in /\ a2.in = <<>>
    BY <1>0, <2>1 DEF Prog
  <2>4. prog' = [prog EXCEPT ![s] = a2] /\ ProgStep
    BY <1>0, <1>2, <2>1 DEF prog_read
  <2> QED BY <1>1, <2>2, <2>3, <2>4, ProgGets
<1>3. CASE prog_close_stdout(s)
  <2>1. PICK a2 : a2 = [a EXCEPT !.wr = FALSE]
    OBVIOUS
  <2>2. a2 \in Prog
    BY <1>0, <2>1 DEF Prog
  <2>3. /\ a2.st = a.st /\ a2.code = a.code /\ a2.out = a.out /\ a2.written = a.written
        /\ a2.switched = a.switched /\ a2.rd = a.rd /\ a2.got = a.got /\ a2.in = a.in
    BY <1>0, <2>1 DEF Prog
  <2>4. prog' = [prog EXCEPT ![s] = a2] /\ ProgStep
    BY <1>0, <1>3, <2>1 DEF prog_close_stdout
  <2> QED BY <1>0, <1>1, <2>2, <2>3, <2>4, ProgGets
<1>4. CASE prog_close_stdin(s)
  <2>1. PICK a2 : a2 = [a EXCEPT !.rd = FALSE, !.in = <<>>]
    OBVIOUS
  <2>2. a2 \in Prog
    <3>1. <<>> \in Seq(Chunk)
      BY SMT
    <3> QED BY <1>0, <2>1, <3>1 DEF Prog
  <2>3. /\ a2.st = a.st /\ a2.code = a.code /\ a2.out = a.out /\ a2.written = a.written
        /\ a2.switched = a.switched /\ ~a2.rd /\ a2.got = a.got /\ a2.in = <<>>
    BY <1>0, <2>1 DEF Prog
  <2>4. prog' = [prog EXCEPT ![s] = a2] /\ ProgStep
    BY <1>0, <1>4, <2>1 DEF prog_close_stdin
  <2> QED BY <1>1, <2>2, <2>3, <2>4, ProgGets
<1>5. CASE prog_close_stderr(s)
  <2>1. PICK a2 : a2 = [a EXCEPT !.err = FALSE]
    OBVIOUS
  <2>2. a2 \in Prog
    BY <1>0, <2>1 DEF Prog
  <2>3. /\ a2.st = a.st /\ a2.code = a.code /\ a2.out = a.out /\ a2.written = a.written
        /\ a2.switched = a.switched /\ a2.rd = a.rd /\ a2.got = a.got /\ a2.in = a.in
    BY <1>0, <2>1 DEF Prog
  <2>4. prog' = [prog EXCEPT ![s] = a2] /\ ProgStep
    BY <1>0, <1>5, <2>1 DEF prog_close_stderr
  <2> QED BY <1>0, <1>1, <2>2, <2>3, <2>4, ProgGets
<1> QED BY <1>2, <1>3, <1>4, <1>5

\* A program that has a child's pid, or one socket, goes on: nothing is sent.
LEMMA ProgPlain ==
    ASSUME IInv, NEW s \in Side, NEW r, NEW a, NEW q, NEW o, NEW x, NEW z, NEW p, NEW c,
           Here(s, r, a, q, o, x, z, p, c), r.kind = "process", NEW r2 \in IO, NEW a2 \in Prog,
           OnlyOn([r EXCEPT !.sigusr1 = r2.sigusr1], r2), r2.rev = r.rev, r2.sigusr1 => r.sigusr1 \/ a2.switched,
           Control(s, r2, x, p), Child(r2, a2), Receives(r, a, q, r2, a2, q),
           ~a2.rd => a2.in = <<>>,
           a.switched => a2.switched,
           ~a2.switched => a2.written = a.written /\ a2.out = a.out,
           r2.pc = r.pc \/ (r.pc # "returned" /\ r2.pc # "returned"),
           a.st # "reaped" \/ (a2.st = a.st /\ a2.code = a.code),
           a2.rd => a.rd,
           Step(s, r2, a2, q, o, x)
    PROVE  IInv'
<1>0. /\ Good(s, r, a, q, o, x, z, p, c) /\ r \in IO /\ a \in Prog /\ x \in BOOLEAN /\ Pipes(r, a, c.prefix)
      /\ o \in Seq(Msg)
  BY DEF Here, Good
<1>1. Eof \in Msg /\ Eof.type = "EOF"
  BY MsgParts
<1>2. o # Append(o, Eof)
  BY <1>0, <1>1, Appended, SMT
<1>3. /\ r2.call = r.call /\ r2.kind = r.kind /\ r2.mode = r.mode /\ r2.prefix = r.prefix
      /\ r2.stdout = r.stdout /\ r2.single = r.single
  BY <1>0 DEF OnlyOn, IO
<1>4. Announced(r2) => Announced(r)
  BY <1>3 DEF Announced
<1>5. Plain(r, a, o, z, r2, a2, o, Eof)
  <2>1. /\ "stdin" \in r.rev => ~a.rd
        /\ r.sigusr1 \/ (r.kind = "process" /\ r.single) => a.switched
    BY <1>0 DEF Pipes
  <2> QED BY <1>1, <1>3, <1>4, <2>1 DEF Plain
<1>6. Timely(r, o, r2, a2, o, Eof)
  BY <1>2 DEF Timely
<1> QED BY <1>0, <1>5, <1>6, PlainStep

\* A child exits.
LEMMA ProgExitStep ==
    ASSUME IInv, NEW s \in Side, NEW e \in ExitCodes, prog_exit(s, e)
    PROVE  IInv'
<1>1. PICK r, a, q, o, x, z, p, c : Here(s, r, a, q, o, x, z, p, c)
  BY Named
<1>0. /\ r \in IO /\ a \in Prog /\ r = io[s] /\ a = prog[s] /\ Control(s, r, x, p) /\ Child(r, a)
      /\ r.kind = "process" /\ a.st = "running" /\ e \in 0 .. 255
  BY <1>1, IOAssumption DEF Here, Good, prog_exit, HasPid, Alive
<1>2. PICK a2 : a2 = [a EXCEPT !.st = "zombie", !.code = e, !.in = <<>>, !.rd = FALSE, !.wr = FALSE, !.err = FALSE]
  OBVIOUS
<1>3. a2 \in Prog
  <2>1. <<>> \in Seq(Chunk) /\ e \in Status
    BY <1>0, SMT DEF Status
  <2> QED BY <1>0, <1>2, <2>1 DEF Prog
<1>4. /\ a2.st = "zombie" /\ a2.code = e /\ a2.out = a.out /\ a2.written = a.written
      /\ a2.switched = a.switched /\ ~a2.rd /\ a2.got = a.got /\ a2.in = <<>>
  BY <1>0, <1>2 DEF Prog
<1>5. prog' = [prog EXCEPT ![s] = a2] /\ UNCHANGED <<io, ring, open>>
  BY <1>0, <1>2 DEF prog_exit, ProgStep
<1>6. Step(s, r, a2, q, o, x)
  BY <1>1, <1>5, WriteStep
<1>7. Child(r, a2)
  BY <1>0, <1>4 DEF Child
<1>8. Receives(r, a, q, r, a2, q)
  BY <1>4 DEF Receives, Moves
<1>9. OnlyOn([r EXCEPT !.sigusr1 = r.sigusr1], r)
  BY <1>0 DEF OnlyOn, IO
<1> QED BY <1>0, <1>1, <1>3, <1>4, <1>6, <1>7, <1>8, <1>9, ProgPlain

\* A child asks for one socket.
LEMMA ProgSwitchStep ==
    ASSUME IInv, NEW s \in Side, prog_sigusr1(s)
    PROVE  IInv'
<1>1. PICK r, a, q, o, x, z, p, c : Here(s, r, a, q, o, x, z, p, c)
  BY Named
<1>0. /\ r \in IO /\ a \in Prog /\ r = io[s] /\ a = prog[s] /\ Control(s, r, x, p) /\ Child(r, a)
      /\ r.kind = "process" /\ (~a.rd => a.in = <<>>) /\ r.pc # "returned"
  BY <1>1 DEF Here, Good, Pipes, prog_sigusr1, HasPid
<1>2. PICK a2 : a2 = [a EXCEPT !.switched = TRUE]
  OBVIOUS
<1>3. a2 \in Prog
  BY <1>0, <1>2 DEF Prog
<1>4. /\ a2.st = a.st /\ a2.code = a.code /\ a2.out = a.out /\ a2.written = a.written
      /\ a2.switched /\ a2.rd = a.rd /\ a2.got = a.got /\ a2.in = a.in
  BY <1>0, <1>2 DEF Prog
<1>5. PICK u : u = [r EXCEPT !.sigusr1 = TRUE]
  OBVIOUS
<1>6. PICK v : v = [r EXCEPT !.sigusr1 = TRUE, !.pc = "top"]
  OBVIOUS
<1>7. u \in IO /\ v \in IO
  BY <1>0, <1>5, <1>6, ZenonT(30) DEF IO, Phase
<1>8. PICK r2 \in {u, v} : Goes(s, r2) /\ (r2 = u \/ r.pc = "poll")
  BY <1>0, <1>5, <1>6 DEF prog_sigusr1
<1>9. /\ r2 \in IO /\ OnlyOn([r EXCEPT !.sigusr1 = r2.sigusr1], r2) /\ r2.rev = r.rev
      /\ (r2.pc = r.pc \/ (r.pc = "poll" /\ r2.pc = "top")) /\ r2.ret = r.ret
  <2>1. CASE r2 = u
    <3>1. r2 = [r EXCEPT !.sigusr1 = TRUE] /\ r2.sigusr1 = TRUE
      BY <1>0, <1>5, <2>1 DEF IO
    <3> QED BY <1>0, <1>7, <2>1, <3>1 DEF OnlyOn, IO
  <2>2. CASE r2 = v /\ r.pc = "poll"
    <3>1. r2 = [r EXCEPT !.sigusr1 = TRUE, !.pc = "top"] /\ r2.sigusr1 = TRUE
      BY <1>0, <1>6, <2>2 DEF IO
    <3> QED BY <1>0, <1>7, <2>2, <3>1, SMT DEF OnlyOn, IO
  <2> QED BY <1>8, <2>1, <2>2
<1>10. /\ r2.kind = r.kind /\ r2.stdin = r.stdin /\ r2.stdout = r.stdout /\ r2.stdin_buf = r.stdin_buf
       /\ r2.died = r.died /\ r2.local_status = r.local_status /\ r2.remote_status = r.remote_status
  BY <1>0, <1>9 DEF OnlyOn, IO
<1>11. Control(s, r2, x, p)
  BY <1>0, <1>9, <1>10 DEF Control, NoLoop
<1>12. Child(r2, a2)
  BY <1>0, <1>4, <1>9, <1>10, SMTT(30) DEF Child
<1>13. Receives(r, a, q, r2, a2, q)
  BY <1>4, <1>9, <1>10 DEF Receives, Rests, Left
<1>14. Step(s, r2, a2, q, o, x)
  <2>1. prog' = [prog EXCEPT ![s] = a2] /\ UNCHANGED <<ring, open>>
    BY <1>0, <1>2 DEF prog_sigusr1
  <2> QED BY <1>1, <1>8, <2>1, WriteStep
<1>15. r2.pc = r.pc \/ (r.pc # "returned" /\ r2.pc # "returned")
  BY <1>9
<1> QED BY <1>0, <1>1, <1>3, <1>4, <1>9, <1>11, <1>12, <1>13, <1>14, <1>15, ProgPlain, SMTT(30)

\* A program writes to its stdout pipe.
LEMMA PipeWriteStep ==
    ASSUME IInv, NEW s \in Side, NEW r, NEW a, NEW q, NEW o, NEW x, NEW z, NEW p, NEW c,
           Here(s, r, a, q, o, x, z, p, c), ~a.switched, r.kind \notin NoLoop, r.stdout, a.out = <<>>,
           NEW a2 \in Prog, a2.out = <<a.written + 1>>, a2.written = a.written + 1,
           a2.st = a.st, a2.code = a.code, a2.in = a.in, a2.got = a.got, a2.rd = a.rd, a2.switched = a.switched,
           Step(s, r, a2, q, o, x)
    PROVE  IInv'
<1>0. /\ Good(s, r, a, q, o, x, z, p, c) /\ r \in IO /\ a \in Prog /\ x \in BOOLEAN /\ Pipes(r, a, c.prefix)
      /\ o \in Seq(Msg) /\ Fixed(s, r, c) /\ Control(s, r, x, p) /\ Child(r, a)
  BY DEF Here, Good
<1>1. a.written \in Nat /\ Some(a.out) = 0 /\ Some(a2.out) = 1
  BY <1>0, SMT DEF Prog, Some
<1>2. Emitted(r, a2, c.prefix) = Emitted(r, a, c.prefix)
  BY <1>1, SMT DEF Emitted
<1>3. Eof \in Msg /\ Eof.type = "EOF"
  BY MsgParts
<1>4. Pipes(r, a2, c.prefix)
  <2>1. /\ "stdin" \in r.rev => ~a2.rd
        /\ ~a2.rd => a2.in = <<>>
        /\ r.sigusr1 \/ (r.kind = "process" /\ r.single) => a2.switched
        /\ a2.switched => r.kind = "process"
    BY <1>0 DEF Pipes
  <2>2. a2.out \in {<<>>, <<a2.written>>} /\ Some(a2.out) <= a2.written
    BY <1>1, SMT
  <2>3. r.prefix > 0 => a2.written - Some(a2.out) = c.prefix
    BY <1>0, <1>1, SMT DEF Pipes
  <2> QED BY <2>1, <2>2, <2>3 DEF Pipes
<1>5. Child(r, a2)
  BY <1>0 DEF Child
<1>6. Receives(r, a, q, r, a2, q)
  BY DEF Receives, Rests
<1>7. Sends(s, r, a, o, r, a2, o, Eof, z, c.prefix)
  <2>1. Quiet(r, a, o, r, a2, o, z, c.prefix)
    BY <1>2 DEF Quiet
  <2>2. o # Append(o, Eof)
    BY <1>0, <1>3, Appended, SMT
  <2>3. ~Silent(r)
    BY DEF Silent
  <2>4. Answers(r, a, o, r, a2, o, Eof, z)
    BY <2>2, <2>3 DEF Answers
  <2> QED BY <1>3, <2>1, <2>4 DEF Sends
<1>8. Fine(s, r, a, q, o, x, z, p, c, r, a2, q, o, x, Eof)
  BY <1>0, <1>4, <1>5, <1>6, <1>7 DEF Fine
<1> QED BY <1>8, FineStep

\* A program writes.
LEMMA ProgWriteStep ==
    ASSUME IInv, NEW s \in Side, prog_write(s)
    PROVE  IInv'
<1>1. PICK r, a, q, o, x, z, p, c : Here(s, r, a, q, o, x, z, p, c)
  BY Named
<1>0. /\ r \in IO /\ a \in Prog /\ r = io[s] /\ a = prog[s] /\ Control(s, r, x, p) /\ Child(r, a)
      /\ (~a.rd => a.in = <<>>) /\ r.kind \notin NoLoop /\ (a.switched => r.kind = "process")
  BY <1>1 DEF Here, Good, Pipes, prog_write, Alive, NoLoop
<1>2. PICK n : n = a.written + 1
  OBVIOUS
<1>3. n \in Nat /\ <<n>> \in Seq(Chunk)
  <2>1. a.written \in Nat
    BY <1>0 DEF Prog
  <2>2. n \in Chunk /\ n \in Nat
    BY <1>2, <2>1, SMT DEF Chunk
  <2> QED BY <2>2, SMT
<1>4. CASE a.switched
  <2>1. PICK a2 : a2 = [a EXCEPT !.sock = <<n>>, !.written = n]
    OBVIOUS
  <2>2. a2 \in Prog
    BY <1>0, <1>3, <2>1 DEF Prog
  <2>3. /\ a2.st = a.st /\ a2.code = a.code /\ a2.out = a.out
        /\ a2.switched = a.switched /\ a2.rd = a.rd /\ a2.got = a.got /\ a2.in = a.in
    BY <1>0, <2>1 DEF Prog
  <2>4. prog' = [prog EXCEPT ![s] = a2] /\ UNCHANGED <<io, ring, open>>
    BY <1>0, <1>2, <1>4, <2>1 DEF prog_write, ProgStep
  <2>5. Step(s, r, a2, q, o, x)
    BY <1>1, <2>4, WriteStep
  <2>6. Child(r, a2)
    BY <1>0, <2>3 DEF Child
  <2>7. Receives(r, a, q, r, a2, q)
    BY <2>3 DEF Receives, Rests
  <2>8. OnlyOn([r EXCEPT !.sigusr1 = r.sigusr1], r)
    BY <1>0 DEF OnlyOn, IO
  <2> QED BY <1>0, <1>1, <1>4, <2>2, <2>3, <2>5, <2>6, <2>7, <2>8, ProgPlain
<1>5. CASE ~a.switched
  <2>1. PICK a2 : a2 = [a EXCEPT !.out = <<n>>, !.written = n]
    OBVIOUS
  <2>2. a2 \in Prog
    BY <1>0, <1>3, <2>1 DEF Prog
  <2>3. /\ a2.st = a.st /\ a2.code = a.code /\ a2.out = <<n>> /\ a2.written = n
        /\ a2.switched = a.switched /\ a2.rd = a.rd /\ a2.got = a.got /\ a2.in = a.in
    BY <1>0, <2>1 DEF Prog
  <2>4. prog' = [prog EXCEPT ![s] = a2] /\ UNCHANGED <<io, ring, open>> /\ r.stdout /\ a.out = <<>>
    BY <1>0, <1>2, <1>5, <2>1 DEF prog_write, ProgStep
  <2>5. Step(s, r, a2, q, o, x)
    BY <1>1, <2>4, WriteStep
  <2> QED BY <1>0, <1>1, <1>2, <1>5, <2>2, <2>3, <2>4, <2>5, PipeWriteStep
<1> QED BY <1>4, <1>5

-----------------------------------------------------------------------------
(* The invariant *)

\* The two sides of a new call
FreshIO(r, c, k, m, n) ==
    /\ r \in IO /\ r.call = c /\ r.kind = k /\ r.mode = m /\ r.prefix = n /\ r.rev = {}
    /\ r.pc = IF k = "failed" THEN "stdout_eof" ELSE IF k = "just_exec" THEN "exit_code" ELSE "start"
    /\ r.stdin /\ r.stdout /\ (k = "process" => ~r.single) /\ r.stdin_buf = <<>>
    /\ r.local_status = NoStatus /\ r.remote_status = NoStatus /\ ~r.sigusr1 /\ ~r.died
FreshProg(a, n) ==
    /\ a \in Prog /\ a.st = "running" /\ a.in = <<>> /\ a.out = <<>> /\ a.got = <<>> /\ a.rd
    /\ ~a.switched /\ a.written = n

\* How the initial records are made.
LEMMA Fresh ==
    ASSUME NEW c \in CallType, NEW k \in {"process", "socket", "failed", "just_exec", "self", "selfsocket"},
           NEW m \in SUBSET {"stdin", "stdout"}, NEW n \in Nat
    PROVE  /\ \A e \in BOOLEAN : FreshIO([InitialIO(c, k, m, n) EXCEPT !.stderr = e], c, k, m, n)
           /\ FreshIO(InitialIO(c, k, m, n), c, k, m, n)
           /\ FreshProg(InitialProg(n), n)
<1>0. NoStatus \in Status /\ <<>> \in Seq(Chunk) /\ {} \in SUBSET {"stdin", "stdout", "stderr", "prefix"}
  BY SMT DEF Status
<1>1. PICK r : r = InitialIO(c, k, m, n)
  OBVIOUS
<1>2. FreshIO(r, c, k, m, n)
  <2>1. r \in IO
    BY <1>0, <1>1, SMT DEF InitialIO, IO, Phase
  <2>2. /\ r.call = c /\ r.kind = k /\ r.mode = m /\ r.prefix = n /\ r.rev = {}
        /\ r.pc = IF k = "failed" THEN "stdout_eof" ELSE IF k = "just_exec" THEN "exit_code" ELSE "start"
        /\ r.stdin /\ r.stdout /\ (k = "process" => ~r.single) /\ r.stdin_buf = <<>>
        /\ r.local_status = NoStatus /\ r.remote_status = NoStatus /\ ~r.sigusr1 /\ ~r.died
    BY <1>1 DEF InitialIO
  <2> QED BY <2>1, <2>2 DEF FreshIO
<1>3. ASSUME NEW e \in BOOLEAN PROVE FreshIO([r EXCEPT !.stderr = e], c, k, m, n)
  <2>1. PICK r2 : r2 = [r EXCEPT !.stderr = e]
    OBVIOUS
  <2>2. r \in IO
    BY <1>2 DEF FreshIO
  <2>3. r2 \in IO
    BY <2>1, <2>2 DEF IO
  <2>4. /\ r2.call = r.call /\ r2.kind = r.kind /\ r2.mode = r.mode /\ r2.prefix = r.prefix /\ r2.rev = r.rev
        /\ r2.pc = r.pc /\ r2.stdin = r.stdin /\ r2.stdout = r.stdout /\ r2.single = r.single
        /\ r2.stdin_buf = r.stdin_buf /\ r2.local_status = r.local_status
        /\ r2.remote_status = r.remote_status /\ r2.sigusr1 = r.sigusr1 /\ r2.died = r.died
    BY <2>1, <2>2 DEF IO
  <2>5. FreshIO(r2, c, k, m, n)
    BY <1>2, <2>3, <2>4 DEF FreshIO
  <2> QED BY <2>1, <2>5
<1>4. FreshProg(InitialProg(n), n)
  BY <1>0 DEF InitialProg, FreshProg, Prog
<1> QED BY <1>1, <1>2, <1>3, <1>4

\* Nothing is on its way in the beginning.
LEMMA FreshFlow ==
    ASSUME NEW r, NEW a, NEW h, h = 0, r.stdin_buf = <<>>, a.got = <<>>, a.in = <<>>
    PROVE  Flow(r, a, <<>>, h)
<1>1. Held(a) = 0 /\ Some(r.stdin_buf) = 0 /\ Held(a) + Some(r.stdin_buf) = 0
  BY SMT DEF Held, Some
<1>2. Window(<<>>, 0, 0)
  BY SMT DEF Window
<1> QED BY <1>1, <1>2, SMT DEF Flow

\* What the invariant says of a side
FreshInv(s, r, a, c) ==
    /\ Fixed(s, r, c) /\ Control(s, r, TRUE, TRUE) /\ Child(r, a) /\ Pipes(r, a, c.prefix)
    /\ Emitted(r, a, c.prefix) = 0
\* ... holds of a side of a new call.
LEMMA FreshSide ==
    ASSUME NEW s \in Side, NEW c \in CallType, NEW k, NEW m, NEW n \in Nat, NEW r, NEW a,
           s = "service" => k = c.service /\ m = c.mode /\ n = 0,
           s # "service" => k = c.client /\ m = {} /\ n = c.prefix,
           FreshIO(r, c, k, m, n), FreshProg(a, n)
    PROVE  FreshInv(s, r, a, c)
<1>0. c.prefix \in Nat /\ (s # "service" => k \notin NoLoop) /\ (s = "service" => k # "selfsocket")
  BY DEF CallType, NoLoop
<1>1. Fixed(s, r, c)
  BY <1>0, SMT DEF Fixed, FreshIO
<1>2. Control(s, r, TRUE, TRUE)
  BY DEF Control, FreshIO, NoLoop
<1>3. Child(r, a)
  BY DEF Child, FreshIO, FreshProg
<1>4. Some(a.out) = 0
  BY DEF FreshProg, Some
<1>5. Pipes(r, a, c.prefix)
  <2>1. /\ "stdin" \notin r.rev /\ a.rd /\ ~r.sigusr1 /\ (r.kind = "process" => ~r.single)
        /\ ~a.switched /\ a.out = <<>>
    BY DEF FreshIO, FreshProg
  <2>2. a.written = n /\ r.prefix = n /\ r.kind = k /\ (k \in NoLoop => n = 0) /\ (n > 0 => n = c.prefix)
    BY <1>0, SMT DEF FreshIO, FreshProg
  <2> QED BY <1>4, <2>1, <2>2, SMT DEF Pipes
<1>6. Emitted(r, a, c.prefix) = 0
  BY <1>0, <1>4, SMT DEF Emitted, FreshIO, FreshProg
<1> QED BY <1>1, <1>2, <1>3, <1>5, <1>6 DEF FreshInv

\* The invariant holds when a call starts.
LEMMA InitInv ==
    ASSUME Init
    PROVE  IInv
<1>1. PICK c \in Calls :
         /\ io = [s \in Side |->
                     IF s = "service"
                     THEN [InitialIO(c, c.service, c.mode, 0) EXCEPT !.stderr = c.stderr]
                     ELSE InitialIO(c, c.client, {}, c.prefix)]
         /\ prog = [s \in Side |-> InitialProg(IF s = "client" THEN c.prefix ELSE 0)]
  BY DEF Init
<1>2. c \in CallType
  BY IOAssumption
<1>3. /\ c.service \in {"process", "socket", "failed", "just_exec", "self", "selfsocket"}
      /\ c.client \in {"process", "socket", "failed", "just_exec", "self", "selfsocket"}
      /\ c.mode \in SUBSET {"stdin", "stdout"} /\ {} \in SUBSET {"stdin", "stdout"}
      /\ c.prefix \in Nat /\ 0 \in Nat /\ c.stderr \in BOOLEAN
  BY <1>2 DEF CallType
<1>4. PICK zero \in Nat : zero = 0
  OBVIOUS
<1>5. PICK none \in SUBSET {"stdin", "stdout"} : none = {}
  OBVIOUS
<1>6. PICK r : r = io["service"]
  OBVIOUS
<1>7. PICK t : t = io["client"]
  OBVIOUS
<1>8. PICK a : a = prog["service"]
  OBVIOUS
<1>9. PICK b : b = prog["client"]
  OBVIOUS
<1>10. FreshIO(r, c, c.service, c.mode, zero) /\ FreshProg(a, zero)
  <2>1. r = [InitialIO(c, c.service, c.mode, zero) EXCEPT !.stderr = c.stderr] /\ a = InitialProg(zero)
    BY <1>1, <1>4, <1>6, <1>8 DEF Side
  <2>2. \A e \in BOOLEAN : FreshIO([InitialIO(c, c.service, c.mode, zero) EXCEPT !.stderr = e], c, c.service, c.mode, zero)
    BY <1>2, <1>3, Fresh
  <2>3. FreshProg(InitialProg(zero), zero)
    BY <1>2, <1>3, Fresh
  <2> QED BY <1>3, <2>1, <2>2, <2>3
<1>11. FreshIO(t, c, c.client, none, c.prefix) /\ FreshProg(b, c.prefix)
  <2>1. t = InitialIO(c, c.client, none, c.prefix) /\ b = InitialProg(c.prefix)
    BY <1>1, <1>5, <1>7, <1>9 DEF Side
  <2>2. FreshIO(InitialIO(c, c.client, none, c.prefix), c, c.client, none, c.prefix) /\ FreshProg(InitialProg(c.prefix), c.prefix)
    BY <1>2, <1>3, Fresh
  <2> QED BY <2>1, <2>2
<1>12. /\ Fixed("service", r, c) /\ Control("service", r, TRUE, TRUE) /\ Child(r, a) /\ Pipes(r, a, c.prefix)
       /\ Emitted(r, a, c.prefix) = 0
  <2>1. PICK s \in Side : s = "service"
    BY DEF Side
  <2>2. PICK k : k = c.service
    OBVIOUS
  <2>3. PICK m : m = c.mode
    OBVIOUS
  <2>4. FreshInv(s, r, a, c)
    BY <1>2, <1>4, <1>10, <2>1, <2>2, <2>3, FreshSide
  <2> QED BY <2>1, <2>4 DEF FreshInv
<1>13. /\ Fixed("client", t, c) /\ Control("client", t, TRUE, TRUE) /\ Child(t, b) /\ Pipes(t, b, c.prefix)
       /\ Emitted(t, b, c.prefix) = 0
  <2>1. PICK s \in Side : s = "client"
    BY DEF Side
  <2>2. PICK k : k = c.client
    OBVIOUS
  <2>3. PICK n \in Nat : n = c.prefix
    BY <1>3
  <2>4. FreshInv(s, t, b, c)
    <3>1. FreshIO(t, c, k, none, n) /\ FreshProg(b, n)
      BY <1>11, <2>2, <2>3
    <3>2. s # "service" /\ k = c.client /\ none = {} /\ n = c.prefix
      BY <1>5, <2>1, <2>2, <2>3
    <3> QED BY <1>2, <3>1, <3>2, FreshSide
  <2> QED BY <2>1, <2>4 DEF FreshInv
<1>14. Call = c /\ Other("service") = "client" /\ Other("client") = "service" /\ Side = {"service", "client"}
  BY <1>6, <1>10 DEF Call, FreshIO, Other, Side
<1>15. /\ ring["service"] = <<>> /\ ring["client"] = <<>> /\ open["service"] = TRUE /\ open["client"] = TRUE
  BY DEF Init, Side
<1>16. TypeOK
  <2>1. r \in IO /\ t \in IO /\ a \in Prog /\ b \in Prog
    BY <1>10, <1>11 DEF FreshIO, FreshProg
  <2>2. DOMAIN io = Side /\ DOMAIN prog = Side /\ io = [s \in Side |-> io[s]] /\ prog = [s \in Side |-> prog[s]]
    BY <1>1
  <2>3. \A s \in Side : io[s] \in IO /\ prog[s] \in Prog
    BY <1>6, <1>7, <1>8, <1>9, <1>14, <2>1
  <2>4. io \in [Side -> IO] /\ prog \in [Side -> Prog]
    BY <2>2, <2>3
  <2>5. <<>> \in Seq(Msg)
    BY SMT
  <2>6. ring \in [Side -> Seq(Msg)] /\ open \in [Side -> BOOLEAN]
    BY <2>5 DEF Init
  <2> QED BY <2>4, <2>6 DEF TypeOK
<1>17. SideInv("service") /\ SideInv("client")
  BY <1>6, <1>7, <1>8, <1>9, <1>12, <1>13, <1>14, <1>15 DEF SideInv
<1>18. FlowInv("service") /\ FlowInv("client")
  <2>1. PICK h : h = 0
    OBVIOUS
  <2>2. Flow(r, a, <<>>, h) /\ Flow(t, b, <<>>, h)
    BY <1>10, <1>11, <2>1, FreshFlow DEF FreshIO, FreshProg
  <2> QED BY <1>6, <1>7, <1>8, <1>9, <1>12, <1>13, <1>14, <1>15, <2>1, <2>2 DEF FlowInv
<1>19. AnswerInv
  <2>1. r.pc \notin {"stderr_eof", "exit_code"} \/ r.kind = "just_exec"
    BY <1>10, <1>11 DEF FreshIO
  <2>2. t.remote_status = NoStatus /\ t.stdin /\ r.stdout
    BY <1>10, <1>11 DEF FreshIO
  <2>3. Codes(r, a, t, <<>>)
    BY <2>2, SMT DEF Codes
  <2>4. Ends(r, t, <<>>)
    BY <2>1, <2>2, SMT DEF Ends, Announced
  <2>5. Whole(r, a, t, b, <<>>)
    BY <2>2, SMT DEF Whole
  <2> QED BY <1>6, <1>7, <1>8, <1>9, <1>15, <2>3, <2>4, <2>5 DEF AnswerInv
<1> QED BY <1>14, <1>16, <1>17, <1>18, <1>19 DEF IInv

\* Every step keeps the invariant.
LEMMA NextInv ==
    ASSUME IInv, [Next]_vars
    PROVE  IInv'
<1>1. ASSUME NEW s \in Side, Loop(s) PROVE IInv'
  BY <1>1, StartStep, TopStep, DrainedStep, PollStep, HupStep, FlushStep, RemoteStep, NothingStep,
     PrefixStep, InputStep, StderrStep, FinishStep, ReturnStep, NoLoopEofStep, NoLoopCodeStep DEF Loop
<1>2. ASSUME NEW s \in Side, Program(s) PROVE IInv'
  BY <1>2, ProgWriteStep, ProgReadStep, ProgExitStep, ProgSwitchStep DEF Program
<1>3. ASSUME NEW s \in Side, killed(s) PROVE IInv'
  BY <1>3, KilledStep
<1>4. CASE UNCHANGED vars
  <2>1. UNCHANGED io /\ UNCHANGED prog /\ UNCHANGED ring /\ UNCHANGED open
    BY <1>4 DEF vars
  <2>2. TypeOK' /\ (Call' = Call)
    BY <2>1 DEF IInv, TypeOK, Call
  <2>3. \A s \in Side : (SideInv(s) /\ FlowInv(s))'
    BY <2>1, <2>2 DEF IInv, SideInv, FlowInv
  <2>4. AnswerInv'
    BY <2>1 DEF IInv, AnswerInv
  <2> QED BY <2>2, <2>3, <2>4 DEF IInv
<1> QED BY <1>1, <1>2, <1>3, <1>4 DEF Next, Over

\* process_io() and handle_new_process_common() keep the invariant on both
\* sides of every call.
LEMMA Invariance == Spec => []IInv
<1>1. Init => IInv
  BY InitInv
<1>2. IInv /\ [Next]_vars => IInv'
  BY NextInv
<1> QED BY <1>1, <1>2, PTL DEF Spec

-----------------------------------------------------------------------------
(* What follows *)

\* The local variables of process_io(), the pipes and the rings have their types.
THEOREM TypeCorrect == Spec => []TypeOK
<1>1. IInv => TypeOK
  BY DEF IInv
<1> QED BY <1>1, Invariance, PTL

\* What a program reads is what the other one wrote, from the first chunk on
\* and in order: process_io() with its buffer loses, doubles and overtakes
\* nothing, for any ring and any amount of data.
THEOREM DataInOrder == Spec => []InOrder
<1>1. IInv => InOrder
  BY DEF IInv, InOrder, FlowInv, Flow
<1> QED BY <1>1, Invariance, PTL

\* A caller that returns with the exit code of the service has all its output.
THEOREM OutputIsComplete == Spec => []OutputComplete
<1>1. IInv => OutputComplete
  <2> SUFFICES ASSUME IInv, io["client"].pc = "returned", ~io["client"].died,
                      io["client"].remote_status # NoStatus, prog["client"].rd,
                      "stdin" \notin io["service"].mode, ~prog["service"].switched
               PROVE  Len(prog["client"].got \o prog["client"].in) = prog["service"].written
    BY DEF OutputComplete
  <2>1. PICK a : a = prog["client"]
    OBVIOUS
  <2>2. Held(a) = prog["service"].written
    BY <2>1 DEF IInv, AnswerInv, Whole
  <2>3. (\A i \in DOMAIN a.got : a.got[i] = i) /\ a.in \in {<<>>, <<Len(a.got) + 1>>}
    <3>1. FlowInv("client") /\ Other("client") = "service"
      BY DEF IInv, Side, Other
    <3> QED BY <2>1, <3>1 DEF FlowInv, Flow
  <2>4. a.got \in Seq(Chunk)
    <3>1. a \in Prog
      BY <2>1 DEF IInv, TypeOK, Side
    <3> QED BY <3>1 DEF Prog
  <2>5. PICK y : y = a.got \o a.in
    OBVIOUS
  <2>6. PICK g : g = a.got
    OBVIOUS
  <2>7. PICK x : x = a.in
    OBVIOUS
  <2>8. Len(y) = Len(g) + Some(x)
    BY <2>3, <2>4, <2>5, <2>6, <2>7, NextRead, ZenonT(30)
  <2> QED BY <2>1, <2>2, <2>5, <2>6, <2>7, <2>8 DEF Held
<1> QED BY <1>1, Invariance, PTL

\* The status that process_io() of the caller has of the service is the one the
\* service ended with, and it returns 0 only after an exit code 0.
THEOREM StatusCorrect == Spec => []SuccessIsReal
<1>1. IInv => SuccessIsReal
  <2> SUFFICES ASSUME IInv PROVE SuccessIsReal
    OBVIOUS
  <2>1. Control("client", io["client"], open["client"], open[Other("client")])
    BY DEF IInv, SideInv, Side
  <2>2. io["client"].remote_status # NoStatus => Known(io["service"], prog["service"], io["client"].remote_status)
    BY DEF IInv, AnswerInv, Codes
  <2> QED BY <2>1, <2>2 DEF SuccessIsReal, Control, Known
<1> QED BY <1>1, Invariance, PTL

\* MSG_DATA_EXIT_CODE is handled after the end of the output, also when the
\* service could not be started: the caller's program has its stdin closed.
THEOREM EndsInOrder == Spec => []EofBeforeExitCode
<1>1. IInv => EofBeforeExitCode
  BY DEF IInv, AnswerInv, Ends, EofBeforeExitCode
<1> QED BY <1>1, Invariance, PTL

\* process_io() returns only after waitpid(), with the status of its child.
THEOREM ChildrenCollected == Spec => []ChildCollected
<1>1. IInv => ChildCollected
  BY DEF IInv, SideInv, Child, ChildCollected, HasPid
<1> QED BY <1>1, Invariance, PTL

=============================================================================
