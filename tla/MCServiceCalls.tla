--------------------------- MODULE MCServiceCalls ---------------------------
(***************************************************************************)
(* Small instances of ServiceCalls: two VMs, 1 and 2, and two identifiers, *)
(* 3 and 4, for disposables.                                               *)
(***************************************************************************)
EXTENDS ServiceCalls, TLC

CONSTANTS c1, c2, c3

Vm(s, t) == [kind |-> "vm", source |-> s, target |-> t, disposable |-> FALSE,
             autostart |-> TRUE, wait |-> FALSE, kill |-> FALSE]
Disp(s, t) == [Vm(s, t) EXCEPT !.disposable = TRUE]
NoStart(s, t) == [Disp(s, t) EXCEPT !.autostart = FALSE]
ToDom0(s) == [Vm(s, 0) EXCEPT !.kind = "to_dom0"]
FromDom0(t) == [Vm(0, t) EXCEPT !.kind = "from_dom0"]

\* Three calls from one VM to another, the later ones with ports used before;
\* calls in both directions between two VMs, with a third one that needs a port
\* used before; a call the caller waits for, and qrexec-client's -k killing its
\* target; calls to and from dom0 that share the port table with a VM's; a
\* disposable that calls its caller, and ones that may not be started.
MCPlans ==
    {c1 :> Vm(1, 2) @@ c2 :> Vm(1, 2) @@ c3 :> Vm(1, 2),
     c1 :> Vm(1, 2) @@ c2 :> Vm(2, 1) @@ c3 :> Vm(1, 2),
     c1 :> [Vm(1, 2) EXCEPT !.wait = TRUE] @@ c2 :> [FromDom0(2) EXCEPT !.kill = TRUE]
       @@ c3 :> NoStart(1, 4),
     c1 :> Vm(1, 2) @@ c2 :> ToDom0(2) @@ c3 :> ToDom0(2),
     c1 :> Disp(1, 3) @@ c2 :> NoStart(2, 4) @@ c3 :> Vm(3, 1)}
=============================================================================
