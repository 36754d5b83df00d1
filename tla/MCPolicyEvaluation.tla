------------------------- MODULE MCPolicyEvaluation -------------------------
(* Rules, systems and requests for TLC.  src calls; vm halted; tpl is a       *)
(* template for disposables, tagged, and the default one of src in Systems.   *)
EXTENDS PolicyEvaluation

Domain(type, tags, template, default, running, guivm) ==
    [type |-> type, tags |-> tags, template_for_dispvms |-> template,
     default_dispvm |-> default, running |-> running, guivm |-> guivm]
System(default, guivm) ==
    [dom0 |-> Domain("AdminVM", {"t"}, FALSE, NoDispVM, TRUE, FALSE),
     src |-> Domain("AppVM", {GuiTag}, FALSE, default, TRUE, guivm),
     vm |-> Domain("AppVM", {"t", GuiTag}, FALSE, NoDispVM, FALSE, TRUE),
     tpl |-> Domain("TemplateVM", {"t"}, TRUE, NoDispVM, TRUE, TRUE)]
\* With "vm", the default disposable template is none.
Systems == {System("tpl", TRUE), System(NoDispVM, FALSE), System("vm", TRUE)}

AnyVM == Tok("@anyvm", "")
Wildcard == Tok("*", "")
Vm(n) == Tok("name", n)
Tag(t) == Tok("@tag:", t)
Type(t) == Tok("@type:", t)
DispTag(t) == Tok("@dispvm:@tag:", t)

Simple(target, action) == Rule("", "", AnyVM, target, action, None, None, TRUE)
Redirected(target, action, redirect) == Rule("", "", AnyVM, target, action, redirect, None, TRUE)
Running(target, action) == Rule("", "", AnyVM, target, action, None, None, FALSE)
Suggested(target, default) == Rule("", "", AnyVM, target, "ask", None, default, TRUE)

\* every class of token, and every action
Various ==
    {Simple(t, a) : t \in {Vm("vm"), AnyVM, Tag("t"), Type("AppVM")}, a \in {"ask", "deny"}} \cup
    {Simple(Wildcard, "allow"), Simple(DefaultVM, "allow"), Simple(AdminVM, "allow"),
     Simple(DispVM, "allow"), Simple(DispVMTemplate("tpl"), "deny"), Simple(DispTag("t"), "allow"),
     Redirected(DefaultVM, "allow", Vm("vm")), Redirected(AnyVM, "allow", Vm("gone")),
     Redirected(AnyVM, "deny", Vm("vm")), Redirected(AnyVM, "ask", DispVM),
     Running(Wildcard, "ask"), Running(Vm("vm"), "allow"), Running(AdminVM, "allow"),
     Suggested(DefaultVM, DispVM),
     Rule("other.Service", "", AnyVM, AnyVM, "deny", None, None, TRUE),
     Rule("test.Service", "+arg", Vm("src"), Vm("tpl"), "ask", None, None, TRUE),
     Rule("", "", Vm("vm"), AnyVM, "deny", None, None, TRUE)}
Overlapping == {Simple(t, a) : t \in {Vm("vm"), Tag("t")}, a \in Actions}

\* Any two rules, and three that apply to the same domains.
NextRules(read) ==
    CASE Len(read) < 2 -> Various \cup Overlapping
      [] Len(read) = 2 /\ (\A i \in DOMAIN read : read[i] \in Overlapping) -> Overlapping
      [] OTHER -> {}

Call(kind, target) ==
    [kind |-> kind, service |-> "test.Service", argument |-> "+arg", source |-> "src", target |-> target]
Calls == {Call("call", t) : t \in {None, Vm("vm"), Vm("gone"), Vm("src"), AdminVM, DispVM,
                                   DispVMTemplate("tpl"), DispVMTemplate("vm"), Tok("invalid", "")}}
\* of a domain that is gone
Late == {[Call(k, Vm("vm")) EXCEPT !.source = "ghost"] : k \in {"call", "assume_yes"}}
Evaluations == {Call("just_evaluate", Vm("dom0")), Call("assume_yes", Vm("vm")),
                Call("eval", Vm("vm")), Call("eval_gui", Vm("src")), Call("eval_gui", Vm("tpl"))}
AllRequests == Calls \cup Late \cup Evaluations

=============================================================================
