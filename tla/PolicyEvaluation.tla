-------------------------- MODULE PolicyEvaluation --------------------------
(***************************************************************************)
(* How a qrexec call is decided: qrexec/policy/parser.py (tokens, rules,   *)
(* resolutions), handle_request() and the resolution types of              *)
(* tools/qrexec_policy_exec.py, and the connections of                     *)
(* tools/qrexec_policy_daemon.py that ask for a decision.                  *)
(*                                                                         *)
(* A policy is read rule by rule, then a request is evaluated against it   *)
(* and, for "ask", answered by the user.  After policy.EvalSimple or       *)
(* policy.EvalGUI the daemon serves the next connection; it does so after  *)
(* any other answer too, but keeps nothing of what it answered, so that a  *)
(* behaviour may end there.  Names, tags and types are strings of small    *)
(* sets.  Left out: the user=, icon and notify data of an answer, and the  *)
(* notifications, whose failures are ignored.                              *)
(***************************************************************************)
EXTENDS Integers, Sequences, FiniteSets

CONSTANTS
    Rules(_),                  \* rules that may follow those read so far
    SystemInfos,               \* what get_system_info() may return
    Requests                   \* requests that are evaluated

VARIABLES
    pc,                        \* "loading", "asking" (the user), "evaluated" or "answered"
    rules,                     \* AbstractPolicy.rules
    system_info,               \* system_info["domains"]
    request,                   \* the Request, after verify()
    resolution,                \* the AllowResolution or AskResolution
    answer,                    \* what is written to the connection
    evaluated                  \* history: the last evaluation, and what it said

vars == <<pc, rules, system_info, request, resolution, answer, evaluated>>

-----------------------------------------------------------------------------
(* Tokens *)

Tok(k, v) == [kind |-> k, value |-> v]
None == Tok("None", "")
AdminVM == Tok("@adminvm", "")
DefaultVM == Tok("@default", "")
DispVM == Tok("@dispvm", "")
DispVMTemplate(v) == Tok("@dispvm:", v)
Dom0 == Tok("name", "dom0")                      \* the string "dom0", not a token

\* VMToken.__new__(): "dom0" is an alias of @adminvm
VMToken(name) == IF name = "dom0" THEN AdminVM ELSE Tok("name", name)

\* The classes of tokens: where one may be used is a matter of inheritance.
Exact == {"*", "@adminvm", "@anyvm", "@default", "@dispvm"}
Source == {"name", "*", "@adminvm", "@anyvm", "@type:", "@tag:", "@dispvm:", "@dispvm:@tag:"}
Target == Source \cup {"@default", "@dispvm"}
Redirect == {"name", "@adminvm", "@dispvm", "@dispvm:"}
IntendedTarget == Redirect \cup {"@default"}
TokenOf(class) ==
    {t \in [kind : class, value : STRING] : t # Dom0 /\ (t.kind \in Exact => t.value = "")}

Names(si) == DOMAIN si
Templates(si) == {n \in Names(si) : si[n].template_for_dispvms}
NoDispVM == ""
get_dispvm_template(source, si) ==
    IF source \notin Names(si) \/ si[source].default_dispvm = NoDispVM THEN None
    ELSE DispVMTemplate(si[source].default_dispvm)

\* match() of the token classes.  A Source token is given no source.
match(tok, other, source, si) ==
    LET template == IF other = DispVM /\ source # NoDispVM
                    THEN get_dispvm_template(source, si) ELSE other
    IN  CASE tok.kind = "*" -> TRUE
          [] tok.kind = "@anyvm" -> other # AdminVM
          [] tok.kind = "@type:" ->
                other.kind = "name" /\ other.value \in Names(si) /\ si[other.value].type = tok.value
          [] tok.kind = "@tag:" ->
                other.kind = "name" /\ other.value \in Names(si) /\ tok.value \in si[other.value].tags
          [] tok.kind = "@dispvm:" -> tok = template
          [] tok.kind = "@dispvm:@tag:" ->
                template.kind = "@dispvm:" /\ template.value \in Templates(si)
                    /\ tok.value \in si[template.value].tags
          [] OTHER -> tok = other

\* expand() of the target classes, and the KeyError of DispVMTemplate's
expand(tok, si) ==
    LET vms(S) == {VMToken(n) : n \in S}
        disps(S) == {DispVMTemplate(n) : n \in S \cap Templates(si)}
    IN  CASE tok.kind = "*" -> vms(Names(si)) \cup disps(Names(si)) \cup {DispVM}
          [] tok.kind = "@anyvm" ->
                vms({n \in Names(si) : si[n].type # "AdminVM"}) \cup disps(Names(si)) \cup {DispVM}
          [] tok.kind = "@type:" -> vms({n \in Names(si) : si[n].type = tok.value})
          [] tok.kind = "@tag:" -> vms({n \in Names(si) : tok.value \in si[n].tags})
          [] tok.kind = "@dispvm:" -> {tok} \cap disps(Names(si))
          [] tok.kind = "@dispvm:@tag:" -> disps({n \in Names(si) : tok.value \in si[n].tags})
          [] tok.kind = "@default" -> {}
          [] tok.kind = "name" -> {tok} \cap vms(Names(si))
          [] OTHER -> {tok}
expand_fails(tok, si) == tok.kind = "@dispvm:" /\ tok.value \notin Names(si)

\* IntendedTarget.verify(); None stands for AccessDenied.
verify(tok, si) ==
    CASE tok.kind = "name" -> IF tok.value \in Names(si) THEN tok ELSE DefaultVM
      [] tok.kind = "@dispvm:" -> IF tok.value \in Templates(si) THEN tok ELSE None
      [] OTHER -> tok

\* What qubesd says of the system: dom0 is the one AdminVM, and a default_dispvm
\* is a domain, though not always a template for disposables.
ASSUME SystemAssumption ==
    \A si \in SystemInfos :
        /\ "dom0" \in Names(si)
        /\ \A n \in Names(si) :
              /\ si[n].type = "AdminVM" => n = "dom0"
              /\ si[n].default_dispvm \in Names(si) \cup {NoDispVM}

\* What a caller writes as its target is a token, a name, nothing, or an "@"
\* word that is no token; policy.EvalSimple and policy.EvalGUI take names only.
RequestFields ==
    [kind : {"call", "just_evaluate", "assume_yes", "eval", "eval_gui"},
     service : STRING, argument : STRING, source : STRING,
     target : [kind : IntendedTarget \cup {"None", "invalid"}, value : STRING]]
ASSUME RequestAssumption ==
    \A q \in Requests :
        /\ q \in RequestFields
        /\ q.target.kind \in Exact \cup {"None"} => q.target.value = ""
        /\ q.kind \in {"eval", "eval_gui"} => q.target.kind = "name"

-----------------------------------------------------------------------------
(* Rules *)

Actions == {"allow", "ask", "deny"}
\* "" is None, "*" in the file
Rule(service, argument, source, target, action, redirect, default, autostart) ==
    [service |-> service, argument |-> argument, source |-> source, target |-> target,
     action |-> action, redirect |-> redirect, default_target |-> default,
     autostart |-> autostart]

\* Rule.__init__() and the classes of its tokens and of its action: what may
\* stand in each column, and which parameters an action takes.
RuleFields ==
    [service : STRING, argument : STRING, source : TokenOf(Source), target : TokenOf(Target),
     action : Actions, redirect : TokenOf(Redirect) \cup {None},
     default_target : TokenOf(Redirect) \cup {None}, autostart : BOOLEAN]
Acceptable(r) ==
    /\ r \in RuleFields
    /\ r.service = "" => r.argument = ""
    /\ r.action = "deny" => r.redirect = None /\ r.autostart
    /\ r.action # "ask" => r.default_target = None
    /\ ~(r.target = DefaultVM /\ r.action = "allow" /\ r.redirect = None)

is_match_but_target(r, req) ==
    /\ r.service = "" \/ r.service = req.service
    /\ r.argument = "" \/ r.argument = req.argument
    /\ match(r.source, Tok("name", req.source), NoDispVM, system_info)
is_match(r, req) ==
    /\ is_match_but_target(r, req)
    /\ match(r.target, req.target, req.source, system_info)

Matching(req) == {i \in DOMAIN rules : is_match(rules[i], req)}
find_matching_rule(req) == rules[CHOOSE i \in Matching(req) : \A j \in Matching(req) : i <= j]

\* collect_targets_for_ask(): the rules are gone through backwards, a rule
\* that denies removes targets, another one adds them.
Applicable(req) == {i \in DOMAIN rules : is_match_but_target(rules[i], req)}
RuleTarget(r) == IF r.redirect # None THEN r.redirect ELSE r.target
Collected_forward(req) ==
    {t \in UNION {expand(RuleTarget(rules[i]), system_info) : i \in Applicable(req)} :
        \E i \in Applicable(req) :
            /\ rules[i].action # "deny" /\ t \in expand(RuleTarget(rules[i]), system_info)
            /\ \A j \in Applicable(req) :
                  j > i /\ rules[j].action = "deny" => t \notin expand(RuleTarget(rules[j]), system_info)}
Collected(req) ==
    {t \in UNION {expand(RuleTarget(rules[i]), system_info) : i \in Applicable(req)} :
        \E i \in Applicable(req) :
            /\ rules[i].action # "deny" /\ t \in expand(RuleTarget(rules[i]), system_info)
            /\ \A j \in Applicable(req) :
                  j < i /\ rules[j].action = "deny" => t \notin expand(RuleTarget(rules[j]), system_info)}
Keywords(targets, req) ==
    {IF t = DispVM THEN get_dispvm_template(req.source, system_info)
     ELSE IF t = AdminVM THEN Dom0 ELSE t : t \in targets} \ {None}
collect_targets_for_ask(req) == Keywords(Collected(req), req) \ {Tok("name", req.source)}

-----------------------------------------------------------------------------
(* Actions of a rule *)

allow_no_autostart(t) ==
    \/ t = AdminVM
    \/ t.kind = "name" /\ t.value \in Names(system_info) /\ system_info[t.value].running
allow_no_autostart_fails(t) == t.kind = "name" /\ t.value \notin Names(system_info)

Denied == [type |-> "deny"]
Raised == [type |-> "error"]                     \* an exception handle_request() lets pass
Allowed(r, t) == [type |-> "allow", rule |-> r, target |-> t]

Allow_evaluate(r, req) ==
    LET t == verify(IF r.redirect # None THEN r.redirect ELSE req.target, system_info)
        target == CASE t = DispVM -> get_dispvm_template(req.source, system_info)
                    [] t = AdminVM -> Dom0
                    [] OTHER -> t
    IN  IF t \in {None, DefaultVM} \/ target = None THEN Denied
        ELSE IF ~r.autostart /\ ~allow_no_autostart(target) THEN Denied
        ELSE Allowed(r, target)

AskResolution(r, targets, default) ==
    IF default # None /\ default \notin targets THEN Raised        \* assert
    ELSE [type |-> "ask", rule |-> r, targets |-> targets, default_target |-> default]

Choices_unfiltered(r, all) == all
\* with autostart=no, only what runs
Choices(r, all) == IF r.autostart THEN all ELSE {t \in all : allow_no_autostart(t)}

Ask_evaluate(r, req) ==
    LET all == IF r.redirect # None THEN {r.redirect} ELSE collect_targets_for_ask(req)
        targets == Choices(r, all)
        default == CASE r.default_target = DispVM -> get_dispvm_template(req.source, system_info)
                     [] r.default_target = AdminVM -> Dom0
                     [] OTHER -> r.default_target
    IN  IF \/ r.redirect = None /\ \E i \in Applicable(req) : expand_fails(RuleTarget(rules[i]), system_info)
           \/ ~r.autostart /\ \E t \in all : allow_no_autostart_fails(t)
        THEN Raised
        ELSE IF targets = {} THEN Denied ELSE AskResolution(r, targets, default)

evaluate(req) ==
    IF Matching(req) = {} THEN Denied
    ELSE LET r == find_matching_rule(req) IN
         CASE r.action = "allow" -> Allow_evaluate(r, req)
           [] r.action = "ask" -> Ask_evaluate(r, req)
           [] r.action = "deny" -> Denied

-----------------------------------------------------------------------------
(* Requests *)

\* The target of a request is what the caller wrote; Intended() makes it a
\* token.  None stands for the PolicySyntaxError of an invalid one.
Intended(t) == CASE t = None -> DefaultVM
                 [] t.kind = "invalid" -> None
                 [] t.kind = "name" -> VMToken(t.value)
                 [] OTHER -> t

\* kind: "call" (the daemon), "just_evaluate", "assume_yes" or "eval" (both,
\* policy.EvalSimple) or "eval_gui".  service_and_arg is split before.
NoRequest == [kind |-> "", service |-> "", argument |-> "", source |-> "", target |-> None]
just_evaluate(req) == req.kind \in {"just_evaluate", "eval", "eval_gui"}
assume_yes_for_ask_or_evaluate(req) == req.kind = "assume_yes"
assume_yes_for_ask(req) == req.kind \in {"assume_yes", "eval", "eval_gui"}

\* Answers: deny, allow with a target, or a connection closed without a word
Deny == [result |-> "deny", target |-> None]
Allow(t) == [result |-> "allow", target |-> t]
Nothing == [result |-> "", target |-> None]

\* AllowResolution.execute(), and JustEvaluateAllowResolution's, which only
\* says result=allow
Execute(req, res) ==
    CASE res.type = "allow" /\ just_evaluate(req) -> Allow(None)
      [] res.type = "allow" /\ ~just_evaluate(req) ->
            IF res.target = Tok("name", req.source) THEN Deny ELSE Allow(res.target)
      [] res.type = "error" -> Nothing
      [] OTHER -> Deny

handle_user_response_any(res, t) == Allowed(res.rule, t)
handle_user_response(res, t) == IF t \in res.targets THEN Allowed(res.rule, t) ELSE Denied

Init ==
    /\ pc = "loading"
    /\ rules = <<>>
    /\ system_info \in SystemInfos
    /\ request = NoRequest
    /\ resolution = Denied
    /\ answer = Nothing
    /\ evaluated = [request |-> NoRequest, result |-> ""]

Answers(a) == answer' = a /\ pc' = "answered" /\ UNCHANGED evaluated
Evaluates(a) ==
    answer' = a /\ pc' = "evaluated" /\ evaluated' = [request |-> request', result |-> a.result]

\* load_policy_file(): the next rule; PolicySyntaxError denies
handle_rule(r) ==
    /\ pc = "loading"
    /\ IF Acceptable(r) THEN rules' = Append(rules, r) /\ UNCHANGED <<pc, answer, evaluated>>
       ELSE Answers(Deny) /\ UNCHANGED rules
    /\ UNCHANGED <<system_info, request, resolution>>

\* handle_client_connection() and handle_request(), up to where the user is
\* asked.  A source that is gone makes the question to the user, and the
\* notification of a refusal (unless the rule says notify=no), fail with a
\* KeyError: there is no answer.  An invalid target is refused without one.
handle_request(q) ==
    /\ pc \in {"loading", "evaluated"}
    /\ q.kind # "eval_gui"
    /\ LET target == verify(Intended(q.target), system_info)
           req == [q EXCEPT !.target = target]
           res == IF target = None THEN Denied ELSE evaluate(req)
           said == IF res.type = "ask" /\ assume_yes_for_ask(q)
                   THEN handle_user_response(res, target) ELSE res
           gone == /\ q.source \notin Names(system_info)
                   /\ ~just_evaluate(q) /\ Intended(q.target) # None
           interactive == res.type = "ask" /\ q.kind = "call"
           asks == interactive /\ ~gone /\ system_info[q.source].guivm
       IN  /\ request' = req
           /\ resolution' = res
           /\ \/ asks /\ pc' = "asking" /\ answer' = Nothing /\ UNCHANGED evaluated
              \/ q.kind = "eval" /\ Evaluates(Execute(req, said))
              \/ ~asks /\ ~(gone /\ interactive) /\ q.kind # "eval" /\ Answers(Execute(req, said))
              \/ gone /\ Execute(req, said) = Deny /\ Answers(Nothing)
    /\ UNCHANGED <<rules, system_info>>

\* qrexec_policy_eval() for policy.EvalGUI: the caller must be the GUI domain
\* of both domains it asks about, or it gets nothing.
GuiTag == "guivm"
Provides(q) == /\ q.target.kind = "name"
               /\ \A n \in {q.source, q.target.value} :
                     n \in Names(system_info) /\ GuiTag \in system_info[n].tags
qrexec_policy_eval(q) ==
    /\ pc \in {"loading", "evaluated"}
    /\ q.kind = "eval_gui"
    /\ LET req == [q EXCEPT !.target = verify(Intended(q.target), system_info)]
           res == IF Provides(q) THEN evaluate(req) ELSE Denied
           said == IF res.type = "ask" THEN handle_user_response(res, req.target) ELSE res
       IN  /\ request' = req
           /\ resolution' = res
           /\ Evaluates(IF Provides(q) THEN Execute(req, said) ELSE Nothing)
    /\ UNCHANGED <<rules, system_info>>

\* get_system_info() fails: handle_request() denies, qrexec_policy_eval() does
\* not catch the exception
no_system_info ==
    /\ pc \in {"loading", "evaluated"}
    /\ request' = NoRequest
    /\ resolution' = Denied
    /\ Answers(Deny) \/ Answers(Nothing)
    /\ UNCHANGED <<rules, system_info>>

\* AgentAskResolution.execute(): the agent in the GUI domain answers "deny" or
\* something else, "allow:" and a target, or the call to it raises an exception.
Replies == {"deny", "invalid", "exception"}
Targets == Keywords(expand(Tok("*", ""), system_info), request)
    \cup {AdminVM, DispVM} \cup (IF resolution.type = "ask" THEN resolution.targets ELSE {})
user_allows(t) ==
    /\ pc = "asking"
    /\ Answers(Execute(request, handle_user_response(resolution, t)))
    /\ UNCHANGED <<rules, system_info, request, resolution>>
user_replies(reply) ==
    /\ pc = "asking"
    /\ Answers(IF reply = "exception" THEN Nothing ELSE Deny)
    /\ UNCHANGED <<rules, system_info, request, resolution>>

Over == pc = "answered" /\ UNCHANGED vars

Next ==
    \/ \E r \in Rules(rules) : handle_rule(r)
    \/ \E q \in Requests : handle_request(q)
    \/ \E q \in Requests : qrexec_policy_eval(q)
    \/ no_system_info
    \/ \E t \in Targets : user_allows(t)
    \/ \E reply \in Replies : user_replies(reply)
    \/ Over

Spec == Init /\ [][Next]_vars

-----------------------------------------------------------------------------
(* Properties *)

Tokens == {None, AdminVM, DefaultVM, DispVM, Dom0} \cup
    UNION {{Tok("name", n), DispVMTemplate(n)} : n \in UNION {Names(si) : si \in SystemInfos}} \cup
    {q.target : q \in Requests} \cup {r.redirect : r \in Rules(<<>>)}

\* Every variable has its type.
TypeOK ==
    /\ pc \in {"loading", "asking", "evaluated", "answered"}
    /\ \A i \in DOMAIN rules : rules[i] \in Rules(SubSeq(rules, 1, i - 1)) /\ Acceptable(rules[i])
    /\ system_info \in SystemInfos
    /\ request = NoRequest \/ request.target \in Tokens
    /\ resolution.type \in {"deny", "error", "allow", "ask"}
    /\ resolution.type = "ask" => resolution.targets \subseteq Tokens \ {None} /\ resolution.targets # {}
    /\ answer.result \in {"", "allow", "deny"} /\ answer.target \in Tokens

Asked == resolution.type = "ask" /\ resolution.rule.redirect = None

\* What the first rule that matches says of a call to t.
Verdict(t) ==
    LET req == [request EXCEPT !.target = t] IN
    IF Matching(req) = {} THEN "deny" ELSE find_matching_rule(req).action

\* Step 2 of the documented algorithm for "ask": the choices are the targets
\* for which the rules would result in ask or allow.  For domains other than
\* dom0, and rules without target=, the backward pass over the rules of
\* collect_targets_for_ask() computes just these.
ChoicesAreGranted ==
    Asked /\ resolution.rule.autostart /\ (\A i \in Applicable(request) : rules[i].redirect = None) =>
        \A n \in Names(system_info) \ {"dom0", request.source} :
            Tok("name", n) \in resolution.targets <=> Verdict(Tok("name", n)) # "deny"

\* A call that is allowed, by a rule or by the user, goes to a domain that
\* exists, other than its source, or to a disposable of a template that may
\* have them: never to a keyword that is left to be resolved.  Two targets are
\* handed out as they are configured, without that check: a disposable of the
\* source's default_dispvm, and the target= of an "ask" rule.
AllowedTargetUsable ==
    pc = "answered" /\ answer.result = "allow" /\ request.kind = "call" =>
        /\ answer.target # Tok("name", request.source)
        /\ \/ answer.target.kind = "name" /\ answer.target.value \in Names(system_info)
           \/ answer.target.kind = "@dispvm:" /\ answer.target.value \in Templates(system_info)
           \/ answer.target # None /\ answer.target = get_dispvm_template(request.source, system_info)
           \/ resolution.type = "ask" /\ answer.target # None /\ answer.target = resolution.rule.redirect

\* autostart=no: no answer, whoever gave it, needs a domain to be started.
AutostartRespected ==
    pc = "answered" /\ answer.result = "allow" /\ request.kind = "call" /\ ~resolution.rule.autostart =>
        answer.target = AdminVM \/ (answer.target.kind = "name" /\ system_info[answer.target.value].running)

SameCall(q, req) ==
    /\ q.service = req.service /\ q.argument = req.argument
    /\ q.source = req.source /\ q.target = req.target

\* policy.EvalSimple and policy.EvalGUI predict what a call to a domain other
\* than dom0 is answered while the policy and the system stay as they are.  A
\* call they say is denied is allowed only when the user is asked and chooses
\* another target.  A call they say is allowed is refused only by the user, for
\* want of a GUI domain to ask them in, or as a call of a domain to itself; when
\* the user is asked, the target is one of their choices.
EvaluationPredicts ==
    /\ pc \in {"asking", "answered"} /\ request.kind = "call"
    /\ request.target.kind = "name" /\ SameCall(evaluated.request, request)
    =>  /\ evaluated.result = "deny" /\ pc = "answered" /\ answer.result = "allow" =>
              resolution.type = "ask" /\ answer.target # request.target
        /\ evaluated.result = "allow" /\ pc = "answered" /\ answer.result # "allow" =>
              \/ resolution.type = "ask"
              \/ resolution.type = "allow" /\ resolution.target = Tok("name", request.source)
        /\ evaluated.result = "allow" /\ pc = "asking" => request.target \in resolution.targets

=============================================================================
