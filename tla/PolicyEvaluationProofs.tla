----------------------- MODULE PolicyEvaluationProofs -----------------------
(***************************************************************************)
(* Proofs about PolicyEvaluation, for policies of any length, any system   *)
(* and any request.  A resolution is sound if the first rule that matches  *)
(* the request decided it, its targets are usable and respect autostart=no,*)
(* and its choices are those the rules grant.  evaluate() returns sound    *)
(* resolutions, and what is written to the connection follows from one.    *)
(***************************************************************************)
EXTENDS PolicyEvaluation, WellFoundedInduction, TLAPS

\* Most leaves are first-order reasoning, which is Zenon's; a leaf that needs
\* arithmetic, or functions and records taken apart, names SMT.
USE Zenon

-----------------------------------------------------------------------------
(* The inductive invariant *)

\* A target that a call can be made to, or the default disposable of its source
Usable(t, source) == \/ t = Tok("name", t.value) /\ t.value \in Names(system_info)
                     \/ t.kind = "@dispvm:" /\ t.value \in Templates(system_info)
                     \/ t # None /\ t = get_dispvm_template(source, system_info)

LeastMatch(k, req) == k \in Matching(req) /\ \A j \in Matching(req) : k <= j
Grants(req) == \E k \in DOMAIN rules : LeastMatch(k, req) /\ rules[k].action # "deny"

To(req, n) == [req EXCEPT !.target = Tok("name", n)]
ChoicesGranted(req, res) ==
    res.rule.redirect = None /\ res.rule.autostart
            /\ (\A i \in Applicable(req) : rules[i].redirect = None) =>
        \A n \in Names(system_info) \ {"dom0", req.source} :
            Tok("name", n) \in res.targets <=> Grants(To(req, n))

IsRequest(req) ==
    \E k, s, a, c, t : req = [kind |-> k, service |-> s, argument |-> a, source |-> c, target |-> t]
Sound(req, res) ==
    /\ IsRequest(req)
    /\ \E k \in DOMAIN rules : LeastMatch(k, req) /\ res.rule = rules[k] /\ rules[k].action = res.type
    /\ res.type = "allow" => /\ Usable(res.target, req.source)
                             /\ res.rule.autostart \/ allow_no_autostart(res.target)
    /\ res.type = "ask" => /\ res.rule.redirect = None => \A t \in res.targets : Usable(t, req.source)
                           /\ res.rule.redirect # None => \A t \in res.targets : t = res.rule.redirect
                           /\ res.rule.autostart \/ \A t \in res.targets : allow_no_autostart(t)
                           /\ ChoicesGranted(req, res)

\* What is allowed was allowed by a rule, or chosen by the user among targets
AnswerOf(req, res, a) ==
    \/ res.type = "allow" /\ a = Execute(req, res)
    \/ res.type = "ask" /\ \E t \in res.targets : a = Execute(req, Allowed(res.rule, t))

IInv ==
    /\ pc \in {"loading", "asking", "evaluated", "answered"}
    /\ rules \in Seq(RuleFields) /\ \A i \in DOMAIN rules : Acceptable(rules[i])
    /\ system_info \in SystemInfos
    /\ pc = "loading" => resolution = Denied
    /\ resolution.type \in {"allow", "ask"} => Sound(request, resolution)
    /\ pc = "asking" => resolution.type = "ask"
    /\ pc = "answered" /\ answer.result = "allow" => AnswerOf(request, resolution, answer)

-----------------------------------------------------------------------------
(* Tokens *)

\* Tokens are told apart by their kind and value.
LEMMA TokenParts ==
    /\ \A k, v : Tok(k, v).kind = k /\ Tok(k, v).value = v
    /\ \A K : \A t \in [kind : K, value : STRING] : t = Tok(t.kind, t.value)
<1>1. \A k, v : Tok(k, v).kind = k /\ Tok(k, v).value = v
  BY DEF Tok
<1>2. \A K : \A t \in [kind : K, value : STRING] : t = Tok(t.kind, t.value)
  BY SMT DEF Tok
<1> QED BY <1>1, <1>2

\* The tokens of a class, by their parts.
IsTok(t, class) == /\ t = Tok(t.kind, t.value) /\ t # Dom0
                   /\ t.kind \in class
                   /\ t.kind \in Exact => t.value = ""

\* A token that parses is one of its class.
LEMMA ClassToken == \A class : \A t \in TokenOf(class) : IsTok(t, class)
<1> SUFFICES ASSUME NEW class, NEW t \in TokenOf(class) PROVE IsTok(t, class)
  OBVIOUS
<1>1. /\ t \in [kind : class, value : STRING] /\ t # Dom0
      /\ t.kind \in Exact => t.value = ""
  BY DEF TokenOf
<1>2. t = Tok(t.kind, t.value) /\ t.kind \in class
  BY <1>1, TokenParts
<1> QED BY <1>1, <1>2 DEF IsTok

\* The tokens that stand for themselves.
LEMMA Keyword ==
    /\ None.kind = "None" /\ AdminVM.kind = "@adminvm" /\ DefaultVM.kind = "@default"
    /\ DispVM.kind = "@dispvm" /\ Dom0.kind = "name" /\ Dom0.value = "dom0"
    /\ \A v : DispVMTemplate(v).kind = "@dispvm:" /\ DispVMTemplate(v).value = v
BY TokenParts DEF None, AdminVM, DefaultVM, DispVM, Dom0, DispVMTemplate

\* A name becomes a token of that name, or of dom0.
LEMMA NameToken ==
    \A n : IF n = "dom0" THEN VMToken(n) = AdminVM
           ELSE VMToken(n).kind = "name" /\ VMToken(n).value = n /\ VMToken(n) = Tok("name", n)
BY TokenParts DEF VMToken

\* Membership in the images that expand() is made of.
LEMMA Images ==
    ASSUME NEW si, NEW t
    PROVE  /\ \A S : t \in {VMToken(n) : n \in S} <=>
                     \/ t = AdminVM /\ "dom0" \in S
                     \/ \E n \in S : n # "dom0" /\ t = Tok("name", n)
           /\ \A S : t \in {DispVMTemplate(n) : n \in S \cap Templates(si)} <=>
                     \E n \in S : n \in Templates(si) /\ t = DispVMTemplate(n)
BY NameToken

\* expand() yields domains that exist, templates that may have disposables,
\* and the two keywords that are resolved later.
LEMMA ExpandYields ==
    ASSUME NEW si, NEW tok \in TokenOf(Target), NEW t \in expand(tok, si)
    PROVE  \/ t = AdminVM
           \/ t = DispVM
           \/ t = Tok("name", t.value) /\ t.value \in Names(si)
           \/ t.kind = "@dispvm:" /\ t.value \in Templates(si)
<1> DEFINE vms(S) == {VMToken(n) : n \in S}
           disps(S) == {DispVMTemplate(n) : n \in S \cap Templates(si)}
           Good == \/ t = AdminVM
                   \/ t = DispVM
                   \/ t = Tok("name", t.value) /\ t.value \in Names(si)
                   \/ t.kind = "@dispvm:" /\ t.value \in Templates(si)
<1>1. ASSUME NEW S \in SUBSET Names(si), t \in vms(S) PROVE Good
  <2>1. t = AdminVM \/ \E n \in S : t = Tok("name", n)
    BY <1>1, Images
  <2> HIDE DEF vms
  <2> QED BY <2>1, TokenParts, SMT
<1>2. ASSUME NEW S, t \in disps(S) PROVE Good
  BY <1>2, Images, Keyword, SMT
<1>3. tok \in [kind : Target, value : STRING] /\ (tok.kind \in Exact => tok.value = "")
  BY DEF TokenOf
<1>4. CASE tok.kind = "*"
  <2>1. t \in vms(Names(si)) \cup disps(Names(si)) \cup {DispVM}
    BY <1>4 DEF expand
  <2> QED BY <1>1, <1>2, <2>1
<1>5. CASE tok.kind = "@anyvm"
  <2>1. t \in vms({n \in Names(si) : si[n].type # "AdminVM"}) \cup disps(Names(si)) \cup {DispVM}
    BY <1>5 DEF expand
  <2> HIDE DEF vms, disps
  <2>2. {n \in Names(si) : si[n].type # "AdminVM"} \in SUBSET Names(si)
    OBVIOUS
  <2> QED BY <1>1, <1>2, <2>1, <2>2
<1>6. CASE tok.kind = "@type:"
  <2>1. t \in vms({n \in Names(si) : si[n].type = tok.value})
    BY <1>6 DEF expand
  <2> HIDE DEF vms
  <2>2. {n \in Names(si) : si[n].type = tok.value} \in SUBSET Names(si)
    OBVIOUS
  <2> QED BY <1>1, <2>1, <2>2
<1>7. CASE tok.kind = "@tag:"
  <2>1. t \in vms({n \in Names(si) : tok.value \in si[n].tags})
    BY <1>7 DEF expand
  <2> HIDE DEF vms
  <2>2. {n \in Names(si) : tok.value \in si[n].tags} \in SUBSET Names(si)
    OBVIOUS
  <2> QED BY <1>1, <2>1, <2>2
<1>8. CASE tok.kind = "@dispvm:"
  <2>1. t \in disps(Names(si))
    BY <1>8 DEF expand
  <2> QED BY <1>2, <2>1
<1>9. CASE tok.kind = "@dispvm:@tag:"
  <2>1. t \in disps({n \in Names(si) : tok.value \in si[n].tags})
    BY <1>9 DEF expand
  <2> HIDE DEF disps
  <2> QED BY <1>2, <2>1
<1>10. CASE tok.kind = "@default"
  BY <1>10 DEF expand
<1>11. CASE tok.kind = "name"
  <2>1. t \in vms(Names(si))
    BY <1>11 DEF expand
  <2> QED BY <1>1, <2>1
<1>12. CASE tok.kind \in {"@adminvm", "@dispvm"}
  <2>1. t = tok
    BY <1>12 DEF expand
  <2>2. tok.value = ""
    BY <1>3, <1>12 DEF Exact
  <2>3. tok = Tok(tok.kind, tok.value)
    BY <1>3, TokenParts
  <2> QED BY <1>12, <2>1, <2>2, <2>3 DEF AdminVM, DispVM
<1> QED BY <1>3, <1>4, <1>5, <1>6, <1>7, <1>8, <1>9, <1>10, <1>11, <1>12 DEF Target, Source

\* For a domain other than dom0, expand() and match() agree: the backward pass
\* over the rules and the search for the first match look at the same rules.
LEMMA ExpandMatches ==
    ASSUME NEW si \in SystemInfos, NEW tok \in TokenOf(Target), NEW src,
           NEW n \in Names(si), n # "dom0"
    PROVE  Tok("name", n) \in expand(tok, si) <=> match(tok, Tok("name", n), src, si)
<1> DEFINE t == Tok("name", n)
           vms(S) == {VMToken(m) : m \in S}
           disps(S) == {DispVMTemplate(m) : m \in S \cap Templates(si)}
<1>1. t.kind = "name" /\ t.value = n /\ t # AdminVM /\ t # DispVM /\ t # None /\ t # DefaultVM
  BY TokenParts, Keyword, SMT
<1>2. ASSUME NEW S PROVE t \in vms(S) <=> n \in S
  <2>1. t \in vms(S) <=> \/ t = AdminVM /\ "dom0" \in S
                        \/ \E m \in S : m # "dom0" /\ t = Tok("name", m)
    BY Images
  <2>2. \A m : t = Tok("name", m) <=> m = n
    BY TokenParts, SMT
  <2> HIDE DEF vms, t
  <2> QED BY <1>1, <2>1, <2>2
<1>3. \A S : t \notin disps(S)
  BY <1>1, Images, Keyword
<1>4. tok \in [kind : Target, value : STRING]
  BY DEF TokenOf
<1>5. tok = Tok(tok.kind, tok.value)
  BY <1>4, TokenParts
<1> HIDE DEF t, vms, disps
<1>6. CASE tok.kind = "*"
  <2>1. expand(tok, si) = vms(Names(si)) \cup disps(Names(si)) \cup {DispVM}
    BY <1>6 DEF expand, vms, disps
  <2>2. match(tok, t, src, si)
    BY <1>6 DEF match
  <2> QED BY <1>2, <2>1, <2>2 DEF t
<1>7. CASE tok.kind = "@anyvm"
  <2>1. expand(tok, si) = vms({m \in Names(si) : si[m].type # "AdminVM"})
                            \cup disps(Names(si)) \cup {DispVM}
    BY <1>7 DEF expand, vms, disps
  <2>2. match(tok, t, src, si) <=> t # AdminVM
    BY <1>7 DEF match
  <2>3. t \in expand(tok, si) <=> si[n].type # "AdminVM"
    BY <1>1, <1>2, <1>3, <2>1
  <2> QED BY <1>1, <2>2, <2>3, SystemAssumption DEF t
<1>8. CASE tok.kind = "@type:"
  <2>1. expand(tok, si) = vms({m \in Names(si) : si[m].type = tok.value})
    BY <1>8 DEF expand, vms
  <2>2. match(tok, t, src, si) <=> si[n].type = tok.value
    BY <1>1, <1>8 DEF match
  <2>3. t \in expand(tok, si) <=> si[n].type = tok.value
    BY <1>2, <2>1, SMT
  <2> QED BY <2>2, <2>3 DEF t
<1>9. CASE tok.kind = "@tag:"
  <2>1. expand(tok, si) = vms({m \in Names(si) : tok.value \in si[m].tags})
    BY <1>9 DEF expand, vms
  <2>2. match(tok, t, src, si) <=> tok.value \in si[n].tags
    BY <1>1, <1>9 DEF match
  <2>3. t \in expand(tok, si) <=> tok.value \in si[n].tags
    BY <1>2, <2>1, SMT
  <2> QED BY <2>2, <2>3 DEF t
<1>10. CASE tok.kind = "@dispvm:"
  <2>1. t \notin expand(tok, si)
    BY <1>3, <1>10 DEF expand, disps
  <2>2. ~match(tok, t, src, si)
    BY <1>1, <1>10 DEF match
  <2> QED BY <2>1, <2>2 DEF t
<1>11. CASE tok.kind = "@dispvm:@tag:"
  <2>1. t \notin expand(tok, si)
    BY <1>3, <1>11 DEF expand, disps
  <2>2. ~match(tok, t, src, si)
    BY <1>1, <1>11 DEF match
  <2> QED BY <2>1, <2>2 DEF t
<1>12. CASE tok.kind = "@default"
  <2>1. t \notin expand(tok, si)
    BY <1>12 DEF expand
  <2>2. ~match(tok, t, src, si)
    BY <1>1, <1>12 DEF match
  <2> QED BY <2>1, <2>2 DEF t
<1>13. CASE tok.kind = "name"
  <2>1. t \in expand(tok, si) <=> t = tok
    <3>1. expand(tok, si) = {tok} \cap vms(Names(si))
      BY <1>13 DEF expand, vms
    <3> QED BY <1>2, <3>1
  <2>2. match(tok, t, src, si) <=> t = tok
    BY <1>13 DEF match
  <2> QED BY <2>1, <2>2 DEF t
<1>14. CASE tok.kind \in {"@adminvm", "@dispvm"}
  <2>1. t \in expand(tok, si) <=> t = tok
    BY <1>14 DEF expand
  <2>2. match(tok, t, src, si) <=> t = tok
    BY <1>14 DEF match
  <2> QED BY <2>1, <2>2 DEF t
<1> QED
  BY <1>4, <1>6, <1>7, <1>8, <1>9, <1>10, <1>11, <1>12, <1>13, <1>14 DEF Target, Source, t

\* The default template of a domain is one by its form.
LEMMA DefaultTemplate ==
    ASSUME NEW si, NEW source, get_dispvm_template(source, si) # None
    PROVE  get_dispvm_template(source, si).kind = "@dispvm:"
BY Keyword DEF get_dispvm_template

\* What a caller may write.
LEMMA IntendedTokens ==
    /\ IsTok(DefaultVM, IntendedTarget) /\ IsTok(AdminVM, IntendedTarget)
    /\ \A n : n # "dom0" => IsTok(Tok("name", n), IntendedTarget)
<1>1. ASSUME NEW k \in IntendedTarget, NEW v, k # "name" \/ v # "dom0", k \in Exact => v = ""
      PROVE  IsTok(Tok(k, v), IntendedTarget)
  <2>1. Tok(k, v).kind = k /\ Tok(k, v).value = v
    BY TokenParts
  <2>2. Tok(k, v) # Dom0
    BY <1>1, <2>1, Keyword
  <2> QED BY <1>1, <2>1, <2>2 DEF IsTok
<1> QED BY <1>1 DEF DefaultVM, AdminVM, IntendedTarget, Redirect, Exact

\* IntendedTarget.verify(): a name or template that passes is in the system.
LEMMA Verified ==
    ASSUME NEW si, NEW tok, IsTok(tok, IntendedTarget), NEW t, t = verify(tok, si)
    PROVE  /\ t = None \/ IsTok(t, IntendedTarget)
           /\ t.kind \in {"None", "@adminvm", "@default", "@dispvm"} =>
                 t \in {None, AdminVM, DefaultVM, DispVM}
           /\ t.kind = "name" => t.value \in Names(si) /\ t # Dom0
           /\ t.kind = "@dispvm:" => t.value \in Templates(si)
<1>1. /\ tok = Tok(tok.kind, tok.value) /\ tok # Dom0 /\ tok.kind \in IntendedTarget
      /\ tok.kind \in Exact => tok.value = ""
  BY DEF IsTok
<1>3. IsTok(DefaultVM, IntendedTarget)
  BY IntendedTokens
<1>4. CASE tok.kind = "name"
  <2>1. t = IF tok.value \in Names(si) THEN tok ELSE DefaultVM
    BY <1>4 DEF verify
  <2> QED BY <1>1, <1>3, <1>4, <2>1, Keyword
<1>5. CASE tok.kind = "@dispvm:"
  <2>1. t = IF tok.value \in Templates(si) THEN tok ELSE None
    BY <1>5 DEF verify
  <2> QED BY <1>1, <1>5, <2>1, Keyword
<1>6. CASE tok.kind \in {"@adminvm", "@default", "@dispvm"}
  <2>1. t = tok
    BY <1>6 DEF verify
  <2>2. tok \in {AdminVM, DefaultVM, DispVM}
    BY <1>1, <1>6 DEF Exact, AdminVM, DefaultVM, DispVM
  <2> QED BY <1>1, <1>6, <2>1, <2>2
<1> QED BY <1>1, <1>4, <1>5, <1>6 DEF IntendedTarget, Redirect

\* What a caller wrote becomes a token.
LEMMA IntendedToken ==
    ASSUME NEW q \in Requests
    PROVE  IsTok(Intended(q.target), IntendedTarget) \/ Intended(q.target) = None
<1> DEFINE t == q.target
<1>1. /\ t \in [kind : IntendedTarget \cup {"None", "invalid"}, value : STRING]
      /\ t.kind \in Exact \cup {"None"} => t.value = ""
  BY RequestAssumption DEF RequestFields
<1> HIDE DEF t
<1>2. t = Tok(t.kind, t.value)
  BY <1>1, TokenParts
<1>3. IsTok(DefaultVM, IntendedTarget) /\ IsTok(AdminVM, IntendedTarget)
  BY IntendedTokens
<1>4. CASE t.kind = "None"
  <2>1. t = None
    BY <1>1, <1>2, <1>4 DEF None
  <2>2. Intended(t) = DefaultVM
    BY <2>1, Keyword DEF Intended
  <2> QED BY <1>3, <2>2 DEF t
<1>5. CASE t.kind = "name"
  <2>1. Intended(t) = VMToken(t.value)
    BY <1>5, Keyword DEF Intended
  <2>2. t.value # "dom0" => IsTok(Tok("name", t.value), IntendedTarget)
    BY IntendedTokens
  <2> QED BY <1>3, <2>1, <2>2, NameToken DEF t
<1>6. CASE t.kind \in IntendedTarget \ {"name"}
  <2>1. Intended(t) = t
    BY <1>6, Keyword DEF Intended, IntendedTarget, Redirect
  <2>2. IsTok(t, IntendedTarget)
    BY <1>1, <1>2, <1>6, Keyword DEF IsTok
  <2> QED BY <2>1, <2>2 DEF t
<1>7. CASE t.kind = "invalid"
  BY <1>7, Keyword DEF Intended, t
<1> QED BY <1>1, <1>4, <1>5, <1>6, <1>7

-----------------------------------------------------------------------------
(* The first rule that matches *)

\* A set of rule numbers has a least one.
LEMMA LeastIndex ==
    ASSUME NEW T \in SUBSET Nat, T # {}
    PROVE  \E k \in T : \A j \in T : k <= j
<1>1. PICK x \in T : \A y \in T : ~(<<y, x>> \in OpToRel(<, Nat))
  BY NatLessThanWellFounded, WFMin
<1>2. \A y \in T : ~(y < x)
  BY <1>1 DEF OpToRel
<1>3. \A y \in T : x <= y
  BY <1>2, SMT
<1> QED BY <1>3

\* find_matching_rule() returns the first rule that matches, if there is one.
LEMMA FirstMatch ==
    ASSUME rules \in Seq(RuleFields), NEW req
    PROVE  /\ Matching(req) \in SUBSET Nat /\ Matching(req) \subseteq DOMAIN rules
           /\ Matching(req) # {} => \E k \in DOMAIN rules : LeastMatch(k, req)
           /\ \A k \in DOMAIN rules : LeastMatch(k, req) => find_matching_rule(req) = rules[k]
<1>1. DOMAIN rules \subseteq Nat
  BY SMT
<1>2. Matching(req) \in SUBSET Nat /\ Matching(req) \subseteq DOMAIN rules
  BY <1>1 DEF Matching
<1>3. Matching(req) # {} => \E k \in Matching(req) : \A j \in Matching(req) : k <= j
  BY <1>2, LeastIndex
<1>4. ASSUME NEW k \in DOMAIN rules, LeastMatch(k, req) PROVE find_matching_rule(req) = rules[k]
  <2> DEFINE c == CHOOSE i \in Matching(req) : \A j \in Matching(req) : i <= j
  <2>1. c \in Matching(req) /\ \A j \in Matching(req) : c <= j
    BY <1>4 DEF LeastMatch
  <2> HIDE DEF c
  <2>2. c = k
    BY <1>2, <1>4, <2>1, SMT DEF LeastMatch
  <2> QED BY <2>2 DEF find_matching_rule, c
<1> QED BY <1>2, <1>3, <1>4 DEF LeastMatch

\* The verdict on a target is that of the first rule that matches.
LEMMA VerdictGrants ==
    ASSUME rules \in Seq(RuleFields), NEW t, NEW req, req = [request EXCEPT !.target = t]
    PROVE  Verdict(t) # "deny" <=> Grants(req)
<1>1. CASE Matching(req) = {}
  BY <1>1 DEF Verdict, Grants, LeastMatch
<1>2. CASE Matching(req) # {}
  <2>1. PICK k \in DOMAIN rules : LeastMatch(k, req)
    BY <1>2, FirstMatch
  <2>2. find_matching_rule(req) = rules[k]
    BY <2>1, FirstMatch
  <2>3. Verdict(t) = rules[k].action
    BY <1>2, <2>2 DEF Verdict, find_matching_rule
  <2>4. \A j \in DOMAIN rules : LeastMatch(j, req) => j = k
    BY <2>1, SMT DEF LeastMatch
  <2> QED BY <2>1, <2>3, <2>4 DEF Grants
<1> QED BY <1>1, <1>2

-----------------------------------------------------------------------------
(* Resolutions *)

\* Allow.evaluate(): the target of the rule or of the caller, verified.
LEMMA AllowSound ==
    ASSUME system_info \in SystemInfos, NEW r, Acceptable(r),
           NEW req, IsTok(req.target, IntendedTarget),
           NEW res, res = Allow_evaluate(r, req)
    PROVE  /\ res.type \in {"allow", "deny"}
           /\ res.type = "allow" => /\ res.rule = r
                                    /\ Usable(res.target, req.source)
                                    /\ r.autostart \/ allow_no_autostart(res.target)
<1> DEFINE named == IF r.redirect # None THEN r.redirect ELSE req.target
           t == verify(named, system_info)
           target == CASE t = DispVM -> get_dispvm_template(req.source, system_info)
                       [] t = AdminVM -> Dom0
                       [] OTHER -> t
<1>1. res = IF t \in {None, DefaultVM} \/ target = None THEN Denied
            ELSE IF ~r.autostart /\ ~allow_no_autostart(target) THEN Denied
            ELSE Allowed(r, target)
  BY DEF Allow_evaluate
<1>2. IsTok(named, IntendedTarget)
  <2>1. r.redirect # None => IsTok(r.redirect, Redirect)
    BY ClassToken DEF Acceptable, RuleFields
  <2> QED BY <2>1 DEF IsTok, IntendedTarget
<1>3. target = IF t = DispVM THEN get_dispvm_template(req.source, system_info)
               ELSE IF t = AdminVM THEN Dom0 ELSE t
  <2>1. DispVM # AdminVM
    BY Keyword
  <2> QED BY <2>1, SMT
<1> HIDE DEF named
<1>4. /\ t = None \/ IsTok(t, IntendedTarget)
      /\ t.kind \in {"None", "@adminvm", "@default", "@dispvm"} =>
            t \in {None, AdminVM, DefaultVM, DispVM}
      /\ t.kind = "name" => t.value \in Names(system_info)
      /\ t.kind = "@dispvm:" => t.value \in Templates(system_info)
  BY <1>2, Verified
<1> HIDE DEF t, target
<1>5. ASSUME t \notin {None, DefaultVM}, target # None PROVE Usable(target, req.source)
  <2>1. CASE t = DispVM
    BY <1>3, <1>5, <2>1 DEF Usable
  <2>2. CASE t = AdminVM
    <3>1. target = Dom0
      BY <1>3, <2>2, Keyword
    <3> QED BY <3>1, Keyword, SystemAssumption DEF Usable, Dom0
  <2>3. CASE t \notin {DispVM, AdminVM}
    <3>1. target = t /\ t.kind \in {"name", "@dispvm:"}
      BY <1>3, <1>4, <1>5, <2>3 DEF IsTok, IntendedTarget, Redirect
    <3>2. t = Tok(t.kind, t.value)
      BY <1>4, <1>5 DEF IsTok
    <3> QED BY <1>4, <3>1, <3>2 DEF Usable
  <2> QED BY <2>1, <2>2, <2>3
<1>6. CASE res = Denied
  BY <1>6, SMT DEF Denied
<1>7. CASE res # Denied
  <2>1. /\ t \notin {None, DefaultVM} /\ target # None
        /\ r.autostart \/ allow_no_autostart(target)
        /\ res = Allowed(r, target)
    BY <1>1, <1>7
  <2>2. res.type = "allow" /\ res.rule = r /\ res.target = target
    BY <2>1, SMT DEF Allowed
  <2> QED BY <1>5, <2>1, <2>2
<1> QED BY <1>6, <1>7

\* Ask.evaluate(): a resolution to ask has the choices of the rule.
Offered(r, req) == IF r.redirect # None THEN {r.redirect} ELSE collect_targets_for_ask(req)

\* Ask.evaluate() asks, denies or raises; when it asks, it offers the choices of the rule.
LEMMA AskParts ==
    ASSUME NEW r, NEW req, NEW res, res = Ask_evaluate(r, req)
    PROVE  /\ res.type \in {"ask", "deny", "error"}
           /\ res.type = "ask" => res.rule = r /\ res.targets = Choices(r, Offered(r, req))
<1> DEFINE targets == Choices(r, Offered(r, req))
           default == CASE r.default_target = DispVM -> get_dispvm_template(req.source, system_info)
                        [] r.default_target = AdminVM -> Dom0
                        [] OTHER -> r.default_target
<1>1. res \in {Raised, Denied, AskResolution(r, targets, default)}
  BY DEF Ask_evaluate, Offered
<1> HIDE DEF default, targets
<1>2. res \in {Raised, Denied, [type |-> "ask", rule |-> r, targets |-> targets, default_target |-> default]}
  BY <1>1 DEF AskResolution
<1> QED BY <1>2, SMT DEF Raised, Denied, targets

\* With autostart=no, only what runs can be chosen.
LEMMA ChoicesRun ==
    ASSUME NEW r, Acceptable(r), NEW all
    PROVE  /\ Choices(r, all) \subseteq all
           /\ r.autostart => Choices(r, all) = all
           /\ r.autostart \/ \A t \in Choices(r, all) : allow_no_autostart(t)
<1>1. r.autostart \in BOOLEAN
  BY DEF Acceptable, RuleFields
<1> QED BY <1>1 DEF Choices

\* What collect_targets_for_ask() collects can be called.
LEMMA CollectedUsable ==
    ASSUME system_info \in SystemInfos, \A i \in DOMAIN rules : Acceptable(rules[i]),
           NEW req, NEW t \in collect_targets_for_ask(req)
    PROVE  Usable(t, req.source)
<1>1. t \in Keywords(Collected(req), req)
  BY DEF collect_targets_for_ask
<1>2. PICK u \in Collected(req) :
         /\ t # None
         /\ t = IF u = DispVM THEN get_dispvm_template(req.source, system_info)
                ELSE IF u = AdminVM THEN Dom0 ELSE u
  BY <1>1 DEF Keywords
<1>3. PICK i \in Applicable(req) : u \in expand(RuleTarget(rules[i]), system_info)
  BY <1>2 DEF Collected
<1>4. RuleTarget(rules[i]) \in TokenOf(Target)
  <2>1. Acceptable(rules[i])
    BY <1>3 DEF Applicable
  <2>2. rules[i].target \in TokenOf(Target) /\ rules[i].redirect \in TokenOf(Redirect) \cup {None}
    BY <2>1 DEF Acceptable, RuleFields
  <2>3. \A x \in TokenOf(Redirect) : x \in TokenOf(Target)
    BY DEF TokenOf, Redirect, Target, Source
  <2> QED BY <2>2, <2>3 DEF RuleTarget
<1>5. \/ u = AdminVM
      \/ u = DispVM
      \/ u = Tok("name", u.value) /\ u.value \in Names(system_info)
      \/ u.kind = "@dispvm:" /\ u.value \in Templates(system_info)
  BY <1>3, <1>4, ExpandYields
<1>6. CASE u = DispVM
  BY <1>2, <1>6 DEF Usable
<1>7. CASE u = AdminVM
  <2>1. t = Dom0
    BY <1>2, <1>7, Keyword
  <2> QED BY <2>1, Keyword, SystemAssumption DEF Usable, Dom0
<1>8. CASE u \notin {AdminVM, DispVM}
  BY <1>2, <1>5, <1>8 DEF Usable
<1> QED BY <1>6, <1>7, <1>8

\* For a domain other than dom0 and the source, and rules without target=, the
\* backward pass collects what the first match grants.
LEMMA CollectedGranted ==
    ASSUME system_info \in SystemInfos, rules \in Seq(RuleFields),
           \A i \in DOMAIN rules : Acceptable(rules[i]),
           NEW req, IsRequest(req), \A i \in Applicable(req) : rules[i].redirect = None,
           NEW n \in Names(system_info) \ {"dom0", req.source}
    PROVE  Tok("name", n) \in collect_targets_for_ask(req) <=> Grants(To(req, n))
<1> DEFINE t == Tok("name", n)
           E(i) == t \in expand(RuleTarget(rules[i]), system_info)
           A == Applicable(req)
<1>1. t.kind = "name" /\ t.value = n /\ t \notin {DispVM, AdminVM, None, Dom0}
  BY TokenParts, Keyword, SMT
<1>2. t # Tok("name", req.source)
  BY <1>1, TokenParts, SMT
<1>3. t \in collect_targets_for_ask(req) <=> t \in Collected(req)
  <2>1. t \in collect_targets_for_ask(req) <=> t \in Keywords(Collected(req), req)
    BY <1>2 DEF collect_targets_for_ask
  <2>2. get_dispvm_template(req.source, system_info) # t
    BY <1>1, DefaultTemplate
  <2> HIDE DEF t
  <2>3. t \in Keywords(Collected(req), req) <=> t \in Collected(req)
    BY <1>1, <2>2 DEF Keywords
  <2> QED BY <2>1, <2>3
<1>4. t \in Collected(req) <=>
         \E i \in A : /\ rules[i].action # "deny" /\ E(i)
                      /\ \A j \in A : j < i /\ rules[j].action = "deny" => ~E(j)
  BY DEF Collected
<1>5. A \subseteq DOMAIN rules /\ DOMAIN rules \subseteq Nat
  BY SMT DEF Applicable
<1> HIDE DEF t
<1>6. ASSUME NEW i \in DOMAIN rules PROVE i \in Matching(To(req, n)) <=> i \in A /\ E(i)
  <2>1. To(req, n).target = t /\ To(req, n).source = req.source
        /\ To(req, n).service = req.service /\ To(req, n).argument = req.argument
    BY DEF To, IsRequest, t
  <2>2. is_match_but_target(rules[i], To(req, n)) <=> i \in A
    BY <2>1 DEF is_match_but_target, Applicable
  <2>3. i \in A => (E(i) <=> match(rules[i].target, t, req.source, system_info))
    <3>1. rules[i].target \in TokenOf(Target)
      BY DEF Acceptable, RuleFields
    <3>2. i \in A => RuleTarget(rules[i]) = rules[i].target
      BY DEF RuleTarget
    <3> QED BY <3>1, <3>2, ExpandMatches DEF t
  <2> QED BY <2>1, <2>2, <2>3 DEF Matching, is_match
<1> HIDE DEF E, A
<1>7. Matching(To(req, n)) \subseteq DOMAIN rules
  BY DEF Matching
<1>8. ASSUME t \in Collected(req) PROVE Grants(To(req, n))
  <2>1. PICK i \in A : /\ rules[i].action # "deny" /\ E(i)
                       /\ \A j \in A : j < i /\ rules[j].action = "deny" => ~E(j)
    BY <1>4, <1>8
  <2>2. i \in Matching(To(req, n))
    BY <1>5, <1>6, <2>1
  <2>3. PICK k \in DOMAIN rules : LeastMatch(k, To(req, n))
    BY <2>2, FirstMatch
  <2>4. k \in A /\ E(k) /\ k <= i
    BY <1>6, <2>2, <2>3 DEF LeastMatch
  <2>5. rules[k].action # "deny"
    BY <1>5, <2>1, <2>4, SMT
  <2> QED BY <2>3, <2>5 DEF Grants
<1>9. ASSUME Grants(To(req, n)) PROVE t \in Collected(req)
  <2>1. PICK k \in DOMAIN rules : LeastMatch(k, To(req, n)) /\ rules[k].action # "deny"
    BY <1>9 DEF Grants
  <2>2. k \in A /\ E(k)
    BY <1>6, <2>1 DEF LeastMatch
  <2>3. ASSUME NEW j \in A, j < k, E(j) PROVE FALSE
    <3>1. j \in Matching(To(req, n))
      BY <1>5, <1>6, <2>3
    <3>2. k <= j /\ k \in Nat /\ j \in Nat
      BY <1>5, <2>1, <2>3, <3>1 DEF LeastMatch
    <3> QED BY <2>3, <3>2, SMT
  <2> QED BY <1>4, <2>1, <2>2, <2>3
<1> QED BY <1>3, <1>8, <1>9 DEF t

\* AbstractPolicy.evaluate() returns sound resolutions.
LEMMA EvaluateSound ==
    ASSUME system_info \in SystemInfos, rules \in Seq(RuleFields),
           \A i \in DOMAIN rules : Acceptable(rules[i]),
           NEW req, IsRequest(req), IsTok(req.target, IntendedTarget),
           NEW res, res = evaluate(req), res.type \in {"allow", "ask"}
    PROVE  Sound(req, res)
<1>1. Matching(req) # {}
  BY DEF evaluate, Denied
<1>2. PICK k \in DOMAIN rules : LeastMatch(k, req)
  BY <1>1, FirstMatch
<1> DEFINE r == rules[k]
<1>3. find_matching_rule(req) = r
  BY <1>2, FirstMatch
<1>4. Acceptable(r) /\ r.action \in {"allow", "ask", "deny"}
  BY DEF Acceptable, RuleFields, Actions
<1>5. res = CASE r.action = "allow" -> Allow_evaluate(r, req)
              [] r.action = "ask" -> Ask_evaluate(r, req)
              [] r.action = "deny" -> Denied
  BY <1>1, <1>3 DEF evaluate
<1> HIDE DEF r
<1>6. CASE r.action = "allow"
  <2>1. res = Allow_evaluate(r, req)
    BY <1>5, <1>6
  <2>2. /\ res.type = "allow" /\ res.rule = r /\ Usable(res.target, req.source)
        /\ r.autostart \/ allow_no_autostart(res.target)
    BY <1>4, <2>1, AllowSound, SMT
  <2> QED BY <1>2, <1>6, <2>2 DEF Sound, r
<1>7. CASE r.action = "ask"
  <2>1. res = Ask_evaluate(r, req)
    BY <1>5, <1>7
  <2>2. res.type = "ask" /\ res.rule = r /\ res.targets = Choices(r, Offered(r, req))
    BY <2>1, AskParts, SMT
  <2>3. /\ Choices(r, Offered(r, req)) \subseteq Offered(r, req)
        /\ r.autostart => Choices(r, Offered(r, req)) = Offered(r, req)
        /\ r.autostart \/ \A t \in Choices(r, Offered(r, req)) : allow_no_autostart(t)
    BY <1>4, ChoicesRun
  <2>4. ASSUME r.redirect = None, NEW t \in res.targets PROVE Usable(t, req.source)
    <3>1. t \in collect_targets_for_ask(req)
      BY <2>2, <2>3, <2>4 DEF Offered
    <3> QED BY <3>1, CollectedUsable
  <2>5. ChoicesGranted(req, res)
    <3> SUFFICES ASSUME r.redirect = None, r.autostart,
                        \A i \in Applicable(req) : rules[i].redirect = None,
                        NEW n \in Names(system_info) \ {"dom0", req.source}
                 PROVE  Tok("name", n) \in res.targets <=> Grants(To(req, n))
      BY <2>2 DEF ChoicesGranted
    <3>1. res.targets = collect_targets_for_ask(req)
      BY <2>2, <2>3 DEF Offered
    <3> QED BY <3>1, CollectedGranted
  <2>6. \E j \in DOMAIN rules : LeastMatch(j, req) /\ res.rule = rules[j] /\ rules[j].action = res.type
    BY <1>2, <1>7, <2>2 DEF r
  <2>7. r.autostart \/ \A t \in res.targets : allow_no_autostart(t)
    BY <2>2, <2>3
  <2>8. r.redirect # None => \A t \in res.targets : t = r.redirect
    BY <2>2, <2>3 DEF Offered
  <2> QED BY <2>2, <2>4, <2>5, <2>6, <2>7, <2>8 DEF Sound
<1>8. CASE r.action = "deny"
  BY <1>5, <1>8, SMT DEF Denied
<1> QED BY <1>4, <1>6, <1>7, <1>8

\* A resolution stays sound while the rules and the system are the same.
LEMMA SoundKept ==
    ASSUME NEW req, NEW res, Sound(req, res), UNCHANGED <<rules, system_info>>,
           request' = req, resolution' = res
    PROVE  Sound(request, resolution)'
<1>1. rules' = rules /\ system_info' = system_info
  OBVIOUS
<1>2. IsRequest(request)'
  BY DEF Sound, IsRequest
<1>3. Matching(request)' = Matching(req)
  BY <1>1 DEF Matching, is_match, is_match_but_target
<1>4. (\E k \in DOMAIN rules : LeastMatch(k, request) /\ resolution.rule = rules[k]
                               /\ rules[k].action = resolution.type)'
  BY <1>1, <1>3 DEF Sound, LeastMatch
<1>5. \A t : /\ Usable(t, request.source)' <=> Usable(t, req.source)
            /\ allow_no_autostart(t)' <=> allow_no_autostart(t)
  BY <1>1 DEF Usable, allow_no_autostart, get_dispvm_template
<1>6. ASSUME res.type = "allow"
      PROVE  (Usable(resolution.target, request.source)
                /\ (resolution.rule.autostart \/ allow_no_autostart(resolution.target)))'
  <2>1. Usable(res.target, req.source) /\ (res.rule.autostart \/ allow_no_autostart(res.target))
    BY <1>6 DEF Sound
  <2> QED BY <1>1, <2>1 DEF Usable, allow_no_autostart, get_dispvm_template
<1>7. ASSUME res.type = "ask" PROVE ChoicesGranted(request, resolution)'
  <2>1. ChoicesGranted(req, res)
    BY <1>7 DEF Sound
  <2>2. Applicable(request)' = Applicable(req)
    BY <1>1 DEF Applicable, is_match_but_target
  <2>3. ASSUME NEW n PROVE Grants(To(request, n))' <=> Grants(To(req, n))
    <3>1. To(request, n)' = To(req, n)
      BY DEF To
    <3>2. Matching(To(request, n))' = Matching(To(req, n))
      BY <1>1, <3>1 DEF Matching, is_match, is_match_but_target
    <3> QED BY <1>1, <3>2 DEF Grants, LeastMatch
  <2> QED BY <1>1, <2>1, <2>2, <2>3 DEF ChoicesGranted
<1>8. ASSUME res.type = "ask"
      PROVE  /\ (resolution.rule.redirect = None => \A t \in resolution.targets : Usable(t, request.source))'
             /\ (resolution.rule.redirect # None => \A t \in resolution.targets : t = resolution.rule.redirect)'
             /\ (resolution.rule.autostart \/ \A t \in resolution.targets : allow_no_autostart(t))'
  <2>1. /\ res.rule.redirect = None => \A t \in res.targets : Usable(t, req.source)
        /\ res.rule.redirect # None => \A t \in res.targets : t = res.rule.redirect
        /\ res.rule.autostart \/ \A t \in res.targets : allow_no_autostart(t)
    BY <1>8 DEF Sound
  <2>2. (resolution.rule.redirect = None => \A t \in resolution.targets : Usable(t, request.source))'
    BY <1>1, <2>1 DEF Usable, get_dispvm_template
  <2>3. (resolution.rule.autostart \/ \A t \in resolution.targets : allow_no_autostart(t))'
    BY <1>5, <2>1
  <2>4. (resolution.rule.redirect # None => \A t \in resolution.targets : t = resolution.rule.redirect)'
    BY <2>1
  <2> QED BY <2>2, <2>3, <2>4
<1> QED BY <1>2, <1>4, <1>6, <1>7, <1>8 DEF Sound

\* Only an AllowResolution says "allow".
LEMMA ExecuteAllows ==
    ASSUME NEW req, NEW res, Execute(req, res).result = "allow"
    PROVE  res.type = "allow"
<1>1. CASE res.type = "error"
  BY <1>1 DEF Execute, Nothing
<1>2. CASE res.type \notin {"allow", "error"}
  BY <1>2 DEF Execute, Deny
<1> QED BY <1>1, <1>2

\* The user, or assume_yes, can only choose among the targets.
LEMMA ChosenAllows ==
    ASSUME NEW req, NEW res, res.type = "ask", NEW t,
           NEW a, a = Execute(req, handle_user_response(res, t)), a.result = "allow"
    PROVE  AnswerOf(req, res, a)
<1>1. handle_user_response(res, t).type = "allow"
  BY ExecuteAllows
<1>2. t \in res.targets /\ handle_user_response(res, t) = Allowed(res.rule, t)
  BY <1>1 DEF handle_user_response, Denied
<1> QED BY <1>2 DEF AnswerOf

-----------------------------------------------------------------------------
(* The invariant *)

\* Nothing is resolved while the policy is loaded.
LEMMA InitInv == Init => IInv
<1> SUFFICES ASSUME Init PROVE IInv
  OBVIOUS
<1>0. rules = <<>>
  BY DEF Init
<1>1. rules \in Seq(RuleFields) /\ DOMAIN rules = {}
  BY <1>0, SMT
<1>2. resolution.type = "deny"
  BY DEF Init, Denied
<1> QED BY <1>1, <1>2 DEF Init, IInv

\* Steps that leave the resolution alone.
LEMMA Stays ==
    ASSUME IInv, UNCHANGED <<rules, system_info, request, resolution>>
    PROVE  /\ (rules \in Seq(RuleFields) /\ \A i \in DOMAIN rules : Acceptable(rules[i]))'
           /\ (system_info \in SystemInfos)'
           /\ (resolution.type \in {"allow", "ask"} => Sound(request, resolution))'
<1>1. (rules \in Seq(RuleFields) /\ \A i \in DOMAIN rules : Acceptable(rules[i]))'
  BY DEF IInv
<1>2. (system_info \in SystemInfos)'
  BY DEF IInv
<1>3. ASSUME (resolution.type \in {"allow", "ask"})' PROVE Sound(request, resolution)'
  <2>1. PICK req, res : req = request /\ res = resolution
    OBVIOUS
  <2>2. Sound(req, res)
    BY <1>3, <2>1 DEF IInv
  <2> QED BY <2>1, <2>2, SoundKept
<1> QED BY <1>1, <1>2, <1>3

\* load_policy_file(): only rules that parse are appended.
LEMMA RuleStep ==
    ASSUME IInv, NEW r, handle_rule(r)
    PROVE  IInv'
<1>0. pc = "loading" /\ resolution = Denied /\ resolution' = Denied
  BY DEF handle_rule, IInv
<1>1. (resolution.type = "deny")'
  BY <1>0 DEF Denied
<1>2. CASE Acceptable(r)
  <2>1. rules' = Append(rules, r) /\ pc' = "loading" /\ system_info' = system_info
    BY <1>0, <1>2 DEF handle_rule
  <2>2. r \in RuleFields
    BY <1>2 DEF Acceptable
  <2>3. rules' \in Seq(RuleFields) /\ \A i \in DOMAIN rules' : Acceptable(rules'[i])
    <3>1. rules \in Seq(RuleFields) /\ \A i \in DOMAIN rules : Acceptable(rules[i])
      BY DEF IInv
    <3>2. rules' \in Seq(RuleFields) /\ DOMAIN rules' = DOMAIN rules \cup {Len(rules) + 1}
          /\ rules'[Len(rules) + 1] = r /\ \A i \in DOMAIN rules : rules'[i] = rules[i]
      BY <2>1, <2>2, <3>1, SMT
    <3>3. ASSUME NEW i \in DOMAIN rules' PROVE Acceptable(rules'[i])
      <4>1. CASE i = Len(rules) + 1
        BY <1>2, <3>2, <4>1
      <4>2. CASE i \in DOMAIN rules
        BY <3>1, <3>2, <4>2
      <4> QED BY <3>2, <4>1, <4>2
    <3> QED BY <3>2, <3>3
  <2>4. (system_info \in SystemInfos)'
    BY <2>1 DEF IInv
  <2> QED BY <1>0, <1>1, <2>1, <2>3, <2>4 DEF IInv
<1>3. CASE ~Acceptable(r)
  <2>1. pc' = "answered" /\ answer' = Deny
        /\ UNCHANGED <<rules, system_info, request, resolution>>
    BY <1>3 DEF handle_rule, Answers
  <2>2. (answer.result = "deny")'
    BY <2>1 DEF Deny
  <2> QED BY <1>1, <2>1, <2>2, Stays DEF IInv
<1> QED BY <1>2, <1>3

\* What the two handlers of a request have in common.
LEMMA ResolvedStep ==
    ASSUME IInv, UNCHANGED <<rules, system_info>>, NEW req, NEW res,
           request' = req, resolution' = res, IsRequest(req),
           res = Denied \/ (IsTok(req.target, IntendedTarget) /\ res = evaluate(req))
    PROVE  /\ (rules \in Seq(RuleFields) /\ \A i \in DOMAIN rules : Acceptable(rules[i]))'
           /\ (system_info \in SystemInfos)'
           /\ (resolution.type \in {"allow", "ask"} => Sound(request, resolution))'
<1>1. (rules \in Seq(RuleFields) /\ \A i \in DOMAIN rules : Acceptable(rules[i]))'
  BY DEF IInv
<1>2. (system_info \in SystemInfos)'
  BY DEF IInv
<1>3. ASSUME (resolution.type \in {"allow", "ask"})' PROVE Sound(request, resolution)'
  <2>1. res.type \in {"allow", "ask"}
    BY <1>3
  <2>2. IsTok(req.target, IntendedTarget) /\ res = evaluate(req)
    BY <2>1, SMT DEF Denied
  <2>3. Sound(req, res)
    BY <2>1, <2>2, EvaluateSound DEF IInv
  <2> QED BY <2>3, SoundKept
<1> QED BY <1>1, <1>2, <1>3

\* The answer to a request that is not put to the user.
LEMMA AnsweredStep ==
    ASSUME NEW req, NEW res, NEW a, request' = req, resolution' = res, answer' = a,
           a.result = "allow" => AnswerOf(req, res, a)
    PROVE  (answer.result = "allow" => AnswerOf(request, resolution, answer))'
BY DEF AnswerOf

\* The request that is evaluated, and its target.
LEMMA RequestStep ==
    ASSUME NEW q \in Requests, NEW si, NEW t, t = verify(Intended(q.target), si),
           NEW req, req = [q EXCEPT !.target = t]
    PROVE  /\ IsRequest(req) /\ req.target = t /\ req.kind = q.kind
           /\ t # None => IsTok(t, IntendedTarget)
           /\ q.target.kind = "name" /\ q.target.value \in Names(si) => t # None
<1>1. q \in RequestFields
  BY RequestAssumption
<1>2. req = [kind |-> q.kind, service |-> q.service, argument |-> q.argument,
             source |-> q.source, target |-> t]
  BY <1>1 DEF RequestFields
<1>3. IsTok(Intended(q.target), IntendedTarget) \/ Intended(q.target) = None
  BY IntendedToken
<1>4. t # None => IsTok(t, IntendedTarget)
  <2>1. CASE IsTok(Intended(q.target), IntendedTarget)
    BY <2>1, Verified
  <2>2. CASE Intended(q.target) = None
    BY <2>2, Keyword DEF verify
  <2> QED BY <1>3, <2>1, <2>2
<1>5. ASSUME q.target.kind = "name", q.target.value \in Names(si) PROVE t # None
  <2>1. q.target # None
    BY <1>5, Keyword
  <2>2. Intended(q.target) = VMToken(q.target.value)
    BY <1>5, <2>1 DEF Intended
  <2>3. CASE q.target.value = "dom0"
    <3>1. Intended(q.target) = AdminVM
      BY <2>2, <2>3, NameToken
    <3>2. t = AdminVM
      BY <3>1, Keyword DEF verify
    <3> QED BY <3>2, Keyword
  <2>4. CASE q.target.value # "dom0"
    <3>1. Intended(q.target).kind = "name" /\ Intended(q.target).value = q.target.value
      BY <2>2, <2>4, NameToken
    <3>2. t = Intended(q.target)
      BY <1>5, <3>1 DEF verify
    <3> QED BY <3>1, <3>2, Keyword
  <2> QED BY <2>3, <2>4
<1> QED BY <1>2, <1>4, <1>5 DEF IsRequest

\* handle_request() evaluates, and asks, answers for the user or answers.
LEMMA RequestHandled ==
    ASSUME IInv, NEW q \in Requests, handle_request(q)
    PROVE  IInv'
<1>1. PICK t : t = verify(Intended(q.target), system_info)
  OBVIOUS
<1>2. PICK req : req = [q EXCEPT !.target = t]
  OBVIOUS
<1>3. PICK res : res = IF t = None THEN Denied ELSE evaluate(req)
  OBVIOUS
<1>4. PICK said : said = IF res.type = "ask" /\ assume_yes_for_ask(q)
                         THEN handle_user_response(res, t) ELSE res
  OBVIOUS
<1>5. /\ request' = req /\ resolution' = res /\ UNCHANGED <<rules, system_info>>
      /\ \/ res.type = "ask" /\ pc' = "asking"
         \/ Answers(Execute(req, said)) \/ Evaluates(Execute(req, said))
         \/ Answers(Nothing)
  BY <1>1, <1>2, <1>3, <1>4 DEF handle_request
<1>6. IsRequest(req) /\ req.target = t /\ (t # None => IsTok(t, IntendedTarget))
  BY <1>1, <1>2, RequestStep, SMT
<1>7. res = Denied \/ (IsTok(req.target, IntendedTarget) /\ res = evaluate(req))
  BY <1>3, <1>6
<1>8. /\ (rules \in Seq(RuleFields) /\ \A i \in DOMAIN rules : Acceptable(rules[i]))'
      /\ (system_info \in SystemInfos)'
      /\ (resolution.type \in {"allow", "ask"} => Sound(request, resolution))'
  BY <1>5, <1>6, <1>7, ResolvedStep
<1>9. CASE res.type = "ask" /\ pc' = "asking"
  BY <1>5, <1>8, <1>9 DEF IInv
<1>10. ASSUME NEW a \in {Execute(req, said), Nothing}, Answers(a) \/ Evaluates(a) PROVE IInv'
  <2>1. ASSUME a.result = "allow" PROVE AnswerOf(req, res, a)
    <3>0. Nothing.result # "allow"
      BY DEF Nothing
    <3>1. a = Execute(req, said)
      BY <2>1, <3>0
    <3>2. CASE said = res
      BY <2>1, <3>1, <3>2, ExecuteAllows DEF AnswerOf
    <3>3. CASE res.type = "ask" /\ said = handle_user_response(res, t)
      BY <2>1, <3>1, <3>3, ChosenAllows
    <3> QED BY <1>4, <3>2, <3>3
  <2>2. answer' = a /\ pc' \in {"evaluated", "answered"}
    BY <1>10 DEF Answers, Evaluates
  <2>3. (answer.result = "allow" => AnswerOf(request, resolution, answer))'
    BY <1>5, <2>1, <2>2, AnsweredStep
  <2> QED BY <1>8, <2>2, <2>3 DEF IInv
<1> QED BY <1>5, <1>9, <1>10

\* qrexec_policy_eval() for a GUI domain answers at once.
LEMMA EvalHandled ==
    ASSUME IInv, NEW q \in Requests, qrexec_policy_eval(q)
    PROVE  IInv'
<1>1. PICK t : t = verify(Intended(q.target), system_info)
  OBVIOUS
<1>2. PICK req : req = [q EXCEPT !.target = t]
  OBVIOUS
<1>3. PICK res : res = IF Provides(q) THEN evaluate(req) ELSE Denied
  OBVIOUS
<1>4. PICK said : said = IF res.type = "ask" THEN handle_user_response(res, req.target) ELSE res
  OBVIOUS
<1>5. PICK a : a = IF Provides(q) THEN Execute(req, said) ELSE Nothing
  OBVIOUS
<1>6. request' = req /\ resolution' = res /\ Evaluates(a) /\ UNCHANGED <<rules, system_info>>
  BY <1>1, <1>2, <1>3, <1>4, <1>5 DEF qrexec_policy_eval
<1>7. /\ IsRequest(req) /\ req.target = t /\ (t # None => IsTok(t, IntendedTarget))
      /\ q.target.kind = "name" /\ q.target.value \in Names(system_info) => t # None
  BY <1>1, <1>2, RequestStep, SMT
<1>8. Provides(q) => t # None
  BY <1>7 DEF Provides
<1>9. res = Denied \/ (IsTok(req.target, IntendedTarget) /\ res = evaluate(req))
  BY <1>3, <1>7, <1>8
<1>10. /\ (rules \in Seq(RuleFields) /\ \A i \in DOMAIN rules : Acceptable(rules[i]))'
       /\ (system_info \in SystemInfos)'
       /\ (resolution.type \in {"allow", "ask"} => Sound(request, resolution))'
  BY <1>6, <1>7, <1>9, ResolvedStep
<1>11. ASSUME a.result = "allow" PROVE AnswerOf(req, res, a)
  <2>1. a = Execute(req, said)
    BY <1>5, <1>11 DEF Nothing
  <2>2. CASE res.type = "ask"
    BY <1>4, <1>11, <2>1, <2>2, ChosenAllows
  <2>3. CASE res.type # "ask"
    BY <1>4, <1>11, <2>1, <2>3, ExecuteAllows DEF AnswerOf
  <2> QED BY <2>2, <2>3
<1>12. answer' = a /\ pc' = "evaluated"
  BY <1>6 DEF Evaluates
<1>13. (answer.result = "allow" => AnswerOf(request, resolution, answer))'
  BY <1>6, <1>11, <1>12, AnsweredStep
<1> QED BY <1>10, <1>12, <1>13 DEF IInv

\* The user allows one of the targets, or is not heard.
LEMMA UserStep ==
    ASSUME IInv, NEW t, user_allows(t)
    PROVE  IInv'
<1>1. PICK req, res : req = request /\ res = resolution
  OBVIOUS
<1>2. PICK a : a = Execute(req, handle_user_response(res, t))
  OBVIOUS
<1>3. res.type = "ask"
  BY <1>1 DEF IInv, user_allows
<1>4. a.result = "allow" => AnswerOf(req, res, a)
  BY <1>2, <1>3, ChosenAllows
<1>5. /\ request' = req /\ resolution' = res /\ answer' = a /\ pc' = "answered"
      /\ UNCHANGED <<rules, system_info, request, resolution>>
  BY <1>1, <1>2 DEF user_allows, Answers
<1>6. (answer.result = "allow" => AnswerOf(request, resolution, answer))'
  BY <1>4, <1>5, AnsweredStep
<1> QED BY <1>5, <1>6, Stays DEF IInv

\* An answer that does not allow the call.
LEMMA RefusedStep ==
    ASSUME IInv, Answers(Deny) \/ Answers(Nothing),
           UNCHANGED <<rules, system_info>>,
           UNCHANGED <<request, resolution>> \/ resolution' = Denied
    PROVE  IInv'
<1>1. pc' = "answered" /\ answer' \in {Deny, Nothing}
  BY DEF Answers
<1>2. Deny.result # "allow" /\ Nothing.result # "allow"
  BY DEF Deny, Nothing
<1>3. (answer.result # "allow")'
  BY <1>1, <1>2
<1>4. CASE UNCHANGED <<request, resolution>>
  BY <1>1, <1>3, <1>4, Stays DEF IInv
<1>5. CASE resolution' = Denied
  <2>1. (resolution.type = "deny")'
    BY <1>5 DEF Denied
  <2> QED BY <1>1, <1>3, <2>1 DEF IInv
<1> QED BY <1>4, <1>5

\* Every step keeps the invariant.
LEMMA NextInv == IInv /\ [Next]_vars => IInv'
<1> SUFFICES ASSUME IInv, [Next]_vars PROVE IInv'
  OBVIOUS
<1>1. CASE \E r \in Rules(rules) : handle_rule(r)
  BY <1>1, RuleStep
<1>2. CASE \E q \in Requests : handle_request(q)
  BY <1>2, RequestHandled
<1>3. CASE \E q \in Requests : qrexec_policy_eval(q)
  BY <1>3, EvalHandled
<1>4. CASE no_system_info
  BY <1>4, RefusedStep DEF no_system_info
<1>5. CASE \E t \in Targets : user_allows(t)
  BY <1>5, UserStep
<1>6. CASE \E reply \in Replies : user_replies(reply)
  BY <1>6, RefusedStep DEF user_replies
<1>7. CASE UNCHANGED vars
  <2>1. UNCHANGED <<rules, system_info, request, resolution>> /\ pc' = pc /\ answer' = answer
    BY <1>7 DEF vars
  <2>2. (pc = "answered" /\ answer.result = "allow" => AnswerOf(request, resolution, answer))'
    BY <2>1 DEF IInv, AnswerOf
  <2> QED BY <2>1, <2>2, Stays DEF IInv
<1> QED BY <1>1, <1>2, <1>3, <1>4, <1>5, <1>6, <1>7 DEF Next, Over

\* The invariant holds.
LEMMA Invariance == Spec => []IInv
<1>1. Init => IInv
  BY InitInv
<1>2. IInv /\ [Next]_vars => IInv'
  BY NextInv
<1> QED BY <1>1, <1>2, PTL DEF Spec

-----------------------------------------------------------------------------
(* The properties *)

\* What an answer that allows a call comes from: a resolution that is sound,
\* and a target of it.
LEMMA AllowedBy ==
    ASSUME IInv, pc = "answered", answer.result = "allow"
    PROVE  /\ resolution.type \in {"allow", "ask"} /\ Sound(request, resolution)
           /\ \E t : /\ answer = Execute(request, Allowed(resolution.rule, t))
                     /\ resolution.type = "allow" => t = resolution.target
                     /\ resolution.type = "ask" => t \in resolution.targets
<1>1. AnswerOf(request, resolution, answer)
  BY DEF IInv
<1>2. resolution.type \in {"allow", "ask"}
  BY <1>1 DEF AnswerOf
<1>3. Sound(request, resolution)
  BY <1>2 DEF IInv
<1>4. CASE resolution.type = "allow"
  <2>1. answer = Execute(request, resolution)
    BY <1>1, <1>4 DEF AnswerOf
  <2> DEFINE res == Allowed(resolution.rule, resolution.target)
  <2>2. res.type = resolution.type /\ res.target = resolution.target
    BY <1>4 DEF Allowed
  <2> HIDE DEF res
  <2>3. Execute(request, resolution) = Execute(request, res)
    BY <1>4, <2>2 DEF Execute
  <2> QED BY <1>3, <1>4, <2>1, <2>3 DEF res
<1>5. CASE resolution.type = "ask"
  <2>1. \E t \in resolution.targets : answer = Execute(request, Allowed(resolution.rule, t))
    BY <1>1, <1>5 DEF AnswerOf
  <2> QED BY <1>3, <1>5, <2>1
<1> QED BY <1>2, <1>4, <1>5

\* A call that is allowed names its target, which is not the source.
LEMMA AllowedCall ==
    ASSUME NEW req, NEW r, NEW t, NEW a, a = Execute(req, Allowed(r, t)),
           a.result = "allow", req.kind = "call"
    PROVE  a.target = t /\ t # Tok("name", req.source)
<1> DEFINE res == Allowed(r, t)
<1>1. res.type = "allow" /\ res.target = t
  BY DEF Allowed
<1> HIDE DEF res
<1>2. ~just_evaluate(req)
  BY DEF just_evaluate
<1>3. a = IF t = Tok("name", req.source) THEN Deny ELSE Allow(t)
  <2>1. a = Execute(req, res)
    BY DEF res
  <2> QED BY <1>1, <1>2, <2>1 DEF Execute
<1> QED BY <1>3, SMT DEF Deny, Allow

\* A call that is allowed, by a rule or by the user, goes to a domain that
\* exists, other than its source, to a disposable of a template that may have
\* them, or to what is configured and not checked: a disposable of the source's
\* default_dispvm, and the target= of an "ask" rule.  This is so whatever the
\* policy and the system: verify() and expand() check every other target, and
\* handle_user_response() keeps the user to the choices.
THEOREM TargetsCorrect == Spec => []AllowedTargetUsable
<1>1. IInv => AllowedTargetUsable
  <2> SUFFICES ASSUME IInv, pc = "answered", answer.result = "allow", request.kind = "call"
               PROVE  /\ answer.target # Tok("name", request.source)
                      /\ \/ Usable(answer.target, request.source)
                         \/ resolution.type = "ask" /\ resolution.rule.redirect # None
                            /\ answer.target = resolution.rule.redirect
    BY TokenParts DEF AllowedTargetUsable, Usable
  <2>1. PICK t : /\ answer = Execute(request, Allowed(resolution.rule, t))
                 /\ resolution.type = "allow" => t = resolution.target
                 /\ resolution.type = "ask" => t \in resolution.targets
    BY AllowedBy
  <2>2. answer.target = t /\ t # Tok("name", request.source)
    BY <2>1, AllowedCall, SMT
  <2>3. \/ Usable(t, request.source)
        \/ resolution.type = "ask" /\ resolution.rule.redirect # None /\ t = resolution.rule.redirect
    BY <2>1, AllowedBy DEF Sound
  <2> QED BY <2>2, <2>3
<1> QED BY <1>1, Invariance, PTL

\* autostart=no: whatever the policy, the system and what the user chooses, an
\* answer never needs a domain to be started.  Both the check of Allow and the
\* filter of Ask are needed, and that system_info is read once per request.
THEOREM AutostartCorrect == Spec => []AutostartRespected
<1>1. IInv => AutostartRespected
  <2> SUFFICES ASSUME IInv, pc = "answered", answer.result = "allow", request.kind = "call",
                      ~resolution.rule.autostart
               PROVE  \/ answer.target = AdminVM
                      \/ answer.target.kind = "name" /\ system_info[answer.target.value].running
    BY DEF AutostartRespected
  <2>1. PICK t : /\ answer = Execute(request, Allowed(resolution.rule, t))
                 /\ resolution.type = "allow" => t = resolution.target
                 /\ resolution.type = "ask" => t \in resolution.targets
    BY AllowedBy
  <2>2. answer.target = t
    BY <2>1, AllowedCall, SMT
  <2>3. allow_no_autostart(t)
    BY <2>1, AllowedBy DEF Sound
  <2> QED BY <2>2, <2>3 DEF allow_no_autostart
<1> QED BY <1>1, Invariance, PTL

-----------------------------------------------------------------------------
(* Evaluations predict calls *)

\* What an evaluation said of a call, and the resolution of that call
Agree(req, res, said) ==
    /\ said = "allow" => res.type = "allow" \/ (res.type = "ask" /\ req.target \in res.targets)
    /\ said = "deny" => res.type # "allow" /\ (res.type = "ask" => req.target \notin res.targets)

\* An evaluation agrees with what the policy says, and so does, after it, the
\* resolution of the same call; no rule is read after an evaluation.
EInv ==
    /\ pc = "loading" => evaluated.result = ""
    /\ pc = "evaluated" =>
          /\ evaluated.request = request
          /\ evaluated.result # "" /\ request.target.kind = "name" =>
                Agree(request, evaluate(request), evaluated.result)
    /\ pc \in {"asking", "answered"} /\ evaluated.result # "" /\ request.kind = "call"
            /\ request.target.kind = "name" /\ SameCall(evaluated.request, request) =>
          Agree(request, resolution, evaluated.result)
    /\ pc = "answered" /\ request.kind = "call" /\ resolution.type = "allow" =>
          answer.result = "allow" \/ resolution.target = Tok("name", request.source)

\* What the policy says depends on the service, the argument, the source and the
\* target alone: not on who asks, and why.
LEMMA EvaluateSame ==
    ASSUME NEW a, NEW b, SameCall(a, b)
    PROVE  evaluate(a) = evaluate(b)
<1>1. a.service = b.service /\ a.argument = b.argument /\ a.source = b.source /\ a.target = b.target
  BY DEF SameCall
<1>2. \A r : is_match_but_target(r, a) <=> is_match_but_target(r, b)
  BY <1>1 DEF is_match_but_target
<1>3. \A r : is_match(r, a) <=> is_match(r, b)
  BY <1>1, <1>2 DEF is_match
<1>4. Matching(a) = Matching(b) /\ Applicable(a) = Applicable(b)
  BY <1>2, <1>3 DEF Matching, Applicable
<1>5. find_matching_rule(a) = find_matching_rule(b)
  BY <1>4 DEF find_matching_rule
<1>6. Collected(a) = Collected(b)
  BY <1>4 DEF Collected
<1>7. \A T : Keywords(T, a) = Keywords(T, b)
  BY <1>1 DEF Keywords
<1>8. collect_targets_for_ask(a) = collect_targets_for_ask(b)
  BY <1>1, <1>6, <1>7 DEF collect_targets_for_ask
<1>9. \A r : Allow_evaluate(r, a) = Allow_evaluate(r, b)
  BY <1>1, SMT DEF Allow_evaluate
<1>10. \A r : Ask_evaluate(r, a) = Ask_evaluate(r, b)
  BY <1>1, <1>4, <1>8, SMT DEF Ask_evaluate
<1>11. /\ Allow_evaluate(find_matching_rule(a), a) = Allow_evaluate(find_matching_rule(b), b)
       /\ Ask_evaluate(find_matching_rule(a), a) = Ask_evaluate(find_matching_rule(b), b)
  BY <1>5, <1>9, <1>10
<1> QED BY <1>4, <1>5, <1>11, SMT DEF evaluate

\* It is the same while the rules and the system are.
LEMMA EvaluateKept ==
    ASSUME NEW req, request' = req, UNCHANGED <<rules, system_info>>
    PROVE  evaluate(request)' = evaluate(req)
<1>1. rules' = rules /\ system_info' = system_info
  OBVIOUS
<1>2. Matching(request)' = Matching(req)
  BY <1>1 DEF Matching, is_match, is_match_but_target
<1>3. Applicable(request)' = Applicable(req)
  BY <1>1 DEF Applicable, is_match_but_target
<1>4. find_matching_rule(request)' = find_matching_rule(req)
  BY <1>1, <1>2 DEF find_matching_rule
<1>5. Collected(request)' = Collected(req)
  BY <1>1, <1>3, SMT DEF Collected
<1>6. collect_targets_for_ask(request)' = collect_targets_for_ask(req)
  BY <1>1, <1>5 DEF collect_targets_for_ask, Keywords
<1>7. \A t : /\ allow_no_autostart(t)' <=> allow_no_autostart(t)
             /\ allow_no_autostart_fails(t)' <=> allow_no_autostart_fails(t)
  BY <1>1 DEF allow_no_autostart, allow_no_autostart_fails
<1>8. \A r : Allow_evaluate(r, request)' = Allow_evaluate(r, req)
  BY <1>1, <1>7, SMT DEF Allow_evaluate
<1>9. \A r, all : Choices(r, all)' = Choices(r, all)
  BY <1>7 DEF Choices
<1>10. \A r : Ask_evaluate(r, request)' = Ask_evaluate(r, req)
  BY <1>1, <1>3, <1>6, <1>7, <1>9, SMT DEF Ask_evaluate
<1>11. /\ Allow_evaluate(find_matching_rule(request), request)' = Allow_evaluate(find_matching_rule(req), req)
       /\ Ask_evaluate(find_matching_rule(request), request)' = Ask_evaluate(find_matching_rule(req), req)
  BY <1>4, <1>8, <1>10
<1> QED BY <1>2, <1>4, <1>11, SMT DEF evaluate

\* EvalSimple and EvalGUI say "allow" for a call that is allowed, or that the
\* user may allow to its target.
LEMMA EvaluationSays ==
    ASSUME NEW req, just_evaluate(req), NEW res, NEW said,
           said = IF res.type = "ask" THEN handle_user_response(res, req.target) ELSE res
    PROVE  Agree(req, res, Execute(req, said).result)
<1> DEFINE a == Execute(req, said)
<1>1. said.type = "allow" => a.result = "allow"
  BY DEF Execute, Allow
<1>2. a.result = "allow" => said.type = "allow"
  BY ExecuteAllows
<1> HIDE DEF a
<1>3. CASE res.type = "ask"
  <2>1. req.target \in res.targets => said = Allowed(res.rule, req.target)
    BY <1>3 DEF handle_user_response
  <2>2. req.target \notin res.targets => said = Denied
    BY <1>3 DEF handle_user_response
  <2>3. Allowed(res.rule, req.target).type = "allow" /\ Denied.type = "deny"
    BY DEF Allowed, Denied
  <2>4. req.target \in res.targets <=> said.type = "allow"
    BY <2>1, <2>2, <2>3
  <2> QED BY <1>1, <1>2, <1>3, <2>4 DEF Agree, a
<1>4. CASE res.type # "ask"
  BY <1>1, <1>2, <1>4 DEF Agree, a
<1> QED BY <1>3, <1>4

\* After an evaluation.
LEMMA EvaluatedStep ==
    ASSUME NEW req, NEW a, Evaluates(a),
           request' = req, UNCHANGED <<rules, system_info>>,
           a.result # "" /\ req.target.kind = "name" => Agree(req, evaluate(req), a.result)
    PROVE  EInv'
<1>1. pc' = "evaluated" /\ evaluated' = [request |-> req, result |-> a.result]
  BY DEF Evaluates
<1>2. (evaluated.request = request)' /\ evaluated'.result = a.result
  BY <1>1
<1>3. evaluate(request)' = evaluate(req)
  BY EvaluateKept
<1>4. (evaluated.result # "" /\ request.target.kind = "name" =>
          Agree(request, evaluate(request), evaluated.result))'
  BY <1>2, <1>3 DEF Agree
<1> QED BY <1>1, <1>2, <1>4 DEF EInv

\* After any other request.
LEMMA CallStep ==
    ASSUME NEW req, NEW res, request' = req, resolution' = res, UNCHANGED evaluated, EInv,
           pc \in {"loading", "evaluated"}, pc' \in {"asking", "answered"},
           req.target.kind = "name" => res = evaluate(req),
           pc' = "answered" /\ req.kind = "call" /\ res.type = "allow" =>
               answer'.result = "allow" \/ res.target = Tok("name", req.source)
    PROVE  EInv'
<1>1. ASSUME evaluated.result # "", req.kind = "call", req.target.kind = "name",
             SameCall(evaluated.request, req)
      PROVE  Agree(req, res, evaluated.result)
  <2>1. pc = "evaluated"
    BY <1>1 DEF EInv
  <2>2. request.target = req.target /\ SameCall(request, req)
    BY <1>1, <2>1 DEF EInv, SameCall
  <2>3. Agree(request, evaluate(request), evaluated.result)
    BY <1>1, <2>1, <2>2 DEF EInv
  <2>4. evaluate(request) = res
    BY <1>1, <2>2, EvaluateSame
  <2> QED BY <2>2, <2>3, <2>4 DEF Agree
<1>2. (evaluated.result # "" /\ request.kind = "call" /\ request.target.kind = "name"
          /\ SameCall(evaluated.request, request) => Agree(request, resolution, evaluated.result))'
  BY <1>1 DEF Agree, SameCall
<1> QED BY <1>2 DEF EInv

\* handle_request() of a call that a rule allows.
LEMMA AllowedUnlessLoop ==
    ASSUME NEW req, req.kind = "call", NEW res, res.type = "allow"
    PROVE  Execute(req, res).result = "allow" \/ (/\ res.target = Tok("name", req.source)
                                                  /\ Execute(req, res) = Deny)
<1>1. ~just_evaluate(req)
  BY DEF just_evaluate
<1>2. Execute(req, res) = IF res.target = Tok("name", req.source) THEN Deny ELSE Allow(res.target)
  BY <1>1 DEF Execute
<1>3. \A t : Allow(t).result = "allow"
  BY DEF Allow
<1> QED BY <1>2, <1>3

\* handle_request() keeps the agreement.
LEMMA RequestAgrees ==
    ASSUME EInv, NEW q \in Requests, handle_request(q)
    PROVE  EInv'
<1>1. PICK t : t = verify(Intended(q.target), system_info)
  OBVIOUS
<1>2. PICK req : req = [q EXCEPT !.target = t]
  OBVIOUS
<1>3. PICK res : res = IF t = None THEN Denied ELSE evaluate(req)
  OBVIOUS
<1>4. PICK said : said = IF res.type = "ask" /\ assume_yes_for_ask(q)
                         THEN handle_user_response(res, t) ELSE res
  OBVIOUS
<1>5. /\ request' = req /\ resolution' = res /\ UNCHANGED <<rules, system_info>>
      /\ pc \in {"loading", "evaluated"}
      /\ \/ q.kind = "call" /\ res.type = "ask" /\ pc' = "asking" /\ UNCHANGED evaluated
         \/ q.kind = "eval" /\ Evaluates(Execute(req, said))
         \/ \E a : Answers(a) /\ (a = Execute(req, said) \/ (Execute(req, said) = Deny /\ a = Nothing))
  BY <1>1, <1>2, <1>3, <1>4 DEF handle_request
<1>6. req.target = t /\ req.kind = q.kind
  BY <1>1, <1>2, RequestStep, SMT
<1>7. req.target.kind = "name" => res = evaluate(req)
  BY <1>3, <1>6, Keyword
<1>8. CASE q.kind = "call" /\ res.type = "ask" /\ pc' = "asking" /\ UNCHANGED evaluated
  BY <1>5, <1>7, <1>8, CallStep
<1>9. CASE q.kind = "eval" /\ Evaluates(Execute(req, said))
  <2>1. just_evaluate(req) /\ assume_yes_for_ask(q)
    BY <1>6, <1>9 DEF just_evaluate, assume_yes_for_ask
  <2>2. said = IF res.type = "ask" THEN handle_user_response(res, req.target) ELSE res
    BY <1>4, <1>6, <2>1
  <2>3. PICK a : a = Execute(req, said)
    OBVIOUS
  <2>4. Agree(req, res, a.result)
    BY <2>1, <2>2, <2>3, EvaluationSays
  <2> QED BY <1>5, <1>7, <1>9, <2>3, <2>4, EvaluatedStep
<1>10. ASSUME NEW a, Answers(a), a = Execute(req, said) \/ (Execute(req, said) = Deny /\ a = Nothing)
       PROVE  EInv'
  <2>1. pc' = "answered" /\ answer' = a /\ UNCHANGED evaluated
    BY <1>10 DEF Answers
  <2>2. ASSUME req.kind = "call", res.type = "allow"
        PROVE  a.result = "allow" \/ res.target = Tok("name", req.source)
    <3>1. said = res
      BY <1>4, <2>2
    <3>2. Deny.result # "allow"
      BY DEF Deny
    <3> QED BY <1>10, <2>2, <3>1, <3>2, AllowedUnlessLoop
  <2> QED BY <1>5, <1>7, <2>1, <2>2, CallStep
<1> QED BY <1>5, <1>8, <1>9, <1>10

\* qrexec_policy_eval() keeps the agreement: who may not ask is told nothing.
LEMMA EvalAgrees ==
    ASSUME EInv, NEW q \in Requests, qrexec_policy_eval(q)
    PROVE  EInv'
<1>1. PICK t : t = verify(Intended(q.target), system_info)
  OBVIOUS
<1>2. PICK req : req = [q EXCEPT !.target = t]
  OBVIOUS
<1>3. PICK res : res = IF Provides(q) THEN evaluate(req) ELSE Denied
  OBVIOUS
<1>4. PICK said : said = IF res.type = "ask" THEN handle_user_response(res, req.target) ELSE res
  OBVIOUS
<1>5. PICK a : a = IF Provides(q) THEN Execute(req, said) ELSE Nothing
  OBVIOUS
<1>6. request' = req /\ Evaluates(a) /\ UNCHANGED <<rules, system_info>> /\ q.kind = "eval_gui"
  BY <1>1, <1>2, <1>3, <1>4, <1>5 DEF qrexec_policy_eval
<1>7. req.target = t /\ req.kind = q.kind
  BY <1>1, <1>2, RequestStep, SMT
<1>8. just_evaluate(req)
  BY <1>6, <1>7 DEF just_evaluate
<1>9. ASSUME a.result # "" PROVE Agree(req, evaluate(req), a.result)
  <2>1. Provides(q)
    BY <1>5, <1>9 DEF Nothing
  <2> QED BY <1>3, <1>4, <1>5, <1>8, <2>1, EvaluationSays
<1> QED BY <1>6, <1>9, EvaluatedStep

\* An answer to a question put to the user, or to a request for which there is
\* no system_info.
LEMMA AnswerAgrees ==
    ASSUME IInv, EInv, pc' = "answered", UNCHANGED evaluated,
           \/ pc = "asking" /\ UNCHANGED <<request, resolution>>
           \/ request' = NoRequest /\ resolution' = Denied
    PROVE  EInv'
<1>1. CASE pc = "asking" /\ UNCHANGED <<request, resolution>>
  <2>1. (resolution.type = "ask")'
    BY <1>1 DEF IInv
  <2>2. (evaluated.result # "" /\ request.kind = "call" /\ request.target.kind = "name"
            /\ SameCall(evaluated.request, request) => Agree(request, resolution, evaluated.result))'
    BY <1>1 DEF EInv, Agree, SameCall
  <2> QED BY <2>1, <2>2 DEF EInv
<1>2. CASE request' = NoRequest /\ resolution' = Denied
  <2>1. (request.kind # "call")'
    BY <1>2 DEF NoRequest
  <2> QED BY <2>1 DEF EInv
<1> QED BY <1>1, <1>2

\* Every step keeps the agreement.
LEMMA NextAgrees == IInv /\ EInv /\ [Next]_vars => EInv'
<1> SUFFICES ASSUME IInv, EInv, [Next]_vars PROVE EInv'
  OBVIOUS
<1>1. CASE \E r \in Rules(rules) : handle_rule(r)
  <2>1. /\ pc = "loading" /\ pc' \in {"loading", "answered"} /\ UNCHANGED <<evaluated, request, resolution>>
        /\ resolution = Denied
    BY <1>1 DEF handle_rule, Answers, IInv
  <2>2. (evaluated.result = "")' /\ (resolution.type # "allow")'
    BY <2>1 DEF EInv, Denied
  <2> QED BY <2>1, <2>2 DEF EInv
<1>2. CASE \E q \in Requests : handle_request(q)
  BY <1>2, RequestAgrees
<1>3. CASE \E q \in Requests : qrexec_policy_eval(q)
  BY <1>3, EvalAgrees
<1>4. CASE no_system_info
  BY <1>4, AnswerAgrees DEF no_system_info, Answers
<1>5. CASE (\E t \in Targets : user_allows(t)) \/ (\E reply \in Replies : user_replies(reply))
  BY <1>5, AnswerAgrees DEF user_allows, user_replies, Answers
<1>6. CASE UNCHANGED vars
  <2>1. PICK req : req = request
    OBVIOUS
  <2>2. /\ pc' = pc /\ answer' = answer /\ evaluated' = evaluated /\ request' = request
        /\ resolution' = resolution /\ UNCHANGED <<rules, system_info>>
    BY <1>6 DEF vars
  <2>3. evaluate(request)' = evaluate(req)
    BY <2>1, <2>2, EvaluateKept
  <2> QED BY <2>1, <2>2, <2>3 DEF EInv, Agree, SameCall
<1> QED BY <1>1, <1>2, <1>3, <1>4, <1>5, <1>6 DEF Next, Over

\* policy.EvalSimple and policy.EvalGUI predict a later call for every policy and
\* system, as long as these stay the same: an evaluation and a call come to the
\* same resolution, and differ only in who decides when the rule says ask.
THEOREM EvaluationCorrect == Spec => []EvaluationPredicts
<1>1. Init => EInv
  <2>1. [request |-> NoRequest, result |-> ""].result = ""
    OBVIOUS
  <2> QED BY <2>1 DEF Init, EInv
<1>2. IInv /\ EInv => EvaluationPredicts
  <2> SUFFICES ASSUME IInv, EInv, pc \in {"asking", "answered"}, request.kind = "call",
                      request.target.kind = "name", SameCall(evaluated.request, request)
               PROVE  /\ evaluated.result = "deny" /\ answer.result = "allow" /\ pc = "answered" =>
                            resolution.type = "ask" /\ answer.target # request.target
                      /\ evaluated.result = "allow" /\ pc = "answered" /\ answer.result # "allow" =>
                            \/ resolution.type = "ask"
                            \/ resolution.type = "allow" /\ resolution.target = Tok("name", request.source)
                      /\ evaluated.result = "allow" /\ pc = "asking" => request.target \in resolution.targets
    BY DEF EvaluationPredicts
  <2>1. evaluated.result # "" => Agree(request, resolution, evaluated.result)
    BY DEF EInv
  <2>2. ASSUME evaluated.result = "deny", answer.result = "allow", pc = "answered"
        PROVE  resolution.type = "ask" /\ answer.target # request.target
    <3>1. PICK t : /\ answer = Execute(request, Allowed(resolution.rule, t))
                   /\ resolution.type = "ask" => t \in resolution.targets
      BY <2>2, AllowedBy
    <3>2. answer.target = t
      BY <2>2, <3>1, AllowedCall, SMT
    <3>3. resolution.type = "ask" /\ request.target \notin resolution.targets
      BY <2>1, <2>2, AllowedBy DEF Agree
    <3> QED BY <3>1, <3>2, <3>3
  <2>3. ASSUME evaluated.result = "allow", pc = "answered", answer.result # "allow"
        PROVE  \/ resolution.type = "ask"
               \/ resolution.type = "allow" /\ resolution.target = Tok("name", request.source)
    BY <2>1, <2>3 DEF Agree, EInv
  <2>4. ASSUME evaluated.result = "allow", pc = "asking" PROVE request.target \in resolution.targets
    BY <2>1, <2>4 DEF Agree, IInv
  <2> QED BY <2>2, <2>3, <2>4
<1> QED BY <1>1, <1>2, Invariance, NextAgrees, PTL DEF Spec

\* The choices the user is given are those for which the rules would result in
\* ask or allow: the backward pass of collect_targets_for_ask() agrees with the
\* first match for every policy without target=, of any length, and every
\* domain other than dom0 and the source.
THEOREM ChoicesCorrect == Spec => []ChoicesAreGranted
<1>1. IInv => ChoicesAreGranted
  <2> SUFFICES ASSUME IInv, Asked, resolution.rule.autostart,
                      \A i \in Applicable(request) : rules[i].redirect = None,
                      NEW n \in Names(system_info) \ {"dom0", request.source}
               PROVE  Tok("name", n) \in resolution.targets <=> Verdict(Tok("name", n)) # "deny"
    BY DEF ChoicesAreGranted
  <2>1. resolution.type = "ask" /\ resolution.rule.redirect = None
    BY DEF Asked
  <2>2. ChoicesGranted(request, resolution)
    BY <2>1 DEF IInv, Sound
  <2>3. Tok("name", n) \in resolution.targets <=> Grants(To(request, n))
    BY <2>1, <2>2 DEF ChoicesGranted
  <2>4. PICK req, t : req = To(request, n) /\ t = Tok("name", n)
    OBVIOUS
  <2>5. req = [request EXCEPT !.target = t]
    BY <2>4 DEF To
  <2>6. Verdict(t) # "deny" <=> Grants(req)
    BY <2>5, VerdictGrants DEF IInv
  <2> QED BY <2>3, <2>4, <2>6
<1> QED BY <1>1, Invariance, PTL
=============================================================================
