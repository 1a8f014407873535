------------------------------ MODULE Admission ------------------------------
(***************************************************************************)
(* What a webhook delivery has to pass before its repository is queued:    *)
(* the configuration check at start (adapters/inbound/http/config.go), the *)
(* handler (adapters/inbound/webhook/handler.go), the allow rules and the  *)
(* clone URL (app/reposync/admission.go, cloneurl.go).                     *)
(*                                                                         *)
(* A repository name is its sequence of "/"-separated segments, a segment  *)
(* the sequence of its "-"-separated parts, so that a namespace, which     *)
(* writes "-" for "/", is the concatenation of segments.  A rule is a name *)
(* that may end in Star, with a sign and branch patterns, each the set of  *)
(* branches it matches.                                                    *)
(***************************************************************************)
EXTENDS Naturals, Sequences, FiniteSets, SequencesExt

Star == <<"*">>

\* The empty segment, ".", and "..".
Unclean == {<<"">>, <<".">>, <<"..">>}

DefaultBranches == {"main", "master"}

-----------------------------------------------------------------------------
\* RepoFilter

Wildcard(rule) == Len(rule.path) >= 2 /\ Last(rule.path) = Star
Prefix(rule) == Front(rule.path)

\* A wildcard looks at the owner alone, however deep the name is.
Matches(rule, name) ==
    IF Wildcard(rule)
    THEN Len(name) >= 2 /\ Prefix(rule) \in {<<Star>>, <<Head(name)>>}
    ELSE name = rule.path

MatchesBranch(rule, branch) ==
    IF rule.branches = <<>> THEN branch \in DefaultBranches
    ELSE \E i \in DOMAIN rule.branches : branch \in rule.branches[i]

\* Every matching rule replaces the decision of those before it.
Decide(allowed, rule, name, branch) ==
    IF ~Matches(rule, name) THEN allowed
    ELSE ~rule.negate /\ MatchesBranch(rule, branch)

IsAllowedBranch(rules, name, branch) ==
    LET decision[i \in 0 .. Len(rules)] ==
            i > 0 /\ Decide(decision[i - 1], rules[i], name, branch)
    IN  decision[Len(rules)]

-----------------------------------------------------------------------------
\* Namespaces, and the rules under which they cannot collide

ExtractNamespace(name) ==
    IF Len(name) < 2 THEN name[1] ELSE FlattenSeq(Tail(name))

AllowRuleOwners(rules) ==
    {Head(rules[i].path) : i \in {j \in DOMAIN rules :
        ~rules[j].negate /\ Len(rules[j].path) >= 2 /\ Head(rules[j].path) # <<"">>}}

\* Mutant of SpanMultipleOwners: a wildcard owner counts as one owner.
SpanManyNamedOwners(rules) == Cardinality(AllowRuleOwners(rules)) > 1

SpanMultipleOwners(rules) ==
    Cardinality(AllowRuleOwners(rules)) > 1 \/ AllowRuleOwners(rules) = {Star}

-----------------------------------------------------------------------------
\* Clone URLs: a base URL is "good", "blank" or "bad" (no scheme or host)

CleanName(name) == Len(name) >= 2 /\ \A i \in DOMAIN name : name[i] \notin Unclean

Refused == [from |-> "refused"]

ResolveCloneURL(name, payloadURL, bases, allowPayload) ==
    LET given == SelectSeq(bases, LAMBDA b : b # "blank")
    IN  IF ~CleanName(name) \/ "bad" \in Range(given) THEN Refused
        ELSE IF given # <<>> THEN [from |-> "base", name |-> name]
        ELSE IF allowPayload /\ payloadURL # "blank" THEN [from |-> "payload", url |-> payloadURL]
        ELSE Refused

\* ValidateConfig, for a server with allow rules.
ValidConfig(c) ==
    /\ ~SpanMultipleOwners(c.rules)
    /\ c.secret = ~c.insecure
    /\ LET given == SelectSeq(c.bases, LAMBDA b : b # "blank")
       IN  /\ c.insecure \/ given # <<>>
           /\ "bad" \notin Range(given)

-----------------------------------------------------------------------------
\* ServeHTTP: the status, and what it hands to the queue

VerifySignature(c, d) == c.insecure \/ (c.secret /\ d.signature = "good")

IsDeleted(d) == d.deleted \/ d.after = "zeros"

Respond(status) == [status |-> status, added |-> <<>>]

QueueStatus(reply) ==
    CASE reply = "ok" -> 200
      [] reply = "full" -> 429
      [] reply = "shutting down" -> 503
      [] OTHER -> 500

ServeHTTP(c, d) ==
    LET url == ResolveCloneURL(d.name, d.url, c.bases, c.insecure)
    IN  IF ~d.readable THEN Respond(400)
        ELSE IF ~VerifySignature(c, d) THEN Respond(403)
        ELSE IF d.event # "push" THEN Respond(200)
        ELSE IF d.body = "bad" THEN Respond(400)
        ELSE IF \/ d.ref # "branch" \/ IsDeleted(d)
                \/ ~IsAllowedBranch(c.rules, d.name, d.branch) THEN Respond(200)
        ELSE IF url = Refused THEN Respond(403)
        ELSE [status |-> QueueStatus(d.queue), added |-> <<d.name, url, d.branch>>]

-----------------------------------------------------------------------------
\* Reference definitions

\* The last rule that matches decides alone.
LastMatchAllows(rules, name, branch) ==
    \E i \in DOMAIN rules :
        /\ Matches(rules[i], name) /\ ~rules[i].negate /\ MatchesBranch(rules[i], branch)
        /\ \A j \in i + 1 .. Len(rules) : ~Matches(rules[j], name)

\* Names with an owner and one segment of their own.
Plain(name) == Len(name) = 2
=============================================================================
