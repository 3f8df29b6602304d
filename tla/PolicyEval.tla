----------------------------- MODULE PolicyEval -----------------------------
(***************************************************************************)
(* How a request is judged against a policy set: PolicySet::evaluate and   *)
(* the functions it calls (skimasque-policy/src/{eval,model,destination}). *)
(* The code is one pure function made of loops: over the policies to       *)
(* select the one that governs the workload, over its rules to find the    *)
(* first that speaks to the request, and over the baselines' rules for one *)
(* that forbids it.  Each iteration is a step here, so that what the loops *)
(* leave behind can be compared with a definition that has no loop in it,  *)
(* and so that the comparison can be proved for policy sets of any size.   *)
(*                                                                         *)
(* A workload identity maps each matchable field to the spellings it       *)
(* answers to: none when the field is absent, two for a repository (the    *)
(* full name and the short one), the branch when the ref is a branch.  A   *)
(* match names some fields and a spelling for each.  A host is a sequence  *)
(* of labels or a family and its octets; the octets are OctetBits wide.    *)
(***************************************************************************)
EXTENDS Integers, Sequences, FiniteSets

CONSTANTS
    Names,      \* policy names
    Fields,     \* the identity fields a match may constrain
    Spellings,  \* what a field may be compared with
    Rules,      \* allow and deny rules
    Contexts,   \* requests: workload, application, transport, destination, pin
    Inputs,     \* the evaluations considered: a policy set and a request
    OctetBits   \* bits of an octet (8 in the code)

MatchSpec == UNION {[D -> Spellings] : D \in SUBSET Fields}

Policy == [name : Names, baseline : BOOLEAN, match : MatchSpec,
           rules : Seq(Rules)]

ASSUME InputsAssumption ==
    /\ IsFiniteSet(Fields)
    /\ Inputs \subseteq [policies : Seq(Policy), ctx : Contexts]

VARIABLES
    policies,  \* the set in force when the evaluation started, in file order
    ctx,       \* RequestContext
    phase,     \* which loop runs: "select", "rules", "baseline"; or "done"
    i, j,      \* the loops' positions: policy and rule
    best,      \* the policy selected so far, 0 for none
    decision   \* Decision: the verdict, and the reason of a denial

vars == <<policies, ctx, phase, i, j, best, decision>>

-----------------------------------------------------------------------------
(* Matching.                                                               *)

\* MatchSpec::matches: every field the match names must be present and equal.
Matches(p) == \A f \in DOMAIN p.match : p.match[f] \in ctx.workload[f]

\* MatchSpec::specificity: how many fields the match constrains.
Specificity(p) == Cardinality(DOMAIN p.match)

BitsMatch_RoundedDown(net, got, len) ==
    SubSeq(net, 1, len \div OctetBits) = SubSeq(got, 1, len \div OctetBits)

\* bits_match: whole octets first, then the masked rest of the next one.
BitsMatch(net, got, len) ==
    LET whole == len \div OctetBits
        remainder == len % OctetBits
        unmasked == 2 ^ (OctetBits - remainder)
    IN  /\ SubSeq(net, 1, whole) = SubSeq(got, 1, whole)
        /\ remainder # 0 =>
            net[whole + 1] \div unmasked = got[whole + 1] \div unmasked

\* DestinationSpec::host_matches.  A suffix matches names that extend it, so
\* not the apex; names never match addresses, nor one family the other.
HostMatches(pattern, host) ==
    \/ pattern.kind = "any"
    \/ /\ pattern.kind = "exact" /\ host.kind = "name"
       /\ pattern.labels = host.labels
    \/ /\ pattern.kind = "suffix" /\ host.kind = "name"
       /\ LET n == Len(host.labels) - Len(pattern.labels)
          IN  n > 0 /\ SubSeq(host.labels, n + 1, Len(host.labels)) = pattern.labels
    \/ /\ pattern.kind \in {"ip", "cidr"} /\ host.kind = "ip"
       /\ pattern.family = host.family
       /\ IF pattern.kind = "ip" THEN pattern.octets = host.octets
          ELSE BitsMatch(pattern.octets, host.octets, pattern.len)

\* PortPattern::matches; Any is the whole range, Exact a range of one.
PortMatches(pattern, port) == pattern.lo <= port /\ port <= pattern.hi

\* Rule::covers, and the search of its destinations: the rule speaks to the
\* application, the transport and the destination of the request.
Speaks(rule) ==
    /\ rule.application \in {"*", ctx.application}
    /\ rule.transport \in {"any", ctx.transport}
    /\ \E d \in rule.destinations :
        PortMatches(d.port, ctx.port) /\ HostMatches(d.host, ctx.host)

-----------------------------------------------------------------------------
(* The evaluation.                                                         *)

Undecided == [verdict |-> "none", reason |-> "none", policy |-> 0]

Allow(p) == [verdict |-> "allow", reason |-> "none", policy |-> p]

Deny(why, p) == [verdict |-> "deny", reason |-> why, policy |-> p]

\* PolicySet::evaluate is entered with a set and a request.
Init ==
    /\ \E in \in Inputs : policies = in.policies /\ ctx = in.ctx
    /\ phase = "select" /\ i = 1 /\ j = 1 /\ best = 0
    /\ decision = Undecided

Decide(d) == phase' = "done" /\ decision' = d /\ UNCHANGED <<i, j, best>>

\* PolicySet::select: among the policies that grant and match, the one with
\* the greatest key; the reversed index makes an equal later one the lesser.
Select ==
    /\ phase = "select" /\ i <= Len(policies)
    /\ best' = IF /\ ~policies[i].baseline /\ Matches(policies[i])
                  /\ \/ best = 0
                     \/ Specificity(policies[i]) > Specificity(policies[best])
               THEN i ELSE best
    /\ i' = i + 1
    /\ UNCHANGED <<phase, j, decision>>

\* The pin the client sent only ever names what was selected anyway.
PinHolds(p) == ctx.pin = "none" \/ (p # 0 /\ policies[p].name = ctx.pin)

\* evaluate, after select: the pin, then the policy's own rules.
Selected ==
    /\ phase = "select" /\ i > Len(policies)
    /\ \/ ~PinHolds(best) /\ Decide(Deny("PolicyMismatch", best))
       \/ PinHolds(best) /\ best = 0 /\ Decide(Deny("NoPolicyMatch", 0))
       \/ /\ PinHolds(best) /\ best # 0
          /\ phase' = "rules" /\ j' = 1 /\ UNCHANGED <<i, best, decision>>

\* Policy::evaluate: the first rule that speaks decides; none is a denial.
\* An allow goes on to with_baseline, which looks from the first policy.
EvaluateRule ==
    /\ phase = "rules"
    /\ \/ /\ j > Len(policies[best].rules)
          /\ Decide(Deny("NoMatchingAllowRule", best))
       \/ /\ j <= Len(policies[best].rules) /\ ~Speaks(policies[best].rules[j])
          /\ j' = j + 1 /\ UNCHANGED <<phase, i, best, decision>>
       \/ /\ j <= Len(policies[best].rules) /\ Speaks(policies[best].rules[j])
          /\ policies[best].rules[j].action = "deny"
          /\ Decide(Deny("ExplicitDeny", best))
       \/ /\ j <= Len(policies[best].rules) /\ Speaks(policies[best].rules[j])
          /\ policies[best].rules[j].action = "allow"
          /\ phase' = "baseline" /\ i' = 1 /\ j' = 1
          /\ UNCHANGED <<best, decision>>

Guards(p) == p.baseline /\ Matches(p)

Forbids(rule) == rule.action = "deny" /\ Speaks(rule)

WithBaseline_FirstOnly ==
    /\ phase = "baseline"
    /\ \/ /\ i <= Len(policies) => Guards(policies[i]) /\ j > Len(policies[i].rules)
          /\ Decide(Allow(best))
       \/ /\ i <= Len(policies)
          /\ ~Guards(policies[i])
          /\ i' = i + 1 /\ j' = 1 /\ UNCHANGED <<phase, best, decision>>
       \/ /\ i <= Len(policies) /\ Guards(policies[i])
          /\ j <= Len(policies[i].rules) /\ ~Forbids(policies[i].rules[j])
          /\ j' = j + 1 /\ UNCHANGED <<phase, i, best, decision>>
       \/ /\ i <= Len(policies) /\ Guards(policies[i])
          /\ j <= Len(policies[i].rules) /\ Forbids(policies[i].rules[j])
          /\ Decide(Deny("Baseline", i))

WithBaseline_AsOwnRule ==
    /\ phase = "baseline"
    /\ \/ i > Len(policies) /\ Decide(Allow(best))
       \/ /\ i <= Len(policies)
          /\ ~Guards(policies[i]) \/ j > Len(policies[i].rules)
          /\ i' = i + 1 /\ j' = 1 /\ UNCHANGED <<phase, best, decision>>
       \/ /\ i <= Len(policies) /\ Guards(policies[i])
          /\ j <= Len(policies[i].rules) /\ ~Forbids(policies[i].rules[j])
          /\ j' = j + 1 /\ UNCHANGED <<phase, i, best, decision>>
       \/ /\ i <= Len(policies) /\ Guards(policies[i])
          /\ j <= Len(policies[i].rules) /\ Forbids(policies[i].rules[j])
          /\ Decide(Deny("ExplicitDeny", i))

\* with_baseline: any deny rule of any baseline that matches the workload.
WithBaseline ==
    /\ phase = "baseline"
    /\ \/ i > Len(policies) /\ Decide(Allow(best))
       \/ /\ i <= Len(policies)
          /\ ~Guards(policies[i]) \/ j > Len(policies[i].rules)
          /\ i' = i + 1 /\ j' = 1 /\ UNCHANGED <<phase, best, decision>>
       \/ /\ i <= Len(policies) /\ Guards(policies[i])
          /\ j <= Len(policies[i].rules) /\ ~Forbids(policies[i].rules[j])
          /\ j' = j + 1 /\ UNCHANGED <<phase, i, best, decision>>
       \/ /\ i <= Len(policies) /\ Guards(policies[i])
          /\ j <= Len(policies[i].rules) /\ Forbids(policies[i].rules[j])
          /\ Decide(Deny("Baseline", i))

Next ==
    /\ Select \/ Selected \/ EvaluateRule \/ WithBaseline
    /\ UNCHANGED <<policies, ctx>>

Spec == Init /\ [][Next]_vars

-----------------------------------------------------------------------------
(* What the loops must compute.                                            *)

Candidate(k) == ~policies[k].baseline /\ Matches(policies[k])

Outranks(k, m) ==
    \/ Specificity(policies[k]) > Specificity(policies[m])
    \/ Specificity(policies[k]) = Specificity(policies[m]) /\ k < m

\* The most specific policy that matches the workload, the earliest of equals.
Governs(k) ==
    /\ Candidate(k)
    /\ \A m \in 1..Len(policies) \ {k} : Candidate(m) => Outranks(k, m)

\* The first rule of the policy that speaks to the request allows it.
Grants(k) ==
    \E r \in 1..Len(policies[k].rules) :
        /\ Speaks(policies[k].rules[r])
        /\ policies[k].rules[r].action = "allow"
        /\ \A q \in 1..(r - 1) : ~Speaks(policies[k].rules[q])

\* Some baseline that matches the workload forbids the request.
Forbidden ==
    \E m \in 1..Len(policies) :
        /\ Guards(policies[m])
        /\ \E r \in 1..Len(policies[m].rules) : Forbids(policies[m].rules[r])

\* A request is allowed exactly when the governing policy grants it, the pin,
\* if any, names that policy, and no baseline forbids it; and the terms it is
\* allowed under are the governing policy's.  So no order of files, no rule of
\* any policy and no pin gets past a baseline's deny, a pin never selects a
\* policy, and an unmatched workload reaches nothing.
AllowedExactly ==
    phase = "done" =>
        /\ decision.verdict = "allow" <=>
            \E k \in 1..Len(policies) :
                Governs(k) /\ PinHolds(k) /\ Grants(k) /\ ~Forbidden
        /\ decision.verdict = "allow" => Governs(decision.policy)

\* A denial names its true cause: the pin when another policy or none governs,
\* the identity only when no policy governs, a baseline only when it is all
\* that stands between the request and an allow.
Explained ==
    phase = "done" /\ decision.verdict = "deny" =>
        CASE decision.reason = "PolicyMismatch" ->
                \A k \in 1..Len(policies) : Governs(k) => ~PinHolds(k)
          [] decision.reason = "NoPolicyMatch" ->
                \A k \in 1..Len(policies) : ~Candidate(k)
          [] decision.reason = "Baseline" ->
                \E k \in 1..Len(policies) : Governs(k) /\ PinHolds(k) /\ Grants(k)
          [] OTHER ->
                Governs(decision.policy) /\ ~Grants(decision.policy)

Bit(octets, n) ==
    (octets[(n - 1) \div OctetBits + 1]
        \div 2 ^ (OctetBits - 1 - ((n - 1) % OctetBits))) % 2

\* A CIDR rule reaches exactly the addresses of its family that agree with it
\* in every one of the first len bits, for lengths that end inside an octet
\* and for the two ends, no bits and all of them.
CidrIsPrefix ==
    \A p \in 1..Len(policies) : \A r \in 1..Len(policies[p].rules) :
        \A d \in policies[p].rules[r].destinations :
            d.host.kind = "cidr" =>
                (HostMatches(d.host, ctx.host) <=>
                    /\ ctx.host.kind = "ip"
                    /\ ctx.host.family = d.host.family
                    /\ \A n \in 1..d.host.len :
                        Bit(d.host.octets, n) = Bit(ctx.host.octets, n))

-----------------------------------------------------------------------------
(* The loops' invariants, on which the proofs rest.                        *)

\* select, after the policies before i: best outranks every other candidate.
SelectInv ==
    phase = "select" =>
        /\ i \in 1..(Len(policies) + 1) /\ best \in 0..(i - 1)
        /\ best = 0 => \A m \in 1..(i - 1) : ~Candidate(m)
        /\ best # 0 =>
            /\ Candidate(best)
            /\ \A m \in 1..(i - 1) \ {best} : Candidate(m) => Outranks(best, m)

\* Policy::evaluate, before rule j: no earlier rule speaks.
RulesInv ==
    phase = "rules" =>
        /\ best \in 1..Len(policies) /\ Governs(best) /\ PinHolds(best)
        /\ j \in 1..(Len(policies[best].rules) + 1)
        /\ \A q \in 1..(j - 1) : ~Speaks(policies[best].rules[q])

\* with_baseline, before rule j of policy i: nothing before it forbids.
BaselineInv ==
    phase = "baseline" =>
        /\ best \in 1..Len(policies)
        /\ Governs(best) /\ PinHolds(best) /\ Grants(best)
        /\ i \in 1..(Len(policies) + 1) /\ j \in Nat \ {0}
        /\ \A m \in 1..(i - 1) : Guards(policies[m]) =>
            \A r \in 1..Len(policies[m].rules) : ~Forbids(policies[m].rules[r])
        /\ i <= Len(policies) =>
            /\ j <= Len(policies[i].rules) + 1
            /\ \A r \in 1..(j - 1) : ~Forbids(policies[i].rules[r])

LoopInv == SelectInv /\ RulesInv /\ BaselineInv

=============================================================================
