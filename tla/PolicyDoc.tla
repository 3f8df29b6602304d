----------------------------- MODULE PolicyDoc -----------------------------
(***************************************************************************)
(* Policy documents: how a file becomes a policy (skimasque-policy/src/    *)
(* parse, destination, units), how a policy is written back (render),      *)
(* drafted from observations (learn), checked before it is committed       *)
(* (lint, report, and the validate, test, learn and diff commands of the   *)
(* CLI), and what a denial suggests (eval).  What a policy decides is      *)
(* asked of the evaluation modelled in PolicyEval.                         *)
(*                                                                         *)
(* A document is given after the TOML or YAML syntax, as the fields of     *)
(* RawPolicy and YamlDoc.  An absent field, and a result that may be       *)
(* missing because the input is refused, is a set with at most one         *)
(* element.  Quantities keep their units: a duration is a sequence of      *)
(* numbers with units, a size a number with a prefix.                      *)
(***************************************************************************)
EXTENDS Integers, Sequences, FiniteSets, SequencesExt

CONSTANTS
    WordMax,  \* u64::MAX
    PortMax,  \* u16::MAX
    V4Bits    \* bits of an address (32 and 128 in the code)

\* The evaluation of a policy set on a request.
Engine(policies, ctx) ==
    INSTANCE PolicyEval WITH
        Names <- {}, Fields <- {}, Spellings <- {}, Rules <- {}, Contexts <- {},
        Inputs <- {}, OctetBits <- V4Bits, phase <- "done", i <- 1, j <- 1,
        best <- 0, decision <- "none"

Some(set) == CHOOSE x \in set : TRUE

-----------------------------------------------------------------------------
(* Quantities.                                                             *)

UnitMillis == [ms |-> 1, s |-> 1000, m |-> 60000, h |-> 3600000, d |-> 86400000]

\* parse_duration: segments summed; a number without a unit, an unknown unit
\* or no segment at all is refused, and so are seconds beyond a word, in one
\* segment or in the sum.
ParseDuration(text) ==
    LET sum == FoldLeft(LAMBDA t, seg : t + seg.n * UnitMillis[seg.unit], 0, text)
    IN  IF /\ text # <<>>
           /\ \A k \in 1..Len(text) :
                /\ text[k].unit \in DOMAIN UnitMillis
                /\ text[k].n <= WordMax
                /\ text[k].unit # "ms" => text[k].n <= WordMax \div (UnitMillis[text[k].unit] \div 1000)
           /\ sum \div 1000 <= WordMax
        THEN {sum} ELSE {}

\* Mutant: every unit is counted from the whole, milliseconds are forgotten.
HumanizeDuration_DropsRest(ms) ==
    LET Units == <<"d", "h", "m", "s">>
        Seg(u) == [n |-> ms \div UnitMillis[u], unit |-> u]
    IN  SelectSeq([k \in 1..4 |-> Seg(Units[k])], LAMBDA seg : seg.n > 0)

\* humanize_duration: the largest units first, zero as "0s".
HumanizeDuration(ms) ==
    IF ms = 0 THEN <<[n |-> 0, unit |-> "s"]>>
    ELSE LET Units == <<"d", "h", "m", "s", "ms">>
             Left(k) == IF k = 1 THEN ms ELSE ms % UnitMillis[Units[k - 1]]
             Seg(k) == [n |-> Left(k) \div UnitMillis[Units[k]], unit |-> Units[k]]
         IN  SelectSeq([k \in 1..5 |-> Seg(k)], LAMBDA seg : seg.n > 0)

Decimal == [none |-> 1, k |-> 1000, M |-> 1000000, G |-> 1000000000]

\* parse_bitrate and parse_bytes, for whole numbers and decimal prefixes.
ParseDecimal(text) ==
    {v \in {text.n * Decimal[p] : p \in DOMAIN Decimal \cap {text.prefix}} : v <= WordMax}

\* humanize_decimal: the largest prefix that leaves a whole number.
HumanizeDecimal(v) ==
    LET fits == {p \in DOMAIN Decimal : v >= Decimal[p] /\ v % Decimal[p] = 0} \cup {"none"}
        p == CHOOSE p \in fits : \A q \in fits : Decimal[q] <= Decimal[p]
    IN  [n |-> v \div Decimal[p], prefix |-> p]

-----------------------------------------------------------------------------
(* Destinations.  A text is its form and its parts: "star" is "*", "cidr"  *)
(* an address and a length, "suffix" a name after "*.", "host" a name or   *)
(* an address; the port is absent, AllPorts or a range (one port: lo = hi).*)

\* The port written "*".
AllPorts == [all |-> TRUE]

AnyPort == [lo |-> 0, hi |-> PortMax]

Lower(labels) == [k \in 1..Len(labels) |-> IF labels[k] = "API" THEN "api" ELSE labels[k]]

\* parse_port_pattern, with an omitted port: any.
PortPattern(port) ==
    IF port = {} \/ port = {AllPorts} THEN {AnyPort}
    ELSE {p \in port : p.lo # 0 /\ p.lo <= p.hi /\ p.hi <= PortMax}

\* parse_host_literal: an address, or a name of legal characters, lowercased.
HostLiteral(host) ==
    IF host.kind = "ip" THEN {host}
    ELSE {[kind |-> "name", labels |-> Lower(host.labels)] :
            h \in {x \in {host} : x.labels # <<>> /\
                    \A k \in 1..Len(x.labels) : x.labels[k] \notin {"*", "bad!"}}}

HostPattern(text) ==
    CASE text.form = "star" -> {[kind |-> "any"]}
      [] text.form = "cidr" ->
            {[kind |-> "cidr", family |-> text.host.family, octets |-> text.host.octets,
              len |-> n] : n \in {n \in {text.len} : text.host.kind = "ip" /\ n <= V4Bits}}
      [] text.form = "suffix" ->
            {[kind |-> "suffix", labels |-> Lower(text.host.labels)] :
                t \in {x \in {text} : x.host.labels # <<>> /\
                        \A k \in 1..Len(x.host.labels) : x.host.labels[k] # "*"}}
      [] OTHER ->
            {IF h.kind = "ip" THEN h ELSE [kind |-> "exact", labels |-> h.labels] :
                h \in HostLiteral(text.host)}

\* DestinationSpec::parse; a CIDR block takes no port.
SpecOf(text) ==
    IF text.form = "cidr" /\ text.port # {} THEN {}
    ELSE {[host |-> h, port |-> p] : h \in HostPattern(text), p \in PortPattern(text.port)}

\* Destination::parse: one host and one port.
DestinationOf(text) ==
    IF text.form # "host" \/ text.port = {} \/ text.port = {AllPorts} THEN {}
    ELSE {[host |-> h, port |-> p.lo] : h \in HostLiteral(text.host),
            p \in {q \in PortPattern(text.port) : q.lo = q.hi}}

\* Destination's Display.
Show(dest) ==
    [form |-> "host", host |-> dest.host, len |-> 0,
     port |-> {[lo |-> dest.port, hi |-> dest.port]}]

-----------------------------------------------------------------------------
(* Documents.                                                              *)

\* RawRule, RawTest, RawPolicy with RawMatch and RawLimits, and the YAML layout.
RawRule(action, application, transport, destinations) ==
    [application |-> application, action |-> action, transport |-> transport,
     destinations |-> destinations]

RawTest(application, destination, transport, expect, description) ==
    [application |-> application, destination |-> destination, transport |-> transport,
     expect |-> expect, description |-> description]

RawPolicy(name, baseline, match, duration, bandwidth, rules, tests) ==
    [name |-> name, baseline |-> baseline, match |-> match, duration |-> duration,
     bandwidth |-> bandwidth, rules |-> rules, tests |-> tests]

YamlDoc(name, baseline, match, application, session, duration, transport, allow, deny) ==
    [name |-> name, baseline |-> baseline, match |-> match, application |-> application,
     session |-> session, duration |-> duration, bandwidth |-> {}, transport |-> transport,
     tests |-> <<>>, allow |-> allow, deny |-> deny]

\* RawRule::into_rule.
IntoRule(raw) ==
    IF /\ raw.destinations # <<>>
       /\ raw.action \in {"allow", "deny"}
       /\ raw.transport \subseteq {"any", "tcp", "udp"}
       /\ \A k \in 1..Len(raw.destinations) : SpecOf(raw.destinations[k]) # {}
    THEN {[application |-> raw.application, action |-> raw.action,
           transport |-> IF raw.transport = {} THEN "any" ELSE Some(raw.transport),
           destinations |-> raw.destinations]}
    ELSE {}

\* RawTest::into_test: one transport, or none for TCP.
TestOk(raw) == raw.expect \in {"allow", "deny"} /\ raw.transport \subseteq {"tcp", "udp"}

Refused(raw) ==
    \/ raw.name = {} \/ raw.name = {""}
    \/ "kind" \in DOMAIN raw.match /\ raw.match["kind"] \notin {"developer", "ci", "agent"}
    \/ \E t \in raw.duration : ParseDuration(t) = {}
    \/ \E t \in raw.bandwidth : ParseDecimal(t) = {}
    \/ \E k \in 1..Len(raw.rules) : IntoRule(raw.rules[k]) = {}
    \/ \E k \in 1..Len(raw.tests) : ~TestOk(raw.tests[k])

\* Mutant: a baseline is not held to denying.
IntoPolicy_BaselineMayAllow(raw) ==
    IF Refused(raw) THEN {}
    ELSE {[name |-> Some(raw.name), baseline |-> raw.baseline, match |-> raw.match,
           duration |-> UNION {ParseDuration(t) : t \in raw.duration},
           bandwidth |-> UNION {ParseDecimal(t) : t \in raw.bandwidth},
           rules |-> [k \in 1..Len(raw.rules) |-> Some(IntoRule(raw.rules[k]))],
           tests |-> raw.tests]}

\* RawPolicy::into_policy: every field converts, and a baseline allows nothing.
IntoPolicy(raw) ==
    IF \/ Refused(raw)
       \/ raw.baseline /\ \E k \in 1..Len(raw.rules) : raw.rules[k].action = "allow"
    THEN {}
    ELSE {[name |-> Some(raw.name), baseline |-> raw.baseline, match |-> raw.match,
           duration |-> UNION {ParseDuration(t) : t \in raw.duration},
           bandwidth |-> UNION {ParseDecimal(t) : t \in raw.bandwidth},
           rules |-> [k \in 1..Len(raw.rules) |-> Some(IntoRule(raw.rules[k]))],
           tests |-> raw.tests]}

\* Mutant: the allow list becomes the first rule.
IntoRaw_AllowFirst(doc) ==
    LET Rule(action, dests) ==
            IF dests = <<>> THEN <<>>
            ELSE <<RawRule(action, IF doc.application = {} THEN "*" ELSE Some(doc.application),
                           doc.transport, dests)>>
    IN  {RawPolicy(doc.name, doc.baseline, doc.match, doc.session \cup doc.duration,
                   doc.bandwidth, Rule("allow", doc.allow) \o Rule("deny", doc.deny),
                   doc.tests)
            : d \in {x \in {doc} : x.session = {} \/ x.duration = {}}}

\* YamlDoc::into_raw: the deny list becomes the first rule, the allow list the
\* second; the duration may be set in one place only.
IntoRaw(doc) ==
    LET Rule(action, dests) ==
            IF dests = <<>> THEN <<>>
            ELSE <<RawRule(action, IF doc.application = {} THEN "*" ELSE Some(doc.application),
                           doc.transport, dests)>>
    IN  {RawPolicy(doc.name, doc.baseline, doc.match, doc.session \cup doc.duration,
                   doc.bandwidth, Rule("deny", doc.deny) \o Rule("allow", doc.allow),
                   doc.tests)
            : d \in {x \in {doc} : x.session = {} \/ x.duration = {}}}

FromYaml(doc) == UNION {IntoPolicy(raw) : raw \in IntoRaw(doc)}

\* PolicySet::from_documents: every document parses and no two share a name.
FromDocuments(raws) ==
    LET parsed == [k \in 1..Len(raws) |-> IntoPolicy(raws[k])]
    IN  IF /\ \A k \in 1..Len(raws) : parsed[k] # {}
           /\ \A k, m \in 1..Len(raws) : k # m => raws[k].name # raws[m].name
        THEN {[k \in 1..Len(raws) |-> Some(parsed[k])]}
        ELSE {}

\* Policy::to_toml: every field the layout has.  A rule without a transport
\* word is for any transport; the description of a test is not written.
ToToml(p) ==
    [name |-> {p.name}, baseline |-> p.baseline, match |-> p.match,
     duration |-> {HumanizeDuration(d) : d \in p.duration},
     bandwidth |-> {HumanizeDecimal(b) : b \in p.bandwidth},
     rules |-> [k \in 1..Len(p.rules) |->
                [application |-> p.rules[k].application, action |-> p.rules[k].action,
                 transport |-> {p.rules[k].transport} \ {"any"},
                 destinations |-> p.rules[k].destinations]],
     tests |-> [k \in 1..Len(p.tests) |-> [p.tests[k] EXCEPT !.description = {}]]]

-----------------------------------------------------------------------------
(* Identities.  An identity maps each field to what it holds, if anything. *)

Branch(ref) == CASE ref = "refs/heads/main" -> {"main"}
                 [] ref = "refs/heads/dev" -> {"dev"}
                 [] ref = "refs/heads/v1" -> {"v1"}
                 [] OTHER -> {}

\* A repository without its owner, whoever that is.
Short(repository) == CASE repository \in {"acme/widget", "other/widget"} -> "widget"
                       [] repository = "acme/other" -> "other"
                       [] OTHER -> repository

\* The claim each provider's tokens carry a field in.
ClaimNames ==
    [github |-> [organization |-> "repository_owner", repository |-> "repository"],
     gitlab |-> [organization |-> "namespace_path", repository |-> "project_path"],
     buildkite |-> [organization |-> "organization_slug", repository |-> "pipeline_slug"]]

Full == [branch |-> [main |-> "refs/heads/main", dev |-> "refs/heads/dev", v1 |-> "refs/heads/v1"],
         tag |-> [main |-> "refs/tags/main", dev |-> "refs/tags/dev", v1 |-> "refs/tags/v1"]]

Claim(claims, name) == IF name \in DOMAIN claims THEN {claims[name]} ELSE {}

\* The ref a token names, in full: GitHub spells it so, GitLab gives a name and
\* its type, Buildkite a branch or else a tag.
RefOf(provider, claims) ==
    CASE provider = "github" -> Claim(claims, "ref")
      [] provider = "gitlab" ->
            {Full[IF Claim(claims, "ref_type") = {"tag"} THEN "tag" ELSE "branch"][n] :
                n \in Claim(claims, "ref")}
      [] OTHER ->
            IF Claim(claims, "build_branch") # {}
            THEN {Full["branch"][n] : n \in Claim(claims, "build_branch")}
            ELSE {Full["tag"][n] : n \in Claim(claims, "build_tag")}

\* Mutant: a token says what kind of workload it is.
Identify_OwnKind(provider, claims) ==
    [organization |-> Claim(claims, ClaimNames[provider].organization),
     repository |-> Claim(claims, ClaimNames[provider].repository),
     ref |-> RefOf(provider, claims), kind |-> Claim(claims, "kind")]

\* Provider::identify: the fields of the claims, and the kind the provider has.
Identify(provider, claims) ==
    [organization |-> Claim(claims, ClaimNames[provider].organization),
     repository |-> Claim(claims, ClaimNames[provider].repository),
     ref |-> RefOf(provider, claims), kind |-> {"ci"}]

\* What each field of a match is compared with: WorkloadIdentity::branch and
\* repository_name give the ref and the repository a second spelling.
Workload(id) ==
    [f \in DOMAIN id \cup {"branch"} |->
        CASE f = "branch" -> UNION {Branch(r) : r \in id["ref"]}
          [] f = "repository" -> id[f] \cup {Short(r) : r \in id[f]}
          [] OTHER -> id[f]]

\* match_from_identity: every field the identity has, the ref as a branch when
\* it is one.
MatchFromIdentity(id) ==
    LET branch == Workload(id)["branch"]
        has == {f \in DOMAIN id : id[f] # {}} \ (IF branch = {} THEN {} ELSE {"ref"})
    IN  [f \in has \cup {b \in {"branch"} : branch # {}} |->
            IF f = "branch" THEN Some(branch) ELSE Some(id[f])]

\* representative_identity: the identity a policy's own tests run as.
Representative(p, fields) ==
    [f \in fields |->
        IF f = "ref" /\ "ref" \notin DOMAIN p.match /\ "branch" \in DOMAIN p.match
        THEN {r \in {"refs/heads/main", "refs/heads/dev", "refs/heads/v1"} : Branch(r) = {p.match["branch"]}}
        ELSE IF f \in DOMAIN p.match THEN {p.match[f]} ELSE {}]

-----------------------------------------------------------------------------
(* What a policy decides.                                                  *)

EngineRule(r) ==
    [application |-> r.application, action |-> r.action, transport |-> r.transport,
     destinations |-> {Some(SpecOf(r.destinations[k])) : k \in 1..Len(r.destinations)}]

EnginePolicy(p) ==
    [name |-> p.name, baseline |-> p.baseline, match |-> p.match,
     rules |-> [k \in 1..Len(p.rules) |-> EngineRule(p.rules[k])]]

EngineSet(ps) == [k \in 1..Len(ps) |-> EnginePolicy(ps[k])]

Request(id, app, transport, dest, pin) ==
    [workload |-> Workload(id), application |-> app, transport |-> transport,
     host |-> dest.host, port |-> dest.port, pin |-> pin]

\* Policy::evaluate: the policy's own rules, whoever asks.
Grants(p, ctx) == Engine(<<EnginePolicy(p)>>, ctx)!Grants(1)

Governing(ps, ctx) ==
    {k \in 1..Len(ps) : Engine(EngineSet(ps), ctx)!Governs(k)}

\* PolicySet::evaluate.
Allowed(ps, ctx) ==
    LET E == INSTANCE PolicyEval WITH
                Names <- {}, Fields <- {}, Spellings <- {}, Rules <- {}, Contexts <- {},
                Inputs <- {}, OctetBits <- V4Bits, phase <- "done", i <- 1, j <- 1,
                best <- 0, decision <- "none", policies <- EngineSet(ps)
    IN  \E k \in 1..Len(ps) :
            E!Governs(k) /\ E!PinHolds(k) /\ E!Grants(k) /\ ~E!Forbidden

\* Mutant: the suggestion is always for TCP.
SuggestedRule_NoTransport(ctx) ==
    [application |-> ctx.application, action |-> "allow", transport |-> {"tcp"},
     destinations |-> <<Show([host |-> ctx.host, port |-> ctx.port])>>]

\* suggested_rule: the destination as asked for; a UDP request needs the word.
SuggestedRule(ctx) ==
    [application |-> ctx.application, action |-> "allow",
     transport |-> IF ctx.transport = "udp" THEN {"udp"} ELSE {},
     destinations |-> <<Show([host |-> ctx.host, port |-> ctx.port])>>]

-----------------------------------------------------------------------------
(* Learning, lints, tests and diffs.                                       *)

Observation(application, transport, destination) ==
    [application |-> application, transport |-> transport, destination |-> destination]

\* suggest_policy: one allow rule for each application and transport seen, of
\* the destinations that parse; an application of no name is any.
SuggestPolicy(name, id, observations) ==
    LET usable == {o \in observations : DestinationOf(o.destination) # {}}
        keys == {<<o.application, o.transport>> : o \in usable}
        RuleFor(key) ==
            [application |-> IF key[1] = "" THEN "*" ELSE key[1], action |-> "allow",
             transport |-> IF key[2] = {} THEN "any" ELSE Some(key[2]),
             destinations |-> SetToSeq({Show(Some(DestinationOf(o.destination))) :
                o \in {x \in usable : <<x.application, x.transport>> = key}})]
        order == SetToSeq(keys)
    IN  [name |-> name, baseline |-> FALSE, match |-> MatchFromIdentity(id),
         duration |-> {}, bandwidth |-> {}, tests |-> <<>>,
         rules |-> [k \in 1..Len(order) |-> RuleFor(order[k])]]

\* learn: the draft of a file with observations, as it is printed.
Learn(name, id, observations) ==
    IF observations = {} THEN {} ELSE {ToToml(SuggestPolicy(name, id, observations))}

\* Mutant: a match without a branch or ref is not linted.
Lints_AnyRef(p) ==
    IF \A k \in 1..Len(p.rules) : p.rules[k].action # "allow" THEN {}
    ELSE IF DOMAIN p.match = {} THEN {"MatchGovernsEveryWorkload"}
    ELSE IF "repository" \notin DOMAIN p.match THEN {"MatchLacksRepository"}
    ELSE {}

\* Policy::lints.
Lints(p) ==
    IF \A k \in 1..Len(p.rules) : p.rules[k].action # "allow" THEN {}
    ELSE IF DOMAIN p.match = {} THEN {"MatchGovernsEveryWorkload"}
    ELSE IF "repository" \notin DOMAIN p.match THEN {"MatchLacksRepository"}
    ELSE IF {"branch", "ref"} \cap DOMAIN p.match = {} THEN {"MatchLacksRef"}
    ELSE {}

\* validate --strict: every document parses and none is linted.
ValidateStrict(raws) ==
    \A k \in 1..Len(raws) :
        IntoPolicy(raws[k]) # {} /\ \A p \in IntoPolicy(raws[k]) : Lints(p) = {}

\* run_one_test: the verdict of the policy's own rules is the one expected.
TestPasses(p, test, fields) ==
    \E dest \in DestinationOf(test.destination) :
        Grants(p, Request(Representative(p, fields), test.application,
                          IF test.transport = {} THEN "tcp" ELSE Some(test.transport),
                          dest, "none"))
            <=> test.expect = "allow"

\* Policy::run_tests, and run_tests of a whole set, which also tells how many.
RunTests(p, fields) == \A k \in 1..Len(p.tests) : TestPasses(p, p.tests[k], fields)

RunAllTests(ps, fields) == \A k \in 1..Len(ps) : RunTests(ps[k], fields)

\* rule_lines and diff, for a policy both sets have: the lines of one that the
\* other has not; the order, the match and the baseline mark are not compared.
RuleLines(p) ==
    UNION {{<<r.action, r.application, r.transport, r.destinations[k]>> :
                k \in 1..Len(r.destinations)} : r \in {p.rules[m] : m \in 1..Len(p.rules)}}

Differ(old, new) ==
    \/ RuleLines(old) # RuleLines(new)
    \/ old.duration # new.duration \/ old.bandwidth # new.bandwidth

-----------------------------------------------------------------------------
(* Properties.                                                             *)

\* A policy written out and read again is the same policy, its quantities and
\* its transports included, as far as the layout can say it: the description
\* of a test is lost.
RoundTrips(raw) ==
    \A p \in IntoPolicy(raw) :
        (\A k \in 1..Len(p.tests) : p.tests[k].description = {}) =>
            IntoPolicy(ToToml(p)) = {p}

\* "A baseline only takes away": no document makes one that grants.
BaselineOnlyDenies(p) ==
    p.baseline => \A k \in 1..Len(p.rules) : p.rules[k].action = "deny"

\* The two layouts agree on what a deny list is for: whatever the allow list
\* says, a destination on the deny list is refused and one only on the allow
\* list is granted.
DenyListWins(doc, ctx) ==
    \A p \in FromYaml(doc) :
        LET On(list) == \E k \in 1..Len(list) : \E s \in SpecOf(list[k]) :
                            /\ Engine(<<>>, ctx)!PortMatches(s.port, ctx.port)
                            /\ Engine(<<>>, ctx)!HostMatches(s.host, ctx.host)
            spoken == /\ doc.application \subseteq {ctx.application, "*"}
                      /\ doc.transport \subseteq {"any", ctx.transport}
        IN  Grants(p, ctx) <=> spoken /\ On(doc.allow) /\ ~On(doc.deny)

\* A drafted policy governs the workload that was observed, survives being
\* written to a file, and grants exactly what some observation saw.
DraftIsWhatWasSeen(id, observations, ctx) ==
    LET p == SuggestPolicy("draft", id, observations)
        Seen(o) == /\ o.application \in {ctx.application, "", "*"}
                   /\ o.transport \subseteq {ctx.transport}
                   /\ DestinationOf(o.destination) = {[host |-> ctx.host, port |-> ctx.port]}
    IN  /\ UNION {IntoPolicy(raw) : raw \in Learn("draft", id, observations)} = {p}
        /\ Engine(<<EnginePolicy(p)>>, ctx)!Candidate(1)
        /\ Grants(p, ctx) <=> \E o \in observations : Seen(o)

\* The rule a denial suggests parses, and put first in the policy that governs
\* it allows the request, unless a baseline or the pin stands in the way.
SuggestionHelps(ps, ctx) ==
    LET rule == IntoRule(SuggestedRule(ctx))
    IN  /\ rule # {}
        /\ \A k \in Governing(ps, ctx) :
            LET fixed == [ps EXCEPT ![k].rules = <<Some(rule)>> \o @]
            IN  /\ Grants(fixed[k], ctx)
                /\ (~Engine(EngineSet(ps), ctx)!Forbidden /\ ctx.pin = "none")
                    => Allowed(fixed, ctx)

\* What validate --strict lets through grants nothing to workloads on two refs,
\* nor to those of two repositories when the match names the owner; a match on
\* a bare name is for the repositories of that name, of every owner.
StrictIsNarrow(raw, id, other, ctx) ==
    ValidateStrict(<<raw>>) =>
        \A ps \in FromDocuments(<<raw>>) :
            LET wanted == ps[1].match["repository"]
            IN  /\ Allowed(ps, ctx)
                /\ Allowed(ps, [ctx EXCEPT !.workload = Workload(other)])
                => /\ id["ref"] = other["ref"]
                   /\ \/ id["repository"] = other["repository"]
                      \/ /\ Short(wanted) = wanted
                         /\ \A r \in id["repository"] \cup other["repository"] :
                                Short(r) = wanted

\* A policy's tests run as an identity the policy itself matches, unless the
\* match names both a branch and a ref that is another.
TestsRunAsGoverned(p, fields) ==
    ~({"branch", "ref"} \subseteq DOMAIN p.match) =>
        \A f \in DOMAIN p.match : p.match[f] \in Workload(Representative(p, fields))[f]

\* When the tests of a set pass, the gateway decides as they say, for the
\* workloads each policy was written for and where no other policy has a say.
TestsTellTheTruth(p, fields) ==
    /\ ~p.baseline /\ ~({"branch", "ref"} \subseteq DOMAIN p.match)
    /\ RunAllTests(<<p>>, fields)
    => \A k \in 1..Len(p.tests) : \A dest \in DestinationOf(p.tests[k].destination) :
        LET test == p.tests[k]
            ctx == Request(Representative(p, fields), test.application,
                           IF test.transport = {} THEN "tcp" ELSE Some(test.transport), dest, "none")
        IN  Allowed(<<p>>, ctx) <=> test.expect = "allow"

\* "A token cannot choose its own kind", and whoever issued it, a token for a
\* repository and a ref is decided upon as any other for the same: policies
\* match the full form of a ref, which each provider spells its own way.
SameForAnyProvider(p, tokens, ctx) ==
    LET As(provider) ==
            [ctx EXCEPT !.workload = Workload(Identify(provider, tokens[provider]))]
    IN  \A a, b \in DOMAIN tokens :
            /\ "kind" \in DOMAIN p.match => ~Engine(<<EnginePolicy(p)>>, As(a))!Candidate(1)
            /\ Allowed(<<p>>, As(a)) <=> Allowed(<<p>>, As(b))

\* When a diff prints nothing for a policy that only allows, nothing it decides
\* has changed.
SilentDiffChangesNothing(old, new, ctx) ==
    (~Differ(old, new) /\ \A k \in 1..Len(old.rules) : old.rules[k].action = "allow") =>
        (Grants(old, ctx) <=> Grants(new, ctx))
=============================================================================
