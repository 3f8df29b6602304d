------------------------------ MODULE MCParts -------------------------------
(***************************************************************************)
(* The parts of the gateway that share no state while they run, each on    *)
(* its own small instance: the evaluation of a policy set, the exchanges   *)
(* of identity tokens, one request through the service stack, the          *)
(* process's start, the capsule stream of an IP tunnel, and the pure       *)
(* functions on their cases.  `part` says which of them this behaviour     *)
(* runs; the others stay as they start.                                    *)
(***************************************************************************)
EXTENDS PolicyEval, Exchange

CONSTANTS WordMax, PortMax, V4Bits,                         \* see PolicyDoc
          ByteBits, V4Len, V6Len, MaxValueLen, Chunk,       \* see Wire
          Hostnames, Addresses, Shut, MaxAnswers              \* see Request

VARIABLES part, case, stack, allowed, req, boot, store,
          script, wire, reader, queue, grams, tunnel

Parts == {"evaluate", "exchange", "request", "start", "stream", "case"}

Doc == INSTANCE PolicyDoc
Layers == INSTANCE Request WITH Names <- Hostnames
Process == INSTANCE Startup

\* Capsules a peer may write: well-formed ones, the ones each check refuses,
\* and ones of no known kind.
Wire == INSTANCE Wire WITH Scripts <- {}

A4(n) == [v6 |-> FALSE, n |-> n]
A6(n) == [v6 |-> TRUE, n |-> n]
Prefix(id, a, n) == [id |-> id, addr |-> a, len |-> n]
Span(s, e, p) == [start |-> s, end |-> e, protocol |-> p]

Said(k, es) ==
    [kind |-> k, value |-> Wire!ToCapsule(k, es).value,
     means |-> IF Wire!Sendable(k, es) THEN {es} ELSE {}]
Unread(k, v) == [kind |-> k, value |-> v, means |-> {}]
Gram(context, p) ==
    [kind |-> Wire!DATAGRAM, value |-> Wire!EncodePayload(context, p),
     means |-> IF context = 0 THEN {p} ELSE {}]

Capsules ==
    {Said(1, <<Prefix(0, A4(12), 2), Prefix(300, A6(129), 8)>>), Said(1, <<>>),
     Said(2, <<Prefix(3, A4(0), 4)>>), Said(2, <<Prefix(0, A4(0), 4)>>), Said(2, <<>>),
     Said(3, <<Span(A4(0), A4(5), 0), Span(A4(6), A4(6), 0), Span(A4(0), A4(3), 1),
               Span(A6(0), A6(255), 0)>>),
     Said(3, <<Span(A4(0), A4(5), 0), Span(A4(5), A4(7), 0)>>),
     Said(3, <<Span(A4(0), A4(8), 0), Span(A4(1), A4(2), 0), Span(A4(5), A4(7), 0)>>),
     Unread(1, <<0, 4, 5, 2>>), Unread(1, <<0, 4, 5>>), Unread(3, <<4, 5, 4, 0>>),
     Unread(1, <<0, 5, 0, 0>>), Unread(20, <<1>>), Unread(9, [n \in 1..17 |-> 0]),
     Gram(0, <<7>>), Gram(5, <<7>>), Gram(0, <<>>)}

MCScripts == {<<c>> : c \in Capsules} \cup {<<c, d>> : c, d \in Capsules}

Flow == INSTANCE Wire WITH Scripts <- MCScripts

\* Datagrams with identifiers of every encoded length, and address requests.
WireCases ==
    [of : {"datagram"}, bytes : {<<>>, <<7>>},
     stream : {0, 1, 4, 12, 16, 252, 256, 65532, 4194304},
     context : {0, 1, 3, 4, 63, 64, 16383, 16384, Wire!VarintMax}]
    \cup [of : {"request"},
          asked : {<<Prefix(3, A4(0), 4)>>, <<Prefix(1, A6(0), 8), Prefix(2, A4(4), 4)>>},
          assigned : {<<>>, <<Prefix(0, A4(12), 2)>>, <<Prefix(0, A6(16), 4), Prefix(0, A4(8), 4)>>}]

-----------------------------------------------------------------------------
(* Inputs of the policy evaluation, of two families: policy sets of up to  *)
(* three policies over two identity fields, for the selection, the rule    *)
(* order, the pin and the baselines; and one rule with one CIDR block      *)
(* against every address of its length, for the mask arithmetic.           *)

MCNames == {"a", "b"}

MCFields == {"organization", "repository"}

MCSpellings == {"acme", "acme/widget", "widget", "other"}

AnyPort == [lo |-> 1, hi |-> 3]
Name(labels) == [kind |-> "name", labels |-> labels]
Example == <<"api", "example", "com">>
Exactly(labels) == [kind |-> "exact", labels |-> labels]
Below(labels) == [kind |-> "suffix", labels |-> labels]
Octet == 0..(2 ^ OctetBits - 1)
Address(f, o) == [kind |-> "ip", family |-> f, octets |-> o]
Block(f, o, n) == [kind |-> "cidr", family |-> f, octets |-> o, len |-> n]

Rule(act, app, tr, host, port) ==
    [action |-> act, application |-> app, transport |-> tr,
     destinations |-> {[host |-> host, port |-> port]}]

AllowApi == Rule("allow", "curl", "any", Exactly(Example), [lo |-> 2, hi |-> 2])
DenyBelow == Rule("deny", "*", "tcp", Below(<<"example", "com">>), AnyPort)
AllowAll == Rule("allow", "*", "any", [kind |-> "any"], AnyPort)
DenyHigh == Rule("deny", "*", "any", [kind |-> "any"], [lo |-> 2, hi |-> 3])

CidrRules ==
    {Rule("allow", "*", "any", Block("v4", <<x, y>>, n), AnyPort) :
        x \in Octet, y \in Octet, n \in 0..(2 * OctetBits)}

MCRules == {AllowApi, DenyBelow, AllowAll, DenyHigh} \cup CidrRules

Unconstrained == [f \in {} |-> "acme"]
InOrg == [f \in {"organization"} |-> "acme"]
InRepo == [f \in {"repository"} |-> "widget"]
InBoth == [f \in MCFields |-> IF f = "organization" THEN "acme" ELSE "acme/widget"]

Granting(n, m, rules) ==
    [name |-> n, baseline |-> FALSE, match |-> m, rules |-> rules]
Baseline(m, rules) ==
    [name |-> "b", baseline |-> TRUE, match |-> m, rules |-> rules]

SmallPolicies ==
    {Granting("a", m, rules) : m \in {Unconstrained, InOrg, InBoth},
        rules \in {<<AllowApi>>, <<DenyBelow, AllowAll>>, <<AllowAll, DenyBelow>>}}
    \cup {Granting("b", InRepo, rules) : rules \in {<<>>, <<AllowAll>>}}
    \cup {Baseline(m, rules) : m \in {InOrg, InBoth},
        rules \in {<<DenyBelow>>, <<DenyBelow, DenyHigh>>}}

PolicySets == {<<>>} \cup UNION {[1..n -> SmallPolicies] : n \in 1..3}

Workload(org, repo) ==
    [f \in MCFields |-> IF f = "organization" THEN org ELSE repo]

Request(w, app, tr, host, port, pin) ==
    [workload |-> w, application |-> app, transport |-> tr, host |-> host,
     port |-> port, pin |-> pin]

SetContexts ==
    {Request(Workload({"acme"}, repo), "curl", tr, Name(labels), 2, pin) :
        repo \in {{}, {"acme/widget", "widget"}}, tr \in {"tcp", "udp"},
        labels \in {Example, <<"example", "com">>}, pin \in {"none", "a"}}

IpContexts ==
    {Request(Workload({}, {}), "curl", "tcp", Address(f, <<x, y>>), 1, "none") :
        f \in {"v4", "v6"}, x \in Octet, y \in Octet}

MCContexts == SetContexts \cup IpContexts

MCInputs ==
    [policies : PolicySets, ctx : SetContexts]
    \cup {[policies |-> <<Granting("a", Unconstrained, <<r>>)>>, ctx |-> c] :
            r \in CidrRules, c \in IpContexts}

-----------------------------------------------------------------------------
(* Documents, identities, observations and tokens for the functions on     *)
(* policy documents.                                                       *)

OnPort(lo, hi) == {[lo |-> lo, hi |-> hi]}
Ip(n) == [kind |-> "ip", family |-> "v4", octets |-> <<n>>]
Text(f, h, n, p) == [form |-> f, host |-> h, len |-> n, port |-> p]

Api == Text("host", Name(<<"api", "example">>), 0, OnPort(1, 1))
Net == Text("cidr", Ip(0), 1, {})

\* Texts a rule may name: good ones of every form, and bad ones.
Texts ==
    {Api, Net, Text("suffix", Name(<<"example">>), 0, {}),
     Text("star", Name(<<>>), 0, OnPort(2, 3)), Text("host", Ip(1), 0, OnPort(1, 2)),
     Text("host", Name(<<"API", "example">>), 0, {Doc!AllPorts}),
     Text("host", Name(<<"bad!">>), 0, {}), Text("host", Name(<<>>), 0, {}),
     Text("host", Ip(1), 0, OnPort(2, 1)), Text("host", Ip(1), 0, OnPort(0, 0)),
     Text("cidr", Ip(0), 3, {}), Text("cidr", Ip(0), 1, OnPort(1, 1))}

Durations ==
    {{}} \cup {{d} : d \in {<<>>, <<[n |-> 1, unit |-> "h"], [n |-> 30, unit |-> "m"]>>,
        <<[n |-> 61001, unit |-> "ms"], [n |-> 25, unit |-> "h"]>>, <<[n |-> 0, unit |-> "s"]>>,
        <<[n |-> 3, unit |-> "y"]>>, <<[n |-> 10, unit |-> "d"], [n |-> 10, unit |-> "d"]>>}}

Bandwidths ==
    {{}} \cup {{[n |-> n, prefix |-> p]} : n \in {0, 7, 2000}, p \in {"none", "k", "Q"}}

Selectors ==
    {[f \in {} |-> ""], [f \in {"repository"} |-> "widget"],
     [f \in {"repository", "branch"} |-> IF f = "branch" THEN "main" ELSE "acme/widget"],
     [f \in {"repository", "ref"} |-> IF f = "ref" THEN "refs/tags/v1" ELSE "widget"],
     [f \in {"kind", "branch"} |-> IF f = "kind" THEN "agent" ELSE "dev"],
     [f \in {"kind"} |-> "robot"]}

Test(transport, expect, description) ==
    Doc!RawTest("curl", Api, transport, expect, description)

Bounded(m) ==
    Doc!RawPolicy({"p"}, FALSE, m, {}, {}, <<Doc!RawRule("allow", "*", {}, <<Api>>)>>, <<>>)

RawDocs ==
    {Doc!RawPolicy(n, b, m, {}, {}, rules, <<>>) :
        n \in {{}, {""}, {"p"}}, b \in BOOLEAN, m \in Selectors,
        rules \in {<<>>} \cup {<<Doc!RawRule(a, "*", t, <<d>>)>> :
            a \in {"allow", "deny", "maybe"}, t \in {{}, {"any"}, {"udp"}, {"sctp"}}, d \in Texts}}
    \cup {[Bounded(m) EXCEPT !.duration = d, !.bandwidth = w, !.tests = tests] :
        m \in Selectors, d \in Durations, w \in Bandwidths,
        tests \in {<<>>, <<Test({"any"}, "allow", {})>>, <<Test({"udp"}, "deny", {"why"})>>}}

YamlDocs ==
    {Doc!YamlDoc({"y"}, b, [f \in {} |-> ""], app, session, duration, transport, allow, deny) :
        b \in BOOLEAN, app \in {{}, {"curl"}}, session \in {{}, {<<[n |-> 1, unit |-> "m"]>>}},
        duration \in {{}, {<<[n |-> 2, unit |-> "s"]>>}}, transport \in {{}, {"tcp"}},
        allow \in {<<>>} \cup {<<t>> : t \in Texts}, deny \in {<<>>} \cup {<<t>> : t \in Texts}}

IdFields == {"organization", "repository", "ref", "kind"}

Identities ==
    {[f \in IdFields |-> CASE f = "repository" -> r [] f = "ref" -> g
                           [] f = "kind" -> k [] OTHER -> {}] :
        r \in {{}, {"acme/widget"}, {"acme/other"}, {"other/widget"}},
        g \in {{}, {"refs/heads/main"}, {"refs/heads/dev"}, {"refs/tags/v1"}},
        k \in {{}, {"agent"}}}

Someone == CHOOSE id \in Identities :
    id["repository"] = {"acme/widget"} /\ id["ref"] = {"refs/heads/main"} /\ id["kind"] = {}

Asked(id) ==
    {Doc!Request(id, app, t, [host |-> h, port |-> p], "none") :
        app \in {"curl", "git"}, t \in {"tcp", "udp"}, p \in 1..3,
        h \in {Name(<<"api", "example">>), Name(<<"example">>), Ip(0), Ip(1), Ip(3)}}

Observations ==
    {Doc!Observation(app, t, d) : app \in {"", "curl"}, t \in {{}, {"udp"}},
        d \in {Text("host", Name(<<"API", "example">>), 0, OnPort(1, 1)),
               Text("host", Ip(1), 0, OnPort(2, 2)), Text("host", Ip(1), 0, {}),
               Text("host", Name(<<"bad!">>), 0, OnPort(1, 1))}}

Parsed(m, b, rules) ==
    [name |-> "p", baseline |-> b, match |-> m, duration |-> {}, bandwidth |-> {},
     tests |-> <<>>, rules |-> rules]

Policies ==
    {Parsed(m, FALSE, rules) :
        m \in {x \in Selectors : DOMAIN x \subseteq {"repository", "branch"}},
        rules \in {<<>>, <<Doc!RawRule("allow", "*", "any", <<Api, Net>>)>>,
                   <<Doc!RawRule("allow", "*", "any", <<Net>>), Doc!RawRule("allow", "*", "any", <<Api>>)>>,
                   <<Doc!RawRule("deny", "curl", "tcp", <<Api>>), Doc!RawRule("allow", "*", "any", <<Api>>)>>,
                   <<Doc!RawRule("allow", "git", "udp", <<Net>>)>>}}
    \cup {Parsed(m, TRUE, <<Doc!RawRule("deny", "*", "any", <<Api>>)>>) :
        m \in {x \in Selectors : DOMAIN x = {} \/ "kind" \in DOMAIN x}}

\* The token each provider issues to a job of a repository on a branch or tag;
\* each also holds a claim of the job's own making.
Tokens(repo, type, name) ==
    [github |-> [repository |-> repo, ref |-> Doc!Full[type][name], kind |-> "agent"],
     gitlab |-> [project_path |-> repo, ref |-> name, ref_type |-> type, kind |-> "agent"],
     buildkite |-> [f \in {"pipeline_slug", "kind", "build_" \o type} |->
                        CASE f = "pipeline_slug" -> repo [] f = "kind" -> "agent" [] OTHER -> name]]

DocCases ==
    [of : {"raw"}, raw : RawDocs] \cup [of : {"yaml"}, doc : YamlDocs]
    \cup [of : {"draft"}, id : Identities,
          seen : {s \in SUBSET Observations : Cardinality(s) \in 1..2}]
    \cup [of : {"strict"}, raw : {Bounded(m) : m \in Selectors}, id : Identities, other : Identities]
    \cup [of : {"set"}, old : Policies, new : Policies]
    \cup [of : {"token"}, policy : {Parsed(m, FALSE, <<Doc!RawRule("allow", "*", "any", <<Api>>)>>) :
                                      m \in {x \in Selectors : x # [f \in {"kind"} |-> "robot"]}},
          tokens : {Tokens(repo, type, name) : repo \in {"acme/widget", "acme/other"},
                        type \in {"branch", "tag"}, name \in {"dev", "v1"}}]

\* Documents are read back as they were written; a deny list wins; a draft
\* grants what was seen; a suggested rule helps; --strict lets nothing broad
\* through; a silent diff changes no decision; and the provider of a token
\* makes no difference (see PolicyDoc).
DocumentsHold ==
    CASE case.of = "raw" ->
            /\ Doc!RoundTrips(case.raw)
            /\ \A p \in Doc!IntoPolicy(case.raw) :
                /\ Doc!TestsRunAsGoverned(p, IdFields) /\ Doc!TestsTellTheTruth(p, IdFields)
                /\ Doc!BaselineOnlyDenies(p)
      [] case.of = "yaml" -> \A asked \in Asked(Someone) : Doc!DenyListWins(case.doc, asked)
      [] case.of = "draft" ->
            \A asked \in Asked(case.id) : Doc!DraftIsWhatWasSeen(case.id, case.seen, asked)
      [] case.of = "strict" ->
            \A asked \in Asked(case.id) :
                Doc!StrictIsNarrow(case.raw, case.id, case.other, asked)
      [] case.of = "set" ->
            \A asked \in Asked(Someone) :
                /\ Doc!SuggestionHelps(<<case.old, case.new>>, asked)
                /\ Doc!SilentDiffChangesNothing(case.old, case.new, asked)
      [] case.of = "token" ->
            \A asked \in Asked(Someone) : Doc!SameForAnyProvider(case.policy, case.tokens, asked)
      [] OTHER -> TRUE

-----------------------------------------------------------------------------
(* Addresses around every boundary, under every combination of flags.      *)

V4s ==
    {<<a, b, c, d>> :
        a \in {0, 1, 9, 10, 11, 99, 100, 101, 126, 127, 128, 169, 171, 172, 173, 191, 192, 193,
               223, 224, 239, 240, 255},
        b \in {0, 15, 16, 31, 32, 63, 64, 127, 128, 167, 168, 169, 253, 254, 255},
        c \in {0, 255}, d \in {0, 1, 254, 255}}

V6s ==
    {<<a, 0, 0, 0, 0, m, x, y>> :
        a \in {0, 1, 64511, 64512, 65023, 65024, 65151, 65152, 65215, 65216, 65279, 65280,
               65535},
        m \in {0, 65534, 65535}, x \in {0, 2560, 32512, 65535}, y \in {0, 1, 2, 65535}}

Floors ==
    {[Layers!DefaultFloor EXCEPT !.allow = a] : a \in SUBSET Layers!Categories}
    \cup {Layers!WithAllowedCidrs(Layers!WithAllowedPorts(f, {1}), {net}) :
            f \in {Layers!DefaultFloor, Layers!Permissive},
            net \in {Layers!Net(<<10, 16, 0, 0>>, 12), Layers!Net(<<169, 254, 254, 0>>, 31),
                     Layers!Net(Layers!V6(64512, 0), 127)}}
    \cup {[Layers!DefaultFloor EXCEPT !.denied = {1}]}

AddressCases == [of : {"address"}, ip : V4s] \cup [of : {"address"}, ip : V6s]

\* The flags, the mapped spelling, the allow list and the ports of the address
\* floor are the documented ones at every boundary (see Request).
FloorHolds ==
    case.of = "address" =>
        \A floor \in Floors, port \in {1, 2} :
            Layers!FloorHolds(floor, [ip |-> case.ip, port |-> port])

-----------------------------------------------------------------------------
(* Templates, and what they carry.                                         *)

Chars == {"a", "3", ":", "%", "/", "&", "=", "-"}

OneOrTwo == {<<c>> : c \in Chars} \cup {<<c, d>> : c, d \in Chars}

Lit(text) == Wire!Literal(text)
One(name) == Wire!Expression("simple", <<name>>)

Templates ==
    {<<Lit(<<"/">>), One("h"), Lit(<<"/">>), One("p"), Lit(<<"/">>)>>,
     <<Lit(<<"/">>), Wire!Expression("query", <<"h", "p">>)>>,
     <<Lit(<<"/", "?", "a", "=", "a">>), Wire!Expression("continuation", <<"p", "h">>)>>,
     <<Lit(<<"/">>), One("h"), Wire!Expression("query", <<"p">>)>>,
     <<Lit(<<"/">>), Wire!Expression("query", <<"h">>), One("p")>>,
     <<Lit(<<"/">>), One("h"), One("p")>>,
     <<Lit(<<"/">>), One("h"), Lit(<<"-">>), One("p")>>,
     <<Lit(<<"/">>), One("h")>>, <<Lit(<<"/">>)>>,
     <<Lit(<<"/">>), One("h"), Lit(<<"/">>), One("h")>>}

Hosts ==
    {<<"a">>, <<"a", "-", "2">>, <<"-", "3">>, <<"a", "&">>, <<"=">>} \cup Wire!IpV4 \cup Wire!IpV6

UriCases ==
    {[of |-> "values", parts |-> t, h |-> h, p |-> p] :
        t \in Templates, h \in OneOrTwo, p \in {<<c>> : c \in Chars} \cup {<<>>, <<"3", "%">>}}
    \cup {[of |-> "target", parts |-> t, target |-> [host |-> h, port |-> <<p>>]] :
        t \in Templates, h \in Hosts, p \in {"2", "3"}}
    \cup {[of |-> "scope", parts |-> t, scope |-> [target |-> h, protocol |-> p]] :
        t \in Templates, h \in {{}} \cup {{x} : x \in Hosts}, p \in {{}, {<<"2">>}}}

\* The proxy reads from a path the values, the target and the scope the client
\* put there (see Wire).
TemplatesHold ==
    CASE case.of = "values" ->
            LET values == [n \in {"h", "p"} |-> IF n = "h" THEN case.h ELSE case.p]
            IN  /\ Wire!ValuesRecovered(case.parts, values)
                /\ Wire!NothingInvented(case.parts, values)
      [] case.of = "target" -> Wire!TargetSurvives(case.parts, case.target)
      [] case.of = "scope" -> Wire!ScopeSurvives(case.parts, case.scope)
      [] OTHER -> TRUE

-----------------------------------------------------------------------------
layerVars == <<stack, allowed, req>>
processVars == <<boot, store>>
flowVars == <<script, wire, reader, queue, grams, tunnel>>

pvars == <<part, case, vars, evars, layerVars, processVars, flowVars>>

PInit ==
    /\ part \in Parts
    /\ IF part = "evaluate" THEN Init
       ELSE /\ policies = <<>> /\ ctx = CHOOSE c \in SetContexts : TRUE
            /\ phase = "select" /\ i = 1 /\ j = 1 /\ best = 0 /\ decision = Undecided
    /\ EInit
    /\ IF part = "request" THEN Layers!QInit
       ELSE /\ stack = [identity |-> "none", policy |-> "none", audit |-> FALSE, tcp |-> FALSE]
            /\ allowed = {} /\ req = Layers!NoRequest
    /\ IF part = "start" THEN Process!SInit
       ELSE boot = Process!Down /\ store = [identity |-> "none", policy |-> FALSE,
                tenants |-> FALSE, key |-> FALSE, revoked |-> FALSE]
    /\ IF part = "stream" THEN Flow!WInit
       ELSE /\ script = <<>> /\ wire = <<>> /\ queue = <<>> /\ grams = <<>>
            /\ reader = [buf |-> <<>>, popped |-> 0, state |-> "runs"]
            /\ tunnel = [open |-> TRUE, assigned |-> <<>>, routes |-> <<>>, heard |-> 0,
                         nones |-> 0, packets |-> <<>>]
    /\ IF part = "case" THEN case \in DocCases \cup AddressCases \cup UriCases \cup WireCases
       ELSE case = [of |-> "none"]

PNext ==
    /\ UNCHANGED <<part, case>>
    /\ \/ /\ part = "evaluate" /\ Next
          /\ UNCHANGED <<evars, layerVars, processVars, flowVars>>
       \/ /\ part = "exchange" /\ ENext
          /\ UNCHANGED <<vars, layerVars, processVars, flowVars>>
       \/ /\ part = "request" /\ Layers!QNext
          /\ UNCHANGED <<vars, evars, processVars, flowVars>>
       \/ /\ part = "start" /\ Process!SNext
          /\ UNCHANGED <<vars, evars, layerVars, flowVars>>
       \/ /\ part = "stream" /\ Flow!WNext
          /\ UNCHANGED <<vars, evars, layerVars, processVars>>

PSpec == PInit /\ [][PNext]_pvars

-----------------------------------------------------------------------------
\* Policies mean what their documents say, whichever way they are written:
\* denials name their cause, a CIDR rule reaches its prefix, documents survive
\* rendering, deny lists and baselines win, drafts, suggestions, lints and
\* diffs are true (parse.rs, eval.rs, render.rs, learn.rs, lint.rs, report.rs).
DocumentsInv ==
    /\ part = "evaluate" => Explained /\ CidrIsPrefix
    /\ part = "case" => DocumentsHold

\* A gateway that serves refuses what it was told to refuse, drives everything
\* it wired and serves from what it has, in the right order of layers; and in
\* that order a request reaches only a peer that was authorised and passed the
\* address floor, is audited as it was decided and answered truly, the floor
\* being right at every boundary (skimasque-server.rs main, service.rs,
\* server.rs, policy.rs).
ServiceInv ==
    /\ part = "start" => Process!StartupInv
    /\ part = "request" => Layers!RequestInv
    /\ part = "case" => FloorHolds

\* Capsules, ranges and packets come out as they went in, however the stream
\* is cut, and a target or scope survives the template that carries it
\* (capsule.rs, connect_ip.rs, template.rs, target.rs).
WireInv ==
    /\ part = "stream" => Flow!WireInv
    /\ part = "case" =>
        /\ TemplatesHold
        /\ case.of = "datagram" => Wire!DatagramSurvives(case.stream, case.context, case.bytes)
        /\ case.of = "request" => Wire!EveryRequestAnswered(case.asked, case.assigned)
=============================================================================
