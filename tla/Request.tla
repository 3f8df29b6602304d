------------------------------ MODULE Request -------------------------------
(***************************************************************************)
(* One tunnel request on its way through the gateway: parse_request, the   *)
(* layers of the service stack in their order, Dispatch, the resolution of *)
(* the target and the attempt at each resolved address, and the answer the *)
(* client is sent.  The policy set may be replaced at any time             *)
(* (PolicyHandle::store), the names may resolve to anything, and each      *)
(* address may be permitted or refused by the address floor.               *)
(***************************************************************************)
EXTENDS Integers, Sequences, FiniteSets

CONSTANTS Names,       \* target names
          Addresses,   \* addresses names resolve to
          Shut,        \* the ones the address floor refuses
          MaxAnswers   \* bound: addresses in one DNS answer

VARIABLES stack,     \* which layers and transports the gateway was built with
          allowed,   \* the targets the policy set in force allows
          req        \* the request

qvars == <<stack, allowed, req>>

Targets == Names \cup Addresses

Stacks == [identity : {"none", "token", "oidc", "tenant"},
           policy : {"none", "enforce", "observe"}, audit : BOOLEAN, tcp : BOOLEAN]

\* platform_service always enforces and audits; build_service has an audit sink
\* only where there is a policy layer, and may have none.
Built(s) ==
    /\ s.identity = "tenant" => s.policy = "enforce" /\ s.audit
    /\ s.policy = "none" => ~s.audit

\* `target` is what was asked for, `authorized` what policy let through,
\* `decision` what the audit trail holds; `peer` is the address the tunnel's
\* socket is connected to.
NoRequest == [pc |-> "idle", protocol |-> "none", credential |-> "none", target |-> "none",
              authorized |-> "none", decision |-> "none", audited |-> 0, candidates |-> <<>>,
              at |-> 1, looked |-> FALSE, peer |-> "none", status |-> 0, error |-> "none",
              capsules |-> FALSE]

QInit ==
    /\ stack \in {s \in Stacks : Built(s)}
    /\ allowed \in SUBSET Targets
    /\ req = NoRequest

\* Rejection and rejection_response: the status, and the error type of the
\* Proxy-Status header if the rejection has one.
Reject(r, status, error) ==
    [r EXCEPT !.pc = "answered", !.status = status, !.error = error]

-----------------------------------------------------------------------------
\* parse_request: only CONNECT; without :protocol the authority is a TCP target;
\* with it, only connect-udp, and the path must match the template.  `form` is
\* the state of the authority or path the target is recovered from.
Parse(method, protocol, form, target, credential) ==
    /\ req.pc = "idle"
    /\ LET r == [NoRequest EXCEPT !.protocol = protocol, !.target = target,
                                  !.credential = credential, !.pc = "identify"]
       IN req' = CASE method # "CONNECT" -> Reject(NoRequest, 405, "none")
                   [] method = "CONNECT" /\ protocol \in {"ip", "other"} -> Reject(NoRequest, 501, "none")
                   [] method = "CONNECT" /\ protocol \in {"tcp", "udp"} /\ form = "missing" ->
                        Reject(NoRequest, 400, "none")
                   [] method = "CONNECT" /\ protocol \in {"tcp", "udp"} /\ form = "malformed" ->
                        Reject(NoRequest, IF protocol = "tcp" THEN 400 ELSE 404, "destination_not_found")
                   [] OTHER -> r
    /\ UNCHANGED <<stack, allowed>>

Challenged(r) == Reject(r, 407, "http_request_denied")

Denied(r) == Reject(r, 403, "http_request_denied")

\* Authorize: any credential but the static token is challenged.
Authorize(r) == IF r.credential = "good" THEN [r EXCEPT !.pc = "session"] ELSE Challenged(r)

\* Identify and TenantIdentify: no credential is challenged, one that does not
\* verify (for a tenant: that names none this gateway serves) is refused.
Verified(r) ==
    CASE r.credential = "none" -> Challenged(r)
      [] r.credential = "bad" -> Denied(r)
      [] OTHER -> [r EXCEPT !.pc = "session"]

TenantVerified(r) == Verified(r)

Identify ==
    /\ req.pc = "identify"
    /\ req' = CASE stack.identity = "none" -> [req EXCEPT !.pc = "session"]
                [] stack.identity = "token" -> Authorize(req)
                [] stack.identity = "oidc" -> Verified(req)
                [] stack.identity = "tenant" -> TenantVerified(req)
    /\ UNCHANGED <<stack, allowed>>

\* Revoked: only an identity layer leaves a session to look at, and a credential
\* may carry none; an ended or expired session is refused before policy is asked.
Revoked(session) ==
    /\ req.pc = "session"
    /\ session # "none" => stack.identity \in {"oidc", "tenant"}
    /\ req' = CASE session = "ended" -> Reject(req, 403, "session_ended")
                [] session = "expired" -> Reject(req, 403, "session_expired")
                [] OTHER -> [req EXCEPT !.pc = "policy"]
    /\ UNCHANGED <<stack, allowed>>

\* The audit sink, if there is one, is given the decision.
Recorded(r, decision) ==
    [r EXCEPT !.decision = decision, !.audited = IF stack.audit THEN @ + 1 ELSE @]

\* denial_rejection.
Prohibited(r) == Reject(r, 403, "destination_prohibited")

\* Enforce: the set is read once; the decision is recorded before it is acted
\* on; observing lets everything through, trusting and unrecorded.  The request
\* of a tenant that is no longer served is refused unrecorded.
Enforce(served) ==
    /\ req.pc = "policy"
    /\ stack.identity # "tenant" => served
    /\ req' = CASE stack.policy = "none" -> [req EXCEPT !.pc = "dispatch"]
                [] stack.policy = "observe" -> [req EXCEPT !.pc = "dispatch", !.authorized = req.target]
                [] stack.policy = "enforce" /\ ~served -> Denied(req)
                [] stack.policy = "enforce" /\ served /\ req.target \in allowed ->
                      [Recorded(req, "allow") EXCEPT !.pc = "quota", !.authorized = req.target]
                [] OTHER -> Prohibited(Recorded(req, "deny"))
    /\ UNCHANGED <<stack, allowed>>

\* Meter: a policy whose permits are taken is a 503.
Quota(permit) ==
    /\ req.pc = "quota"
    /\ req' = IF permit THEN [req EXCEPT !.pc = "dispatch"] ELSE Reject(req, 503, "connection_limit_reached")
    /\ UNCHANGED <<stack, allowed>>

\* Dispatch: a transport that was not turned on is a 501.  Without a policy
\* layer the target is trusted (AuthorizedDestination::trusting).
Dispatch ==
    /\ req.pc = "dispatch"
    /\ req' = IF req.protocol = "tcp" /\ ~stack.tcp THEN Reject(req, 501, "none")
              ELSE [req EXCEPT !.pc = "resolve",
                               !.authorized = IF stack.policy = "none" THEN req.target ELSE @]
    /\ UNCHANGED <<stack, allowed>>

\* resolve: an address is its own answer; a name is looked up once.
Resolve(found, answer) ==
    /\ req.pc = "resolve"
    /\ req.authorized \in Addresses => found /\ answer = <<req.authorized>>
    /\ req' = IF ~found \/ answer = <<>> THEN Reject([req EXCEPT !.looked = TRUE], 502, "dns_error")
              ELSE [req EXCEPT !.pc = "try", !.candidates = answer, !.at = 1,
                               !.looked = req.authorized \notin Addresses]
    /\ UNCHANGED <<stack, allowed>>

\* open_tunnel and open_tcp_tunnel, one address: a refused address is passed
\* over, a failed socket too, and what the last one said is the answer.
NextCandidate(status, error) ==
    req' = IF req.at = Len(req.candidates) THEN Reject(req, status, error)
           ELSE [req EXCEPT !.at = @ + 1]

\* success_response and tcp_success_response: the capsule protocol is announced
\* on a UDP tunnel.
Accept(r, addr) ==
    [r EXCEPT !.pc = "answered", !.status = 200, !.peer = addr,
              !.capsules = r.protocol = "udp"]

\* tcp_connect_rejection tells a refusal and a timeout apart; a UDP socket does
\* not.
ConnectError(outcome) ==
    IF req.protocol = "tcp" /\ outcome # "failed" THEN outcome ELSE "proxy_internal_error"

\* Mutant: the address floor is asked about the first address only.
TryAddress_FirstChecked(outcome) ==
    /\ req.pc = "try"
    /\ LET addr == req.candidates[req.at]
       IN CASE addr \in Shut /\ req.at = 1 -> NextCandidate(403, "destination_ip_prohibited")
            [] outcome = "open" /\ (addr \notin Shut \/ req.at > 1) -> req' = Accept(req, addr)
            [] OTHER -> NextCandidate(502, "proxy_internal_error")
    /\ UNCHANGED <<stack, allowed>>

TryAddress(outcome) ==
    /\ req.pc = "try"
    /\ LET addr == req.candidates[req.at]
       IN CASE addr \in Shut -> NextCandidate(403, "destination_ip_prohibited")
            [] addr \notin Shut /\ outcome = "open" -> req' = Accept(req, addr)
            [] OTHER -> NextCandidate(502, ConnectError(outcome))
    /\ UNCHANGED <<stack, allowed>>

Outcomes == {"open", "failed", "connection_refused", "connection_timeout"}

Served ==
    /\ req.pc = "answered"
    /\ req' = NoRequest
    /\ UNCHANGED <<stack, allowed>>

\* PolicyHandle::store.
StorePolicy(targets) ==
    /\ allowed' = targets
    /\ UNCHANGED <<stack, req>>

Lookups == UNION {[1..n -> Addresses] : n \in 0..MaxAnswers}

QNext ==
    \/ \E method \in {"CONNECT", "GET"}, protocol \in {"tcp", "udp", "ip", "other"},
          form \in {"good", "missing", "malformed"}, target \in Targets,
          credential \in {"none", "bad", "good"} :
            Parse(method, protocol, form, target, credential)
    \/ \E session \in {"none", "live", "ended", "expired"} : Revoked(session)
    \/ Identify \/ Dispatch \/ Served
    \/ \E ok \in BOOLEAN : Enforce(ok) \/ Quota(ok)
    \/ \E found \in BOOLEAN, answer \in Lookups : Resolve(found, answer)
    \/ \E outcome \in Outcomes : TryAddress(outcome)
    \/ \E targets \in SUBSET Targets : StorePolicy(targets)

QSpec == QInit /\ [][QNext]_qvars

-----------------------------------------------------------------------------
\* The address that was checked is the address the socket is connected to, of
\* the answer to the one lookup that was made for the authorised name: a name
\* that resolves to something else a moment later changes nothing, and a mix of
\* permitted and refused addresses never lets a refused one through.
PeerWasChecked ==
    req.peer # "none" =>
        /\ req.peer \notin Shut
        /\ req.peer = req.candidates[req.at]
        /\ req.authorized = req.target
        /\ req.target \in Addresses => req.peer = req.target

\* Who gets a tunnel: with an identity layer only a good credential, with an
\* enforcing policy only a request that was decided "allow" and recorded; and
\* nothing is looked up for anybody else.
OnlyAuthorisedReach ==
    req.status = 200 \/ req.looked =>
        /\ stack.identity # "none" => req.credential = "good"
        /\ stack.policy = "enforce" => req.decision = "allow" /\ (stack.audit => req.audited = 1)

\* Where there is a trail it has one record for each enforced decision, and none for a request
\* that was never decided, whatever becomes of the request afterwards.
AuditMatches ==
    req.pc = "answered" =>
        /\ req.audited = (IF req.decision # "none" /\ stack.audit THEN 1 ELSE 0)
        /\ (req.error = "destination_prohibited") <=> (req.decision = "deny")

\* What the status tells the client: only a request that never passed
\* authentication is challenged, the capsule protocol is announced for UDP
\* alone, and a tunnel is never reported together with an error.
AnswerIsTrue ==
    req.pc = "answered" =>
        /\ req.status = 407 => req.credential # "good" /\ req.decision = "none"
        /\ req.capsules => req.protocol = "udp" /\ req.status = 200
        /\ (req.status = 200) <=> (req.peer # "none")
        /\ req.error = "destination_ip_prohibited" => req.candidates[Len(req.candidates)] \in Shut
        /\ req.protocol = "tcp" /\ ~stack.tcp => req.status # 200

RequestInv == PeerWasChecked /\ OnlyAuthorisedReach /\ AuditMatches /\ AnswerIsTrue

-----------------------------------------------------------------------------
(* The address floor (AddressPolicy): the rules every resolved address     *)
(* passes before a socket is opened to it.  An IPv4 address is four        *)
(* octets, an IPv6 address eight segments, each word with its width, so    *)
(* that the prefix and mask tests are the ones of the code.  The requests  *)
(* above are sent to addresses of which it refuses the ones in Shut.       *)

Width(ip) == IF Len(ip) = 4 THEN 8 ELSE 16

\* AddressPolicy's flags, its ports and its allow-listed networks.
Categories == {"loopback", "private", "link_local", "multicast", "unspecified"}

\* Default: no category, every port.
DefaultFloor == [allow |-> {}, anyPort |-> TRUE, ports |-> {}, denied |-> {}, cidrs |-> {}]

Permissive == [DefaultFloor EXCEPT !.allow = Categories]

WithAllowedPorts(floor, ports) == [floor EXCEPT !.anyPort = FALSE, !.ports = ports]

WithAllowedCidrs(floor, cidrs) == [floor EXCEPT !.cidrs = cidrs]

\* Ipv6Addr::to_ipv4_mapped: ::ffff:a.b.c.d and nothing else.
Unwrapped(ip) ==
    IF Len(ip) = 8 /\ (\A i \in 1..5 : ip[i] = 0) /\ ip[6] = 65535
    THEN <<ip[7] \div 256, ip[7] % 256, ip[8] \div 256, ip[8] % 256>>
    ELSE ip

\* IpNet::contains: the first len bits agree, in the same family.
NetContains(net, ip) ==
    /\ Len(net.ip) = Len(ip)
    /\ \A i \in 1..Len(ip) :
         LET left == net.len - Width(ip) * (i - 1)
             bits == IF left < 0 THEN 0 ELSE IF left > Width(ip) THEN Width(ip) ELSE left
             unit == 2 ^ (Width(ip) - bits)
         IN net.ip[i] \div unit = ip[i] \div unit

\* The std predicates, and the three the module open-codes.
IsUnspecified(ip) == \A i \in 1..Len(ip) : ip[i] = 0

IsSharedV4(ip) == ip[1] = 100 /\ ip[2] \in 64..127

IsPrivateV4(ip) ==
    \/ ip[1] = 10
    \/ ip[1] = 172 /\ ip[2] \in 16..31
    \/ ip[1] = 192 /\ ip[2] = 168

IsLinkLocalV6(ip) == (ip[1] \div 64) * 64 = 65152

\* Mutant: fc00::/8 instead of fc00::/7.
IsUniqueLocalV6_Half(ip) == ip[1] \div 256 = 252

IsUniqueLocalV6(ip) == (ip[1] \div 512) * 512 = 64512

IsLoopbackV6(ip) == ip[8] = 1 /\ \A i \in 1..7 : ip[i] = 0

\* permits_v4 and permits_v6: the first category that is not allowed refuses.
PermitsV4(floor, ip) ==
    /\ IsUnspecified(ip) => "unspecified" \in floor.allow
    /\ ip[1] = 127 => "loopback" \in floor.allow
    /\ ip[1] = 169 /\ ip[2] = 254 => "link_local" \in floor.allow
    /\ ip[1] \in 224..239 \/ ip = <<255, 255, 255, 255>> => "multicast" \in floor.allow
    /\ IsPrivateV4(ip) \/ IsSharedV4(ip) => "private" \in floor.allow

PermitsV6(floor, ip) ==
    /\ IsUnspecified(ip) => "unspecified" \in floor.allow
    /\ IsLoopbackV6(ip) => "loopback" \in floor.allow
    /\ IsLinkLocalV6(ip) => "link_local" \in floor.allow
    /\ ip[1] \div 256 = 255 => "multicast" \in floor.allow
    /\ IsUniqueLocalV6(ip) => "private" \in floor.allow

\* permits: the ports first, which no allow-listed network overrides.
Permits(floor, addr) ==
    LET ip == Unwrapped(addr.ip)
    IN /\ floor.anyPort \/ addr.port \in floor.ports
       /\ addr.port \notin floor.denied
       /\ \/ \E net \in floor.cidrs : NetContains(net, ip)
          \/ IF Len(ip) = 4 THEN PermitsV4(floor, ip) ELSE PermitsV6(floor, ip)

Net(ip, len) == [ip |-> ip, len |-> len]

V6(first, last) == <<first, 0, 0, 0, 0, 0, 0, last>>

\* The networks the field comments of AddressPolicy give to each flag.
Documented == [
    loopback |-> {Net(<<127, 0, 0, 0>>, 8), Net(V6(0, 1), 128)},
    private |-> {Net(<<10, 0, 0, 0>>, 8), Net(<<172, 16, 0, 0>>, 12), Net(<<192, 168, 0, 0>>, 16),
                 Net(<<100, 64, 0, 0>>, 10), Net(V6(64512, 0), 7)},
    link_local |-> {Net(<<169, 254, 0, 0>>, 16), Net(V6(65152, 0), 10)},
    multicast |-> {Net(<<224, 0, 0, 0>>, 4), Net(<<255, 255, 255, 255>>, 32), Net(V6(65280, 0), 8)},
    unspecified |-> {Net(<<0, 0, 0, 0>>, 32), Net(V6(0, 0), 128)}]

\* A flag opens the networks its comment names and no other address: the
\* predicates and masks of permits_v4 and permits_v6 have the boundaries of the
\* documented blocks, for the IPv4-mapped spelling of an address too.
FlagsAreBlocks(floor, addr) ==
    floor.cidrs = {} /\ floor.anyPort /\ floor.denied = {} =>
        (Permits(floor, addr) <=>
            \A c \in Categories \ floor.allow :
                ~\E net \in Documented[c] : NetContains(net, Unwrapped(addr.ip)))

Mapped(ip) == <<0, 0, 0, 0, 0, 65535, 256 * ip[1] + ip[2], 256 * ip[3] + ip[4]>>

\* An IPv4-mapped address is judged as the address it wraps, by the flags, by
\* the allow-listed networks and by the ports.
MappedJudgedAlike(floor, addr) ==
    Len(addr.ip) = 4 =>
        (Permits(floor, addr) <=> Permits(floor, [addr EXCEPT !.ip = Mapped(addr.ip)]))

\* Allow-listing a network adds its addresses on the permitted ports and no
\* other: not the neighbouring address, not a port the operator shut.
AllowListIsExact(floor, addr) ==
    LET base == [floor EXCEPT !.cidrs = {}]
        portOpen == (floor.anyPort \/ addr.port \in floor.ports) /\ addr.port \notin floor.denied
    IN Permits(floor, addr) <=>
         \/ Permits(base, addr)
         \/ portOpen /\ \E net \in floor.cidrs : NetContains(net, Unwrapped(addr.ip))

FloorHolds(floor, addr) ==
    FlagsAreBlocks(floor, addr) /\ MappedJudgedAlike(floor, addr) /\ AllowListIsExact(floor, addr)
=============================================================================
