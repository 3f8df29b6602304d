-------------------------------- MODULE Wire --------------------------------
(***************************************************************************)
(* The wire formats of a CONNECT-IP tunnel and the conversation they carry *)
(* (skimasque-core/src/{varint,capsule,datagram,connect_ip}.rs, the        *)
(* CapsulePump and IpTunnel of skimasque).    One end of the tunnel writes *)
(* capsules on the request stream; the stream delivers their bytes in      *)
(* arbitrary chunks and may end anywhere; the other end's reader task      *)
(* reassembles them, and IpTunnel::recv acts on each.                      *)
(*                                                                         *)
(* A byte has ByteBits bits (8 in the code) and an address is V4Len or     *)
(* V6Len bytes long (4 and 16), so that the boundaries of every format are *)
(* reached by small numbers.  A result that may be missing is a set with   *)
(* at most one element.                                                    *)
(***************************************************************************)
EXTENDS Integers, Sequences, FiniteSets, SequencesExt

CONSTANTS
    ByteBits,     \* bits of a byte
    V4Len, V6Len, \* bytes of an address
    MaxValueLen,  \* DEFAULT_MAX_VALUE_LEN
    Chunk,        \* the largest chunk the stream delivers at once
    Scripts       \* what the peer may write: sequences of capsules, each with
                  \* its kind, its value and what it means (nothing when it is
                  \* malformed)

VARIABLES
    script,  \* the capsules the peer writes (fixed)
    wire,    \* the bytes of the stream not yet delivered
    reader,  \* the reader task: the decoder's buffer, how many capsules it
             \* has popped, and whether it runs, failed or finished
    queue,   \* control capsules waiting for the tunnel
    grams,   \* datagram payloads waiting for the tunnel
    tunnel   \* IpTunnel: open, assigned, peer_routes; how many control
             \* capsules recv has acted on, and the packets it gave out

wvars == <<script, wire, reader, queue, grams, tunnel>>

Base == 2 ^ ByteBits

\* n bytes of v, most significant first; and back.
Bytes(n, v) == [i \in 1..n |-> (v \div Base ^ (n - i)) % Base]

Number(bytes) == FoldLeft(LAMBDA v, b : v * Base + b, 0, bytes)

-----------------------------------------------------------------------------
(* Variable-length integers.                                               *)

VarintMax == 2 ^ (8 * ByteBits - 2) - 1

\* encoded_len: the top two bits of the first byte hold the length.
EncodedLen(v) ==
    CHOOSE n \in {1, 2, 4, 8} :
        /\ v < 2 ^ (n * ByteBits - 2)
        /\ \A k \in {1, 2, 4, 8} : v < 2 ^ (k * ByteBits - 2) => n <= k

LenMark(n) == CHOOSE k \in 0..3 : 2 ^ k = n

Encode(v) ==
    LET n == EncodedLen(v)
    IN  [Bytes(n, v) EXCEPT ![1] = @ + LenMark(n) * (Base \div 4)]

\* decode_slice: nothing unless the whole varint is there.
DecodeSlice(input) ==
    IF input = <<>> THEN {} ELSE
    LET n == 2 ^ (input[1] \div (Base \div 4))
    IN  IF Len(input) < n THEN {}
        ELSE {[value |-> Number([SubSeq(input, 1, n) EXCEPT ![1] = @ % (Base \div 4)]),
               len |-> n]}

Drop(s, n) == SubSeq(s, n + 1, Len(s))

-----------------------------------------------------------------------------
(* Capsules.                                                               *)

DATAGRAM == 0
ADDRESS_ASSIGN == 1
ADDRESS_REQUEST == 2
ROUTE_ADVERTISEMENT == 3

\* Capsule::encode.
EncodeCapsule(c) == Encode(c.kind) \o Encode(Len(c.value)) \o c.value

TooLarge == [kind |-> -1, value |-> <<>>, used |-> 0]

\* next_capsule: nothing while bytes are missing, and an oversized length
\* refused before its value is waited for.
NextCapsule(buf) ==
    UNION {
        LET rest == Drop(buf, k.len)
        IN  UNION {
                LET head == k.len + n.len
                IN  IF n.value > MaxValueLen THEN {TooLarge}
                    ELSE IF Len(buf) < head + n.value THEN {}
                    ELSE {[kind |-> k.value, used |-> head + n.value,
                           value |-> SubSeq(buf, head + 1, head + n.value)]}
                : n \in DecodeSlice(rest)}
        : k \in DecodeSlice(buf)}

-----------------------------------------------------------------------------
(* The payloads of CONNECT-IP capsules.                                    *)

AddrLen(v6) == IF v6 THEN V6Len ELSE V4Len

AddrBits(v6) == AddrLen(v6) * ByteBits

Version(v6) == IF v6 THEN 6 ELSE 4

\* Mutant: host bits are not looked at.
PrefixOk_AnyHostBits(addr, len) == len <= AddrBits(addr.v6)

\* The address without its host bits.
Masked(addr, len) == addr.n - (addr.n % 2 ^ (AddrBits(addr.v6) - len))

\* IpPrefix::new: the length fits and no host bit is set.
PrefixOk(addr, len) == len <= AddrBits(addr.v6) /\ Masked(addr, len) = addr.n

\* IpAddressRange::new: one family, ascending.
RangeOk(start, end) == start.v6 = end.v6 /\ start.n <= end.n

\* Mutant: only the starts of two ranges are compared.
RouteOrdered_Starts(a, b) ==
    \/ ~a.start.v6 /\ b.start.v6
    \/ a.start.v6 = b.start.v6 /\ a.protocol < b.protocol
    \/ a.start.v6 = b.start.v6 /\ a.protocol = b.protocol /\ a.start.n < b.start.n

\* The order check_route_ordering asks of neighbours: by version, then
\* protocol, then address, without overlap.
RouteOrdered(a, b) ==
    \/ ~a.start.v6 /\ b.start.v6
    \/ a.start.v6 = b.start.v6 /\ a.protocol < b.protocol
    \/ a.start.v6 = b.start.v6 /\ a.protocol = b.protocol /\ a.end.n < b.start.n

CheckRouteOrdering(ranges) ==
    \A i \in 1..(Len(ranges) - 1) : RouteOrdered(ranges[i], ranges[i + 1])

EncodeAddr(addr) == Bytes(AddrLen(addr.v6), addr.n)

EncodeEntry(kind, e) ==
    IF kind = ROUTE_ADVERTISEMENT
    THEN <<Version(e.start.v6)>> \o EncodeAddr(e.start) \o EncodeAddr(e.end)
         \o <<e.protocol>>
    ELSE Encode(e.id) \o <<Version(e.addr.v6)>> \o EncodeAddr(e.addr) \o <<e.len>>

\* to_capsule: what the sender refuses to build, and the bytes otherwise.
Sendable(kind, entries) ==
    /\ kind = ADDRESS_REQUEST =>
        entries # <<>> /\ \A i \in 1..Len(entries) : entries[i].id # 0
    /\ kind = ROUTE_ADVERTISEMENT => CheckRouteOrdering(entries)

ToCapsule(kind, entries) ==
    [kind |-> kind,
     value |-> FoldLeft(LAMBDA v, e : v \o EncodeEntry(kind, e), <<>>, entries)]

\* decode_address_of_version: at position k of the input.
DecodeAddr(input, k, version) ==
    {[v6 |-> v6, n |-> Number(SubSeq(input, k, k + AddrLen(v6) - 1))] :
        v6 \in {b \in BOOLEAN : /\ Version(b) = version
                                /\ Len(input) >= k + AddrLen(b) - 1}}

\* IpPrefix::decode after a request id, and one entry of a route
\* advertisement, each with the number of bytes it takes.
DecodePrefix(input, id, k) ==
    {[entry |-> [id |-> id, addr |-> a, len |-> input[k + AddrLen(a.v6) + 1]],
      used |-> k + AddrLen(a.v6) + 1] :
        a \in {x \in IF Len(input) < k THEN {} ELSE DecodeAddr(input, k + 1, input[k]) :
                /\ Len(input) > k + AddrLen(x.v6)
                /\ PrefixOk(x, input[k + AddrLen(x.v6) + 1])}}

DecodeRange(input) ==
    UNION {
        LET n == AddrLen(s.v6)
        IN  {[entry |-> [start |-> s, end |-> e, protocol |-> input[2 * n + 2]],
              used |-> 2 * n + 2] :
                e \in {x \in DecodeAddr(input, n + 2, input[1]) :
                        Len(input) >= 2 * n + 2 /\ RangeOk(s, x)}}
        : s \in DecodeAddr(input, 2, input[1])}

DecodeEntry(kind, input) ==
    IF kind = ROUTE_ADVERTISEMENT THEN DecodeRange(input)
    ELSE UNION {DecodePrefix(input, v.value, v.len + 1) :
                v \in {x \in DecodeSlice(input) :
                        kind = ADDRESS_REQUEST => x.value # 0}}

RECURSIVE DecodeEntries(_, _)
DecodeEntries(kind, input) ==
    IF input = <<>> THEN {<<>>}
    ELSE UNION {{<<x.entry>> \o rest : rest \in DecodeEntries(kind, Drop(input, x.used))} :
                x \in DecodeEntry(kind, input)}

\* from_capsule, for the three types it knows: no element for a malformed one.
FromCapsule(c) ==
    {entries \in DecodeEntries(c.kind, c.value) :
        /\ c.kind = ADDRESS_REQUEST => entries # <<>>
        /\ c.kind = ROUTE_ADVERTISEMENT => CheckRouteOrdering(entries)}

\* answer_address_request: one answer per request, with its id: the first
\* assigned prefix of its family, or the all-zero address that says no.
AnswerAddressRequest(requests, assigned) ==
    [i \in 1..Len(requests) |->
        LET v6 == requests[i].addr.v6
            same == SelectSeq(assigned, LAMBDA p : p.addr.v6 = v6)
        IN  IF same # <<>> THEN [Head(same) EXCEPT !.id = requests[i].id]
            ELSE [id |-> requests[i].id, addr |-> [v6 |-> v6, n |-> 0], len |-> AddrBits(v6)]]

-----------------------------------------------------------------------------
(* Datagrams.                                                              *)

MAX_QUARTER_STREAM_ID == 2 ^ (8 * ByteBits - 4) - 1

\* from_stream_id: only the client's bidirectional streams carry requests.
FromStreamId(stream) == {q \in {stream \div 4} : stream % 4 = 0}

EncodeHttp3Datagram(quarter, payload) == Encode(quarter) \o payload

DecodeHttp3Datagram(buf) ==
    {[stream |-> 4 * q.value, payload |-> Drop(buf, q.len)] :
        q \in {x \in DecodeSlice(buf) : x.value <= MAX_QUARTER_STREAM_ID}}

\* ProxyingPayload: the bytes behind their context's identifier.
EncodePayload(context, bytes) == Encode(context) \o bytes

DecodePayload(buf) ==
    {[context |-> c.value, bytes |-> Drop(buf, c.len)] : c \in DecodeSlice(buf)}

\* decode_packet: the packet of the default context, as a sequence of at most
\* one; a payload of another context, or with none, is dropped.
DecodePacket(payload) ==
    SetToSeq({p.bytes : p \in {x \in DecodePayload(payload) : x.context = 0}})

-----------------------------------------------------------------------------
(* The conversation.                                                       *)

Known(kind) == kind \in {ADDRESS_ASSIGN, ADDRESS_REQUEST, ROUTE_ADVERTISEMENT}

Stream(capsules) == FoldLeft(LAMBDA s, c : s \o EncodeCapsule(c), <<>>, capsules)

WInit ==
    /\ script \in Scripts
    /\ \E cut \in 0..Len(Stream(script)) : wire = SubSeq(Stream(script), 1, cut)
    /\ reader = [buf |-> <<>>, popped |-> 0, state |-> "runs"]
    /\ queue = <<>>
    /\ grams = <<>>
    /\ tunnel = [open |-> TRUE, assigned |-> <<>>, routes |-> <<>>, heard |-> 0,
                 nones |-> 0, packets |-> <<>>]

\* The reader task takes the next chunk; CapsulePump::push drains the
\* decoder before it takes another.
Arrive(n) ==
    /\ reader.state = "runs" /\ NextCapsule(reader.buf) = {}
    /\ n <= Len(wire)
    /\ wire' = Drop(wire, n)
    /\ reader' = [reader EXCEPT !.buf = @ \o SubSeq(wire, 1, n)]
    /\ UNCHANGED <<script, queue, grams, tunnel>>

\* One turn of CapsulePump::push's loop: a datagram joins the datagrams, any
\* other capsule the control queue; a malformed one, or a tunnel that no longer
\* listens, ends the reader.
Pop ==
    /\ reader.state = "runs"
    /\ \E c \in NextCapsule(reader.buf) :
        IF c = TooLarge \/ ~tunnel.open
        THEN /\ reader' = [reader EXCEPT !.state = "failed"]
             /\ UNCHANGED <<queue, grams>>
        ELSE /\ reader' = [reader EXCEPT !.buf = Drop(@, c.used), !.popped = @ + 1]
             /\ IF c.kind = DATAGRAM
                THEN grams' = Append(grams, c.value) /\ UNCHANGED queue
                ELSE /\ queue' = Append(queue, [kind |-> c.kind, value |-> c.value])
                     /\ UNCHANGED grams
    /\ UNCHANGED <<script, wire, tunnel>>

\* The peer has closed its side: CapsuleDecoder::finish.
Finish ==
    /\ reader.state = "runs" /\ wire = <<>> /\ NextCapsule(reader.buf) = {}
    /\ reader' = [reader EXCEPT !.state =
                    IF reader.buf = <<>> THEN "clean" ELSE "incomplete"]
    /\ UNCHANGED <<script, wire, queue, grams, tunnel>>

\* IpTunnel::recv acting on a control capsule: each of the two sets supersedes
\* the last, an unknown type is ignored; for a malformed capsule recv gives
\* None, and a caller that asks again is served what comes after it.
RecvCapsule ==
    /\ tunnel.open /\ queue # <<>>
    /\ LET c == Head(queue)
           got == IF Known(c.kind) THEN FromCapsule(c) ELSE {<<>>}
       IN  tunnel' =
            [tunnel EXCEPT
                !.heard = @ + 1,
                !.nones = IF got = {} THEN @ + 1 ELSE @,
                !.assigned = IF got # {} /\ c.kind = ADDRESS_ASSIGN
                             THEN CHOOSE e \in got : TRUE ELSE @,
                !.routes = IF got # {} /\ c.kind = ROUTE_ADVERTISEMENT
                           THEN CHOOSE e \in got : TRUE ELSE @]
    /\ queue' = Tail(queue)
    /\ UNCHANGED <<script, wire, reader, grams>>

\* The same on a datagram, after the control capsules: a packet of the default
\* context is given out, any other payload dropped.
RecvDatagram ==
    /\ tunnel.open /\ queue = <<>> /\ grams # <<>> /\ reader.state = "runs"
    /\ tunnel' = [tunnel EXCEPT !.packets = @ \o DecodePacket(Head(grams))]
    /\ grams' = Tail(grams)
    /\ UNCHANGED <<script, wire, reader, queue>>

\* The caller takes a None for the end and drops the tunnel, its queues with it.
Leave ==
    /\ tunnel.open /\ tunnel.nones > 0
    /\ tunnel' = [tunnel EXCEPT !.open = FALSE]
    /\ UNCHANGED <<script, wire, reader, queue, grams>>

\* The reader is gone and its queue empty: recv gives None.
RecvClosed ==
    /\ tunnel.open /\ queue = <<>> /\ reader.state # "runs"
    /\ tunnel' = [tunnel EXCEPT !.open = FALSE]
    /\ UNCHANGED <<script, wire, reader, queue, grams>>

WNext ==
    \/ \E n \in 1..Chunk : Arrive(n)
    \/ Pop
    \/ Finish
    \/ RecvCapsule
    \/ RecvDatagram
    \/ Leave
    \/ RecvClosed

WSpec == WInit /\ [][WNext]_wvars

-----------------------------------------------------------------------------
(* Properties.                                                             *)

Controls(n) == SelectSeq(SubSeq(script, 1, n), LAMBDA c : c.kind # DATAGRAM)

Datagrams(n) == SelectSeq(SubSeq(script, 1, n), LAMBDA c : c.kind = DATAGRAM)

\* However the stream is cut into chunks, the capsules popped, the decoder's
\* buffer and what is still to come are the bytes written, in order: a capsule
\* is neither lost, nor made up, nor read across another's boundary, and what
\* an unfinished capsule can make the decoder hold is bounded.
Reassembled ==
    reader.state # "failed" =>
        /\ IsPrefix(Stream(SubSeq(script, 1, reader.popped)) \o reader.buf \o wire,
                    Stream(script))
        /\ NextCapsule(reader.buf) = {} => Len(reader.buf) < 16 + MaxValueLen

\* The set a kind of capsule last established, among those recv has acted on.
Established(kind) ==
    LET heard == SubSeq(Controls(Len(script)), 1, tunnel.heard)
        said == SelectSeq(heard, LAMBDA c : c.kind = kind /\ c.means # {})
    IN  IF said = <<>> THEN <<>> ELSE CHOOSE e \in Last(said).means : TRUE

\* The tunnel's addresses and routes are the ones the peer last wrote, value
\* for value, and the caller of recv was told None for every malformed capsule
\* before anything behind it was acted on.
TunnelTrue ==
    LET heard == SubSeq(Controls(Len(script)), 1, tunnel.heard)
        malformed == {k \in 1..Len(heard) : Known(heard[k].kind) /\ heard[k].means = {}}
    IN  /\ tunnel.assigned = Established(ADDRESS_ASSIGN)
        /\ tunnel.routes = Established(ROUTE_ADVERTISEMENT)
        /\ tunnel.nones = Cardinality(malformed)

\* The ranges of a route advertisement in force never overlap: the order is
\* checked between neighbours only.
RoutesDisjoint ==
    \A k, m \in 1..Len(tunnel.routes) :
        LET a == tunnel.routes[k]
            b == tunnel.routes[m]
        IN  k < m /\ a.start.v6 = b.start.v6 /\ a.protocol = b.protocol =>
                a.end.n < b.start.n

\* The packets given out are those of the default context, each once and in
\* the order written.
PacketsInOrder ==
    IsPrefix(tunnel.packets,
             FoldLeft(LAMBDA s, c : IF c.means = {} THEN s
                                    ELSE Append(s, CHOOSE e \in c.means : TRUE),
                      <<>>, Datagrams(reader.popped)))

\* A datagram reaches the request and the context it was sent in, whatever the
\* lengths of the two identifiers before it.
DatagramSurvives(stream, context, bytes) ==
    \A q \in FromStreamId(stream) :
        q <= MAX_QUARTER_STREAM_ID =>
            LET got == DecodeHttp3Datagram(EncodeHttp3Datagram(q, EncodePayload(context, bytes)))
            IN  /\ {g.stream : g \in got} = {stream}
                /\ \A g \in got :
                    /\ DecodePayload(g.payload) = {[context |-> context, bytes |-> bytes]}
                    /\ DecodePacket(g.payload) = (IF context = 0 THEN <<bytes>> ELSE <<>>)

\* Every request of an ADDRESS_REQUEST is answered, in order and by its id, from
\* what is assigned; and the answer is a capsule the peer reads as it is.
EveryRequestAnswered(requests, assigned) ==
    LET answer == AnswerAddressRequest(requests, assigned)
    IN  /\ Len(answer) = Len(requests)
        /\ FromCapsule(ToCapsule(ADDRESS_ASSIGN, answer)) = {answer}
        /\ \A i \in 1..Len(answer) :
            /\ answer[i].id = requests[i].id /\ answer[i].addr.v6 = requests[i].addr.v6
            /\ \/ \E k \in 1..Len(assigned) :
                    assigned[k].addr = answer[i].addr /\ assigned[k].len = answer[i].len
               \/ answer[i].addr.n = 0
                  /\ \A k \in 1..Len(assigned) : assigned[k].addr.v6 # answer[i].addr.v6

WireInv == Reassembled /\ TunnelTrue /\ RoutesDisjoint /\ PacketsInOrder


-----------------------------------------------------------------------------
(***************************************************************************)
(* URI templates and the targets they carry (skimasque-core/src/           *)
(* {template,target}.rs and the IpScope of connect_ip.rs).  The client     *)
(* expands a template into the path of its request; the proxy runs the     *)
(* same template backwards to learn which target was asked for.            *)
(*                                                                         *)
(* Text is a sequence of characters.  The characters are a few of each     *)
(* class the code tells apart: unreserved ones (among them hexadecimal     *)
(* digits), the delimiters of paths and queries, and the ones a host may   *)
(* contain only escaped.  A template is given as the pieces between its    *)
(* braces: literal text, and expressions with an operator and names.       *)
(***************************************************************************)
Unreserved == {"a", "-", "2", "3", "5", "6", "A", "B", "D", "F"}

\* The two hexadecimal digits of a character's byte.
Hex == [c \in {":", "%", "/", "&", "=", "?", "*", "3", "[", "]"} |->
            CASE c = ":" -> <<"3", "A">> [] c = "%" -> <<"2", "5">>
              [] c = "/" -> <<"2", "F">> [] c = "&" -> <<"2", "6">>
              [] c = "=" -> <<"3", "D">> [] c = "?" -> <<"3", "F">>
              [] c = "*" -> <<"2", "A">>
              [] c = "3" -> <<"3", "3">> [] c = "[" -> <<"5", "B">>
              [] c = "]" -> <<"5", "D">>]

Join(seqs) == FoldLeft(LAMBDA a, s : a \o s, <<>>, seqs)

\* pct_encode: the unreserved characters stay, every other is escaped.
PctEncode(text) ==
    Join([i \in 1..Len(text) |->
            IF text[i] \in Unreserved THEN <<text[i]>> ELSE <<"%">> \o Hex[text[i]]])

\* A hexadecimal digit in either case; "a" is the only small one considered.
Digit(c) == IF c = "a" THEN "A" ELSE c

\* pct_decode: nothing for a malformed escape, or for bytes that are no text.
RECURSIVE PctDecode(_)
PctDecode(text) ==
    IF text = <<>> THEN {<<>>}
    ELSE IF Head(text) # "%"
    THEN {<<Head(text)>> \o rest : rest \in PctDecode(Tail(text))}
    ELSE UNION {{<<c>> \o rest : rest \in PctDecode(Drop(text, 3))} :
                c \in {c \in DOMAIN Hex : /\ Len(text) >= 3
                                          /\ Hex[c] = <<Digit(text[2]), Digit(text[3])>>}}

-----------------------------------------------------------------------------
(* Templates.                                                              *)

Literal(text) == [kind |-> "literal", text |-> text, names |-> <<>>]

Expression(op, names) == [kind |-> op, text |-> <<>>, names |-> names]

IsQuery(part) == part.kind \in {"query", "continuation"}

\* parse_expression: one plain name, or one or more after "?" or "&"; no other
\* operator, no empty name.
ExpressionOk(part) ==
    /\ part.kind \in {"simple", "query", "continuation"}
    /\ Len(part.names) >= 1
    /\ part.kind = "simple" => Len(part.names) = 1

Variables(parts) == Join([i \in 1..Len(parts) |-> parts[i].names])

\* Mutant: a query expression may come anywhere.
ParseOk_QueryAnywhere(parts) ==
    /\ parts # <<>> /\ parts[1].kind = "literal" /\ parts[1].text[1] = "/"
    /\ \A i \in 1..Len(parts) : parts[i].kind # "literal" => ExpressionOk(parts[i])
    /\ IsInjective(Variables(parts))

\* UriTemplate::parse after the scheme and the authority, and parse_parts: the
\* path starts with a slash, a query expression ends the template (only the
\* first one is looked at), and no variable is repeated.
ParseOk(parts) ==
    /\ parts # <<>> /\ parts[1].kind = "literal" /\ parts[1].text[1] = "/"
    /\ \A i \in 1..Len(parts) : parts[i].kind # "literal" => ExpressionOk(parts[i])
    /\ \A i \in 1..Len(parts) : IsQuery(parts[i]) => i = Len(parts)
    /\ IsInjective(Variables(parts))

RequireVariables(parts, names) ==
    \A n \in names : \E i \in 1..Len(Variables(parts)) : Variables(parts)[i] = n

\* expand_query: the first separator is the operator, the others "&"; a name
\* is written as itself, here as the character it is.
ExpandQuery(values, part) ==
    Join([i \in 1..Len(part.names) |->
            <<IF i = 1 /\ part.kind = "query" THEN "?" ELSE "&", part.names[i], "=">>
            \o PctEncode(values[part.names[i]])])

\* expand_path: an error when a variable has no value or an empty one.
Expandable(parts, values) ==
    \A i \in 1..Len(Variables(parts)) :
        LET n == Variables(parts)[i]
        IN  n \in DOMAIN values /\ values[n] # <<>>

ExpandPath(parts, values) ==
    Join([i \in 1..Len(parts) |->
            CASE parts[i].kind = "literal" -> parts[i].text
              [] parts[i].kind = "simple" -> PctEncode(values[parts[i].names[1]])
              [] OTHER -> ExpandQuery(values, parts[i])])

-----------------------------------------------------------------------------
(* Matching.                                                               *)

Bind(values, name, value) ==
    [n \in DOMAIN values \cup {name} |-> IF n = name THEN value ELSE values[n]]

RECURSIVE Split(_, _)
Split(text, sep) ==
    IF \A i \in 1..Len(text) : text[i] # sep THEN <<text>>
    ELSE LET k == CHOOSE i \in 1..Len(text) :
                    text[i] = sep /\ \A m \in 1..(i - 1) : text[m] # sep
         IN  <<SubSeq(text, 1, k - 1)>> \o Split(Drop(text, k), sep)

\* The pairs of a query that have an "=", key and value undecoded.
QueryPairs(query) ==
    LET keyed == SelectSeq(Split(query, "&"), LAMBDA p : Len(Split(p, "=")) > 1)
    IN  [i \in 1..Len(keyed) |->
            LET k == Len(Split(keyed[i], "=")[1])
            IN  [key |-> SubSeq(keyed[i], 1, k), value |-> Drop(keyed[i], k + 1)]]

\* The last of the pairs with a key counts; parameters of other names are
\* let be, in any order, but a malformed escape anywhere refuses the path.
MatchQuery(part, input, values) ==
    IF input = <<>> \/ Head(input) # (IF part.kind = "query" THEN "?" ELSE "&") THEN {}
    ELSE
    LET pairs == QueryPairs(Tail(input))
        Keyed(n) == {i \in 1..Len(pairs) : PctDecode(pairs[i].key) = {<<n>>}}
        Found(n) == LET i == CHOOSE i \in Keyed(n) : \A k \in Keyed(n) : k <= i
                    IN  CHOOSE v \in PctDecode(pairs[i].value) : TRUE
        names == {part.names[i] : i \in 1..Len(part.names)}
    IN  IF /\ \A i \in 1..Len(pairs) :
                PctDecode(pairs[i].key) # {} /\ PctDecode(pairs[i].value) # {}
           /\ \A n \in names : Keyed(n) # {} /\ Found(n) # <<>>
        THEN {[n \in DOMAIN values \cup names |->
                IF n \in names THEN Found(n) ELSE values[n]]}
        ELSE {}

\* The longest run of characters a simple expansion can produce.
Span(input) ==
    CHOOSE n \in 0..Len(input) :
        /\ \A i \in 1..n : input[i] \in Unreserved \cup {"%"}
        /\ n < Len(input) => input[n + 1] \notin Unreserved \cup {"%"}

\* match_parts: a simple expression takes the longest run whose rest matches.
RECURSIVE MatchParts(_, _, _)
MatchParts(parts, input, values) ==
    IF parts = <<>> THEN IF input = <<>> THEN {values} ELSE {}
    ELSE LET part == Head(parts) IN
    CASE part.kind = "literal" ->
            IF IsPrefix(part.text, input)
            THEN MatchParts(Tail(parts), Drop(input, Len(part.text)), values)
            ELSE {}
      [] part.kind = "simple" ->
            LET With(n) ==
                    UNION {MatchParts(Tail(parts), Drop(input, n),
                                      Bind(values, part.names[1], v)) :
                            v \in PctDecode(SubSeq(input, 1, n))}
                good == {n \in 1..Span(input) : With(n) # {}}
            IN  UNION {With(n) : n \in {m \in good : \A k \in good : k <= m}}
      [] OTHER -> MatchQuery(part, input, values)

MatchPath(parts, path) == MatchParts(parts, path, <<>>)

-----------------------------------------------------------------------------
(* Targets.                                                                *)

\* The texts IpAddr::from_str accepts, among those considered, in the form
\* Display writes them: an IPv6 literal has colons, an IPv4 one has none.
IpV6 == {<<":", ":">>, <<":", ":", "3">>}

IpV4 == {<<"2">>}

\* TargetHost::parse: an address, bracketed or not, or a name without
\* delimiters; a "%" that survived decoding is a zone identifier.
Unbracketed(host) ==
    IF Len(host) >= 2 /\ host[1] = "[" /\ Last(host) = "]"
    THEN SubSeq(host, 2, Len(host) - 1) ELSE host

Delimiters == {"/", "?", "[", "]", ":"}

HostOk(host) ==
    /\ host # <<>>
    /\ \A i \in 1..Len(host) : host[i] # "%"
    /\ \/ Unbracketed(host) \in IpV4 \cup IpV6
       \/ \A i \in 1..Len(Unbracketed(host)) : Unbracketed(host)[i] \notin Delimiters

ParseHost(host) == {Unbracketed(h) : h \in {x \in {host} : HostOk(x)}}

\* A port is a number from 1: here a digit.
PortOk(port) == Len(port) = 1 /\ port[1] \in {"2", "3", "5"}

MakeTarget(host, port) ==
    {[host |-> h, port |-> port] : h \in {x \in ParseHost(host) : PortOk(port)}}

\* Mutant: host and port are split at the first colon.
ParseTarget_FirstColon(input) ==
    LET k == CHOOSE i \in 1..Len(input) : input[i] = ":" IN
    IF \A i \in 1..Len(input) : input[i] # ":" THEN {}
    ELSE MakeTarget(SubSeq(input, 1, k - 1), Drop(input, k))

\* Target::parse: the port follows the last bracket, or else the last colon.
ParseTarget(input) ==
    LET LastOf(c) == {i \in 1..Len(input) :
                        input[i] = c /\ \A k \in (i + 1)..Len(input) : input[k] # c}
    IN  IF LastOf("]") # {}
        THEN UNION {MakeTarget(SubSeq(input, 1, k), Drop(input, k + 1)) :
                    k \in {i \in LastOf("]") : i < Len(input) /\ input[i + 1] = ":"}}
        ELSE UNION {MakeTarget(SubSeq(input, 1, k - 1), Drop(input, k)) : k \in LastOf(":")}

\* Display: an IPv6 address in brackets.
ShowTarget(t) ==
    (IF t.host \in IpV6 THEN <<"[">> \o t.host \o <<"]">> ELSE t.host)
    \o <<":">> \o t.port

\* Target::expand_path and from_path; "h" and "p" stand for the two names.
TargetPath(parts, t) ==
    ExpandPath(parts, [n \in {"h", "p"} |-> IF n = "h" THEN t.host ELSE t.port])

TargetFromPath(parts, path) ==
    UNION {MakeTarget(v["h"], v["p"]) :
            v \in {x \in MatchPath(parts, path) : {"h", "p"} \subseteq DOMAIN x}}

\* IpScope::expand_path and from_path: a missing value travels as a wildcard,
\* where the template has the variable; a protocol is here a digit.
Wildcard == <<"*">>

ScopeValue(v) == IF v = {} THEN Wildcard ELSE CHOOSE x \in v : TRUE

ScopePath(parts, scope) ==
    ExpandPath(parts, [n \in {"h", "p"} |->
                        ScopeValue(IF n = "h" THEN scope.target ELSE scope.protocol)])

ScopeFromPath(parts, path) ==
    {[target |-> {v[n] : n \in {"h"} \cap DOMAIN v} \ {Wildcard},
      protocol |-> {v[n] : n \in {"p"} \cap DOMAIN v} \ {Wildcard}] :
        v \in {x \in MatchPath(parts, path) :
                "p" \in DOMAIN x => x["p"] = Wildcard \/ PortOk(x["p"])}}

-----------------------------------------------------------------------------
(* Properties, of a template and what it carries.                          *)

\* No simple expression can run into what follows it: the next character is
\* one an expansion never produces.
Unambiguous(parts) ==
    \A i \in 1..(Len(parts) - 1) :
        parts[i].kind = "simple" =>
            \/ parts[i + 1].kind = "literal"
               /\ parts[i + 1].text[1] \notin Unreserved \cup {"%"}
            \/ IsQuery(parts[i + 1])

\* The proxy reads from the path exactly the values the client put in it, for
\* every template whose expressions are delimited and every non-empty value,
\* delimiters and escapes among them.
ValuesRecovered(parts, values) ==
    ParseOk(parts) /\ Unambiguous(parts) /\ Expandable(parts, values) =>
        MatchPath(parts, ExpandPath(parts, values)) =
            {[n \in {Variables(parts)[i] : i \in 1..Len(Variables(parts))} |-> values[n]]}

\* Even where expressions run together, what the proxy reads expands to the
\* path it was sent: it never invents a target the path does not spell.
NothingInvented(parts, values) ==
    ParseOk(parts) /\ Expandable(parts, values) =>
        /\ MatchPath(parts, ExpandPath(parts, values)) # {}
        /\ \A v \in MatchPath(parts, ExpandPath(parts, values)) :
            ExpandPath(parts, v) = ExpandPath(parts, values)

\* A target survives both of its spellings: the path of a request and the
\* host:port form of a command line or a classic CONNECT.
TargetSurvives(parts, t) ==
    /\ ParseTarget(ShowTarget(t)) = {t}
    /\ ParseOk(parts) /\ Unambiguous(parts) /\ RequireVariables(parts, {"h", "p"}) =>
        TargetFromPath(parts, TargetPath(parts, t)) = {t}

\* So does the scope of an IP tunnel, as far as the template carries it.
ScopeSurvives(parts, scope) ==
    ParseOk(parts) /\ Unambiguous(parts) =>
        ScopeFromPath(parts, ScopePath(parts, scope)) =
            {[target |-> IF RequireVariables(parts, {"h"}) THEN scope.target ELSE {},
              protocol |-> IF RequireVariables(parts, {"p"}) THEN scope.protocol ELSE {}]}
=============================================================================
