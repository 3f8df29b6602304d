# A TLA+ model of SkiMasque

SkiMasque is a MASQUE proxy: clients open CONNECT-UDP, CONNECT-TCP and CONNECT-IP
tunnels over HTTP/3, and a gateway decides, per workload identity and policy, what
each tunnel may reach and for how long. This directory holds TLA+ models of its
concurrent and failure-prone parts, the TLC runs that check them on small
instances, and proofs, checked by TLAPS, that most of the safety properties hold for
every instance.

`PROJECT.json` is the index: components, runs, the source lines behind each
definition, mutants, findings, hazards and theorems.

    tlc -config MCGateway_session.cfg MCGateway     # a run
    tlapm GatewayProofs.tla                         # a proof

## 1. Inventory

| Component | State it keeps | What is hard | What makes it correct | Modules |
|---|---|---|---|---|
| Tunnel life cycle (`server.rs`, `service.rs`, `revocation.rs`) | connection and request tasks, revoked set, policy set, quota semaphores | every request is a task; shared state changes between its steps | a revoked or lapsed session has no tunnel for long, quotas hold, permits come back, a drain ends | `Gateway` |
| Request handling (`service.rs`, `policy.rs`) | one request, the policy handle | seven layers, a policy replaced in between, names that resolve to a mix | dialled only after every layer, only at permitted addresses; the record and the answer are true | `Request` |
| Gateway start (`skimasque-server.rs` main) | flags, state directory | each part may fail, the next run has other flags | no traffic before what the flags ask for is in force | `Startup` |
| Connection admission, rate limiter, address pool | buckets, bounded table, leases | lazy refill, eviction, sleeps outside the lock, wrap | rates hold, forgetting a source never harms it, an address has one session | `Admission`, `RateLimiter`, `IpPool` |
| CONNECT-TCP relays (`server.rs` 1305, `client.rs` 624) | halves, idle timer, bytes moved | backpressure both ways, ends that are not simultaneous | a full-duplex pipe with a ceiling | `Pipes`, `Duplex`, `TcpRelay`, `TcpTunnel` |
| CONNECT-UDP relays, datagram router | queues, capsule reader task, waiting area | a second task per tunnel, datagrams before their stream | close is seen, the reader ends, bounded and in order | `UdpRelay`, `UdpTunnel`, `DatagramRouter` |
| Native TUN (`native/`, `vendor/netstack-smoltcp`) | control blocks, wakers, packet queues, flow table | two sides wake each other; full queues; half closes | no unit, packet or wake-up lost, one flow per tuple | `NetStream`, `NetStack` |
| Policy, revocation and tenant sync (`control.rs`, `platform.rs`) | cache, list in force, generation | crashes between file operations, two structures swapped one by one | never claims more than it enforces, revives nothing, one tenant's key never opens another's policy | `PolicySync`, `RevocationSync`, `Tenants` |
| Audit shipping and heartbeat (`audit_ship.rs`, `platform.rs`) | channel, pending queue, chain head | lost acknowledgements, outages, torn head | nothing forgotten, first seen in order, online only in contact | `AuditShip`, `Platform` |
| Reload watcher (`skimasque-server.rs` 1083) | fingerprints, what is in force | edits between two reads | pairs belong together, no edit is lost | `Reload` |
| Policy evaluation and documents (`skimasque-policy`) | none | ties, order, mask arithmetic, units, round trips | agrees with its declarative meaning | `PolicyEval`, `PolicyDoc` |
| Wire formats (`skimasque-core`, `connect_ip.rs`) | decoder buffer, tunnel state | any cut of the stream | what is encoded is decoded to the same | `Wire` |
| Identity and token exchange (`skimasque-identity`, `exchange.rs`) | JWK Set cache | overlapping fetches, rotation | withdrawn keys expire, published keys are found | `Exchange` |
| Client credential (`session.rs`) | credential, keys at the gateway | expiry against retry and rotation | a live credential while exchanges succeed | `Credentials` |
| Local proxies (`socks5.rs`, `http_connect.rs`, `http_proxy.rs`, `forward.rs`) | one connection, association table | early data, keep-alive, full queues | what is sent reaches the named target; one answer each | `LocalProxy` |
| Proxy mode (`proxy.rs`, `skimasque-client.rs`) | ready file, listeners, device | several processes, kills, reused pids | a record names a live process that holds what it says | `ProxyMode` |
| exec (`exec.rs`, `sandbox.rs`) | agent lease, child | signals at any time | the lease ends, the agent is confined | `Exec` |
| Account commands (`account.rs`, `skimasque.rs`) | credential file | two processes, truncate then write | one sign-in per file, commands do as asked | `Account` |
| Release agent (`deploy/agent`) | release directories, link, secrets | a kill between any two writes | the link holds, secrets first | `Deploy` |

How they interact: a connection task calls the layer stack for each request; the
stack reads the policy set and the revoked set, which the sync tasks replace
through watch channels; an accepted tunnel carries its quota permit, its
rate limiters and its `TunnelEnd`, and the relay is raced against the latter; the
policy layer's audit sink feeds the shipper through a bounded channel. The
datagram router serves all tunnels of a connection. On the client the front ends and
the native TUN open tunnels on one session whose credential a refresh task replaces.

## 2. What could come next

A composition of `Tenants`, `PolicyEval` and `Gateway` (they meet in
`Enforce::call`; `Gateway` and `Request` have the decision as a nondeterministic
outcome); an unbounded, lossless log as the abstract specification of `AuditShip` and
`Platform`; and proofs of `AuditInv`, `NativeInv` and `ClientInv`, none of which needs
more than an inductive invariant.

## 3. Modules

Each module's head comment says what its variables stand for. Mutants, operators
named `Action_WhatIsWrong` just before the action, are plausible bugs that a
property is expected to catch; no specification uses them.

**Gateway.** One record per request task: its stage (headers, setup limit,
verification, revocation check, tracking, policy, quota, connect, response,
relay), its session, its `TunnelEnd` and its permit. A step is the code between
two accesses to shared state. The layer order is that of `build_service`. Identity
and policy outcomes are nondeterministic, the policy set is a verdict per policy
that a reload may change at any time. A draining connection goes on asking h3 for
requests (`Accepting`); that h3 yields none after the GOAWAY is an assumption about
the library, kept apart as `H3Yields`.

**Request.** One request in detail: `parse_request`, each layer of the configured
stack, resolution, the address floor and a dial attempt per candidate, the answer and
the audit record. The floor itself (`Permits`) is on addresses of `V4Bits` bits.

**Startup.** `main` of the gateway as a program counter over the parts it brings up,
with the flags and the state directory of earlier runs as input.

**Pipes, Duplex, TcpRelay, TcpTunnel.** `Pipes` is the environment of a TCP
tunnel: two directions, each with a bounded window, a source that ends or fails
and a reader; with `Echo` a peer does not read while it has something to write.
`Duplex` is the promise: units come out in order and once, an end comes out after
them, each direction on its own, or the tunnel is cut. `TcpRelay` is the gateway's
single loop (a biased select whose branches do the writing), `TcpTunnel` the
client's two joined pumps. Both have `Promise == INSTANCE Duplex` and
`KeepsPromise == Promise!Spec` as a property. `Relays` puts the four relays, TCP and
UDP at both ends, side by side; they share nothing.

**DatagramRouter, UdpRelay, UdpTunnel.** Registered streams with their queues and the
waiting area, datagrams numbered in order of arrival. The relay polls its branches in
the order of the biased select, one step per poll, so that a datagram may arrive
between two polls; the capsule reader is a process of its own.

**NetStream, NetStack.** One TCP flow between the stack's loop and its relay: the
buffers of the control block, the stored wakers and the half closes. The stack around
it: the sink, the bounded queues, sockets and permits per tuple; and the UDP flows
with a task each and a generation per table entry. smoltcp is external.

**PolicySync, RevocationSync.** The gateway process as a program counter over
bootstrap and long poll; the cache directory as a set of files per revision, so that
each file operation of `cache_policy` is a step and a crash may come between any two
(and inside the recursive removal). The same for the list of ended sessions.

**AuditShip, Platform.** The sink's channel, the pending queue, batches with their
place in the chain, lost requests and lost acknowledgements, conflict and rebase, the
persisted head and a torn write of it. `Platform` is the same for a gateway of many
organisations, whose events share one chain, and its heartbeat.

**Reload, Deploy.** File by file: the watcher's fingerprint and load against an editor;
the release agent's writes against a kill between any two.

**Tenants.** The control plane's lists, numbered by version; the key map and the
tenant table as the version each was built from; a tunnel request that reads the
table, the key map and the table again; a token exchange that holds one snapshot.

**PolicyEval, PolicyDoc.** `PolicySet::evaluate`, one step per iteration of
its three loops, and the definitions without loops it must agree with (`Governs`,
`Grants`, `Forbidden`). An identity maps each field to the spellings it answers to.
`PolicyDoc` has the functions on documents: parse, render, learn, lint, test and diff.

**Exchange, Credentials.** Overlapping exchanges over one JWK Set cache; the refresh
loop of a client with the gateway and the control plane that mint for it.

**Wire.** Variable-length integers, capsules, datagrams, IP capsules, URI templates and
targets as functions, and the two ends of an IP tunnel over a stream that is cut
anywhere. A byte has `ByteBits` bits. It is the only module with `RECURSIVE` operators.

**Admission, RateLimiter, IpPool.** The accept loop's checks in their order, with
buckets in units of 1/`Scale` token and the lazy refill of the code; `consume` by
several relays, with naps outside the lock that the end of a tunnel cancels; the
pool's cursor and leased set in integers of `Width` bits, every prefix as an initial
state, and the sessions that hold the leases.

**LocalProxy, ProxyMode, Exec, Account.** The client's programs: one loopback
connection and one SOCKS5 UDP association; instances of the proxy mode; one `exec`;
account and organisation commands as processes that share a file.

**MCRelays, MCControl, MCLimits, MCParts, MCClient** hold several components that do
not interact: a rigid variable, chosen in the initial state, says which of them moves
and the others stay where they start, so the state space is the sum of theirs and
each is explored in full. Their invariants are named for the component and are
conjunctions of its named parts. `MCGateway` gives connection layouts and symmetry
sets; `Tenants` is checked as it is.

## 4. Runs

| Run | Shows | Bounds |
|---|---|---|
| `gateway_session` | no revocation missed, deadlines armed, ended sessions close their tunnels, setup is not starved; on a drain every connection is told, and ends once its requests have | one connection with two request slots, one session, one setup permit |
| `gateway_quota` | quotas hold across reloads, permits return, tunnel cap | two connections, three slots, limits 1 and 2 |
| `relays` | TCP: no byte lost or duplicated, ceiling, both relays implement `Duplex`, reclaimed when idle; native TUN: no unit, wake-up or packet lost, one flow per tuple; router bounded and ordered; UDP: ceiling, readers end, closes are seen, only late replies lost | windows of 2 and chunks up to 2, 3 units each way; client: window 1, 5 units; 2 streams, 4 arrivals; 4 datagrams, 2 replies; stack: queues of 1, 2 sockets; 3 flow keys for 2 flows |
| `control` | ended sessions are not revived; no newer version claimed than enforced, no rollback; online only in contact; audit: nothing forgotten, in order; no edit lost, no torn pair; releases whole; all of them catch up | 3 sessions; 2 documents, 3 revisions, one of which does not parse; 5 events, batch 2, pending 3; 2 organisations; 2 files, 3 writes; 3 releases of which one is unsound; 1 to 3 faults each |
| `limits` | aggregate rate, someone is served; admitted rate, source table exact and fail-open; addresses leased once and never refused while free | 2 relays, capacity 4, requests of 1, 3 and 5; 3 sources for 2 slots; integers of 4 bits, all prefixes, 3 clients |
| `tenants` | admission by the organisation's own keys and policy, exchanges judged in one snapshot, convergence | 2 organisations, 3 kinds of list, 3 versions, 2 faults |
| `parts` | the policy loops agree with the loop-free definition; documents; exchanges; one request through the stack; the start; wire formats | sets of up to 3 policies over 2 fields; 2-bit octets; 2 overlapping exchanges, 2 keys; 3 addresses, 2 answers; 4-bit bytes, chunks of 3 |
| `client` | credentials last and heal; front ends carry and answer; UDP association; ready file; exec; account commands | lifetimes of 12 and 6 ticks, 1 rotation, 2 faults; 2 targets; 2 senders, 3 datagrams; 2 processes, 2 pids; 1 signal; 13 commands |

The bounds are the smallest at which each queue, table, window and budget
overflows, is exactly full and is drained again, and at which two actors of each
kind meet. Faults (crashes, outages, lost messages) are counted so that runs are
finite; two are enough for a fault during the recovery from another.

Four runs end in a violation and stand for a disagreement between a comment or a
document and the code it is about (`findings` in `PROJECT.json`):

* `tcp_relay_echo`: the idle timer does not run while the relay waits in a write;
* `policy_sync_whole`: a crash while the cache directory is being removed leaves part
  of the old set, and the next start without a control plane enforces it;
* `audit_ship_oldest`: in an outage the newest events are dropped, not the oldest;
* `deploy_trusted`: a rollback marks the earlier release as verified although no
  health check of it ever succeeded.

Smaller disagreements and limits that the models show and no run is spent on. In the
data plane:

* `dgram.rs` 28 says later traffic evicts unclaimed early datagrams; at the cap
  (113) new streams are turned away and the old entries stay (`LatestWait` is about
  one stream's own queue);
* `server.rs` 825 says dropping the relay future drops the QUIC stream; the capsule
  reader spawned at 1184 is detached and keeps its half until the client sends another
  DATAGRAM capsule or ends the stream. `ReaderEndsWithRelay` allows it after a drop
  only, with nothing queued, and `ReaderIsReclaimed` says when it is gone;
* `connect_ip.rs` 239 warns "closing the tunnel" at a malformed capsule, but `recv`
  only returns `None`: a caller that asks again gets what follows. `TunnelTrue` says
  that the `None` comes first;
* `client.rs` 518 drains replies once the close is seen; one that is queued between
  the two polls of the same `recv` is still lost (`OnlyLateOnesLost` states how late);
* `connect_ip.rs` 467 says `lease` returns `None` when the pool is exhausted. A pool
  whose last address is the last integer cannot wrap its cursor and refuses with
  addresses free; the all-ones /128 leases the proxy's own address; and the sum in
  `usable_bounds` (543) overflows for those prefixes, which panics in a build with
  overflow checks. The model wraps, as a release build does, and the properties name
  the exceptions;
* native TUN: a socket that is closed with unread bytes is removed and the bytes go
  with it; a relay that fails after a half close ends with a clean FIN; datagrams for
  a flow that has ended and is not joined yet vanish.

Around it:

* a crash between `remove_dir_all` and the rename (`control.rs` 815-816) leaves no
  policy at all, and a gateway that cannot reach the control plane does not start;
* an edit between the startup load and the watcher's first fingerprint is not seen
  until the next edit (`gap` in `Reload`);
* the release agent: a kill between the link and the restart has the new version
  judged by the old service's health, and an interrupted removal followed by a
  rollback can link a torn directory (`LinkHolds` and `ProbedIsCurrent` say "unless a
  pass was killed");
* `refresh_credential`: its comment speaks of a retry after 30 s, the nap is 20 s; a
  lifetime of 0 makes the loop spin;
* `exec`: a signal or timeout while `AgentLease::start` is in flight may leave a
  session that lives until it expires (`LeaseIsEnded` bounds it: nothing was run and
  the exit says so); one during the sandbox check does not stop the start; when the
  wait fails, the child is told to die (604) and not waited for;
* `socks5.rs` 448: a full queue is taken for a tunnel that is gone, and replaces a
  live one; datagrams for one target then have no order between the two tunnels
  (`TableTrue` is about the order within each);
* the credential file is truncated and then written: a write that fails takes the
  earlier sign-in with it (`FileIsOneSignIn` names the cases). A signal before
  `select!` in the proxy mode leaves a ready file that blocks later starts;
* policy tools: a match on a bare `repository` name passes `--strict` and covers the
  repositories of that name of every owner (`StrictIsNarrow`); `policy diff` is silent
  when only `[match]` or the order changed, and `to_toml` drops the
  descriptions of tests although it is said to round-trip.

Deadlock checking is off where the system really may stop: a relay that is over, a
client tunnel that was dropped, an evaluation that is done, a command that has ended,
a bounded environment with nothing left to send.

## 5. Fairness

* Tasks of the runtime: weak fairness of each task's step. The runtime polls a task
  that was woken; a step that is enabled stays enabled until taken.
* The setup limit: strong fairness of `Ready`, because the semaphore behind
  `GlobalConcurrencyLimitLayer` serves its waiters first come, first served. The
  native TUN: strong fairness of `TakeDatagram`, an arm of a `select!` that the loop
  comes back to however often the other arms win.
* Timers and clocks: weak fairness of `Tick`, `TimePasses` and `Elapse`.
* Peers of a TCP tunnel are assumed to read what is delivered (with `Echo`, when
  they have nothing to write). Nothing is assumed about sending or ending.
* A supervisor restarts a gateway or a shipper that died (systemd's `Restart=`), and a
  timer starts the release agent again: weak fairness of `StartFetched`, `Restart`,
  `Start` and `Pass`.
* In `Credentials` an outage ends (`Recover`): the property is about what follows it.
* No fairness for publishing, revoking, crashing, editing or being signalled, nor for
  becoming reachable in the sync modules. Their liveness properties are about faults
  that have stopped: they are bounded, and convergence is conditional on being
  reachable.

The composed specifications conjoin the fairness of their components in shared
clauses. That is the same as a clause for each, because only one component of a
behaviour ever moves.

## 6. Proofs

Eight modules prove, for every value of the constants that the named assumptions
allow, the properties that the runs check on small instances. The assumptions are
types (`\in Nat`, `\subseteq`), finiteness where something is counted, and for
`Credentials` that two exchanges fit into the lead time.

* **GatewayProofs**: type correctness; `RevocationPending` and `ExpiryArmed` from
  `SessionInv`; `PermitsReleased` and `QuotaHolds` from `QuotaInv`; `TunnelCap`.
  `RevocationPending` is about relaying tunnels only and is not inductive: whether a
  tunnel starts out with a watch depends on earlier layers. `SessionInv` says where
  the `TunnelEnd` is at every stage and that a watching tunnel of a revoked session
  has an unseen change. `QuotaInv` says that a decision with a limit, past the quota
  layer, owns a permit of that policy's semaphore, and bounds the owners by the
  semaphore's size. `TunnelCap` counts the requests of a connection, and only `Accept`
  can add one.
  `RouterInv` from the phase of each stream: what waits belongs to streams that are
  not open, what is queued to open ones, and a table entry is only ever added below
  the cap.
* **RelayProofs**: `TcpInv`, `UdpInv`, the refinement of `Duplex` by both TCP relays
  (`BothKeepPromise`), and `OnlyLateOnesLost`. Each component of `Relays` has its own
  inductive invariant and step lemma; the composition only says that a step moves one
  of them. What was read is what was written plus what is in hand, and an end is
  passed on behind it; with that every step is a step of `Duplex` or a stutter. For
  UDP: where the relay and its reader stand, and which of them ended first.
* **LimitsProofs**: `AggregateRate` from `BudgetInv`: what was granted since the mark
  plus what the bucket holds now is at most capacity plus rate times the time since.
  `AdmissionInv`: the same budget for the accept loop, and per source that what it was
  admitted beyond the table without a bound pays for what its bucket has less
  (`ExtraPays`). `PoolInv`: leases and sessions match one to one, and the walk of the
  cursor visits every leasable address, which is an induction over its length stated
  as well-foundedness of the last place reached.
* **TaskProofs**: `NotRevived` from `RevocationInv`, which follows a list through the
  answer, the staging file, the cache and the list in force. `ReloadInv` from
  `ReloadStamps` (a stamp stands for one revision) and `ReloadMatches` (a file whose
  stamp is that of the current fingerprint is in force, one whose stamp is that of the
  fingerprint being tried was read as it is).
* **ControlProofs**: `PolicyInv` from `PolicyVersions`: the cache directory holds files
  of one revision, no older than any that was enforced or that the metadata names, at
  every step of `cache_policy`. `OnlineMeansInContact` (an action property) from the
  order of times: nothing on disk or in memory claims contact later than the last
  answered poll.
* **DeployProofs**: `DeployInv`; where a pass stands tells what it has done, and only a
  pass on its way, or one that was killed, leaves a directory torn or a service that
  is not the linked one.
* **ClientProofs**: `ExchangeInv`: a cached key was withdrawn no longer ago than the
  answer was stored and one fetch before that, and an exchange knows when the issuer
  was without its key. `CredentialInv`: what is left of a lifetime covers what is left
  of the nap and one more exchange; a gateway that is not behind has the served keys.
  `StreamInv`, strengthened by what the state of the socket says of the two halves of
  the control block (`SockInv`) and by which of their states are final (`EndInv`).
* **PolicyProofs**: `AllowedExactly` and `Explained` for sets, rule lists and requests
  of any size, from one invariant per loop; `GovernsUnique` says that specificity with
  the index as tie break is a strict order, so what the selection ends with is the
  only policy that governs. `TenantInv` from the order of the versions (recorded,
  table, keys, list in hand, published) at each state of the sync task and from what a
  request has read at each stage.

Each step proof has one case per action. Records and functions are updated one
place at a time in what is proved about. A leaf that needs both arithmetic and
Boolean fields is split, since each prover does one of the two.

Only model-checked:

* everything under fairness, which is outside the prover's reach;
* `DocumentsInv`, `ServiceInv` and `WireInv`: `MCParts` reaches the `RECURSIVE`
  operators of `Wire`, with which the SMT backend cannot be used, and what a recursive
  definition computes for every input needs induction over data;
* what `Dedup` computes and `CidrIsPrefix` (induction and bit arithmetic);
* `AuditInv`, `NativeInv` and `ClientInv`, which are within reach and not done.

## 7. Abstractions

Bytes are counted, payloads are numbered, names and versions are small sets. Time is
a discrete clock or a flag "the deadline has passed". Hashes of the audit chain are
replaced by the sequence they stand for. Texts are what their parsers make of them,
except in `Wire`, where the conversion is the subject. The QUIC, HTTP/3, tokio,
smoltcp and file system behaviour is what the code relies on: ordered reliable streams
with windows, datagrams that may be dropped, channels with a capacity, watch channels
that keep the last value and remember whether a receiver saw it, atomic rename and
hard link, non-atomic recursive removal, and a plain write that a crash may tear.

## 8. Not modelled

TLS, ACME and OIDC signatures are libraries; what of them decides a start or a reload
is in `Startup` and `Reload`. Metrics are counters. `probe.rs` measures and prints.
`skimasque-visual` and `site/` draw the web site. Of the components that are modelled
in part: `evaluate_named` (the command `policy check`); the packet link below a
CONNECT-IP tunnel; opening a QUIC connection and its reuse; the two file formats of
policy documents below their fields; a credential that no header can carry, on which
the refresh loop would stop (`session.rs` 456; a JWT is never one); tables and wording
of every command.
