------------------------------ MODULE Platform ------------------------------
(***************************************************************************)
(* What a platform gateway tells the control plane: the audit trail of its *)
(* organisations, and its heartbeat (below).                               *)
(*                                                                         *)
(* A platform gateway ships the audit trail of all its organisations in    *)
(* one hash chain, each event tagged with the organisation it names        *)
(* (run_platform_audit_shipping).  An event that names none is not for the *)
(* control plane: it takes no number of the chain and no place in it.      *)
(*                                                                         *)
(* Events are numbered as they are recorded.  A hash stands for all that   *)
(* was hashed into it; the number that goes with it is kept apart, since   *)
(* the gateway counts for itself.                                          *)
(***************************************************************************)
EXTENDS Integers, Sequences, Functions

CONSTANTS Orgs, NoOrg,
          Buffer,      \* AUDIT_BUFFER
          BatchMax,    \* BATCH_MAX
          MaxPending,  \* MAX_PENDING
          MaxEvents,   \* bound: audited decisions
          MaxFaults    \* bound: lost answers, refused connections, crashes

VARIABLES trail,     \* the organisation each recorded event names
          dropped,   \* events the full channel turned away
          lost,      \* events a crash took from memory
          queue, pending,
          tail,      \* the shipper's next_seq, less one, and prev_hash
          disk,      \* audit-chain.json
          chain,     \* the control plane's copy: event and organisation filed under
          stage,     \* resume, fill, ship, rebase, sleep or down
          faults

avars == <<trail, dropped, lost, queue, pending, tail, disk, chain, stage, faults>>
memory == <<queue, pending>>

Genesis == [seq |-> 0, hash |-> <<>>]
Torn == [seq |-> 0, hash |-> <<[event |-> 0, org |-> NoOrg]>>]

\* platform_audit_head.
AuditHead == [seq |-> Len(chain), hash |-> chain]

PInit ==
    /\ trail = <<>> /\ dropped = {} /\ lost = {} /\ queue = <<>> /\ pending = <<>>
    /\ tail = Genesis /\ disk = Genesis /\ chain = <<>>
    /\ stage = "resume" /\ faults = 0

Fault == faults < MaxFaults /\ faults' = faults + 1

\* ControlPlaneAuditSink::record: the local sink, then try_send.
Record(o) ==
    /\ stage # "down" /\ Len(trail) < MaxEvents
    /\ trail' = Append(trail, o)
    /\ IF Len(queue) < Buffer
       THEN queue' = Append(queue, Len(trail')) /\ UNCHANGED dropped
       ELSE dropped' = dropped \cup {Len(trail')} /\ UNCHANGED queue
    /\ UNCHANGED <<lost, pending, tail, disk, chain, stage, faults>>

\* The control plane's head, else the local record, else the start of the chain.
Resume ==
    /\ stage = "resume"
    /\ \/ tail' = AuditHead /\ UNCHANGED faults
       \/ tail' = (IF disk = Torn THEN Genesis ELSE disk) /\ Fault
    /\ stage' = "fill"
    /\ UNCHANGED <<trail, dropped, lost, memory, disk, chain>>

Names(e) == trail[e] # NoOrg

\* admit_platform_event, on the first n events of the channel.
Admitted(n) == SelectSeq(SubSeq(queue, 1, n), Names)

\* The channel is read until it is empty or pending has reached the limit.
Refill(limit) ==
    LET room == limit - Len(pending)
        Reads(n) == n = 0 \/ Len(Admitted(n - 1)) < room
        n == CHOOSE n \in 0..Len(queue) : Reads(n) /\ (n < Len(queue) => ~Reads(n + 1))
    IN /\ pending' = pending \o Admitted(n)
       /\ queue' = SubSeq(queue, n + 1, Len(queue))

Fill ==
    /\ stage = "fill" /\ pending \o queue # <<>>
    /\ Refill(BatchMax)
    /\ stage' = IF pending' = <<>> THEN "fill" ELSE "ship"
    /\ UNCHANGED <<trail, dropped, lost, tail, disk, chain, faults>>

Taken == IF Len(pending) < BatchMax THEN Len(pending) ELSE BatchMax

\* chain_platform_batch: each event is filed under the organisation it names.
Chained ==
    LET named == SelectSeq(SubSeq(pending, 1, Taken), Names)
    IN [i \in DOMAIN named |-> [event |-> named[i], org |-> trail[named[i]]]]

\* platform_batch: the tail moves by the events chained, not by those taken.
BatchTail == [seq |-> tail.seq + Len(Chained), hash |-> tail.hash \o Chained]

\* The control plane recomputes the chain and rejects a break or a gap.
Accepts == tail = AuditHead

\* persist is a plain write: it may fail, or stop half-way.
Shipped ==
    /\ stage = "ship" /\ Accepts
    /\ chain' = chain \o Chained /\ tail' = BatchTail
    /\ \/ disk' = tail' /\ UNCHANGED faults
       \/ disk' \in {disk, Torn} /\ Fault
    /\ pending' = SubSeq(pending, Taken + 1, Len(pending))
    /\ stage' = "fill"
    /\ UNCHANGED <<trail, dropped, lost, queue>>

\* ship_platform_audit fails: unsent, or acted upon and its answer lost.
ShipFails ==
    /\ stage = "ship" /\ Fault
    /\ chain' \in {chain} \cup (IF Accepts THEN {chain \o Chained} ELSE {})
    /\ stage' = "sleep"
    /\ UNCHANGED <<trail, dropped, lost, memory, tail, disk>>

Conflict ==
    /\ stage = "ship" /\ ~Accepts
    /\ stage' = "rebase"
    /\ UNCHANGED <<trail, dropped, lost, memory, tail, disk, chain, faults>>

Rebase ==
    /\ stage = "rebase"
    /\ \/ tail' = AuditHead /\ stage' = "fill" /\ UNCHANGED faults
       \/ Fault /\ stage' = "sleep" /\ UNCHANGED tail
    /\ UNCHANGED <<trail, dropped, lost, memory, disk, chain>>

\* The branch that drops the oldest is never taken: Refill stops at the cap.
Backoff ==
    /\ stage = "sleep"
    /\ Refill(MaxPending)
    /\ stage' = "fill"
    /\ UNCHANGED <<trail, dropped, lost, tail, disk, chain, faults>>

Crash ==
    /\ stage # "down" /\ Fault
    /\ lost' = lost \cup Range(queue) \cup Range(pending)
    /\ queue' = <<>> /\ pending' = <<>> /\ stage' = "down"
    /\ UNCHANGED <<trail, dropped, tail, disk, chain>>

Restart ==
    /\ stage = "down"
    /\ stage' = "resume"
    /\ UNCHANGED <<trail, dropped, lost, memory, tail, disk, chain, faults>>

Shipper == Resume \/ Fill \/ Shipped \/ ShipFails \/ Conflict \/ Rebase \/ Backoff

PNext == (\E o \in Orgs \cup {NoOrg} : Record(o)) \/ Shipper \/ Crash \/ Restart

PSpec == PInit /\ [][PNext]_avars /\ WF_avars(Shipper) /\ WF_avars(Restart)

-----------------------------------------------------------------------------
Recorded == DOMAIN trail
Filed == {chain[i].event : i \in DOMAIN chain}
FiledUnder(o) == SelectSeq(chain, LAMBDA c : c.org = o)

\* An event that names an organisation is forgotten only when the control
\* plane has it, unless the channel turned it away or it died with the process.
NothingForgotten ==
    {e \in Recorded : Names(e)} \subseteq
        dropped \cup lost \cup Range(queue) \cup Range(pending) \cup Filed

\* "never filed under an org it does not name": nothing reaches a trail but
\* the organisation's own events.
FiledWhereNamed == \A i \in DOMAIN chain : trail[chain[i].event] = chain[i].org /\ Names(chain[i].event)

\* An organisation first sees its events in the order of the decisions.
FirstSeenInOrder ==
    \A o \in Orgs : LET t == FiledUnder(o) IN
        \A i, j \in DOMAIN t : i < j /\ t[j].event < t[i].event =>
            \E k \in 1..(i - 1) : t[k].event = t[j].event

\* "a skipped event cannot open a gap": the gateway's count and its hash agree.
CountMatchesHash == tail.seq = Len(tail.hash)

TypeOK ==
    /\ Len(queue) <= Buffer /\ Len(pending) <= MaxPending
    /\ stage \in {"resume", "fill", "ship", "rebase", "sleep", "down"}
    /\ disk = Torn \/ disk.seq = Len(disk.hash)

PlatformAuditInv ==
    TypeOK /\ NothingForgotten /\ FiledWhereNamed /\ FirstSeenInOrder /\ CountMatchesHash

\* Every event that names an organisation reaches its trail in the end.
AllShipped == {e \in Recorded : Names(e)} \subseteq dropped \cup lost \cup Filed

-----------------------------------------------------------------------------
(***************************************************************************)
(* The heartbeat of a platform gateway (run_platform_heartbeat): its       *)
(* health, from the state it shares with the tenant sync, the version of   *)
(* the tenant list it enforces, and the usage of every organisation since  *)
(* the process started.  Polls and heartbeats may fail, heartbeats may be  *)
(* acted upon and their answer lost, the process may crash, and a start    *)
(* out of reach of the control plane goes by the cached list and its age.  *)
(***************************************************************************)
CONSTANTS Metered,      \* the organisations whose usage is metered
          Lease,        \* --control-plane-policy-lease
          MaxTime,      \* bound: clock ticks
          MaxVersion,   \* bound: tenant lists published
          MaxRelayed,   \* bound: what is metered for an organisation
          MaxCrashes     \* bound: crashes

VARIABLES list,      \* the control plane's list: version and organisations
          reach,     \* the control plane can be reached
          cache,     \* tenants.json: a list, and when it was written
          up,        \* the process runs
          table,     \* the list in force
          sync,      \* SyncState: healthy, since
          tunnels,   \* organisations with a tunnel open
          meters,    \* TenantUsage: the organisations that have a meter
          usage,     \* what each meter has counted
          beat,      \* the last heartbeat the control plane acted upon
          now, crashes,
          contact    \* history: when a poll was last answered

bvars == <<list, reach, cache, up, table, sync, tunnels, meters, usage, beat, now, crashes, contact>>
metering == <<tunnels, meters, usage>>

None == [version |-> 0, orgs |-> {}]
Unused == [o \in Metered |-> 0]

HInit ==
    /\ list \in [version : {1}, orgs : SUBSET Metered] /\ reach = TRUE
    /\ cache = [list |-> None, at |-> 0]
    /\ up = FALSE /\ table = None /\ sync = [healthy |-> TRUE, since |-> 0]
    /\ tunnels = {} /\ meters = {} /\ usage = Unused
    /\ beat = [online |-> FALSE, version |-> 0, usage |-> Unused]
    /\ now = 0 /\ crashes = 0 /\ contact = 0

(***************************************************************************)
(* The control plane, the network, the clock and the end of the process.   *)
(***************************************************************************)
Publish ==
    /\ list.version < MaxVersion
    /\ \E s \in SUBSET Metered : list' = [version |-> list.version + 1, orgs |-> s]
    /\ UNCHANGED <<reach, cache, up, table, sync, metering, beat, now, crashes, contact>>

Reach ==
    /\ reach' = ~reach
    /\ UNCHANGED <<list, cache, up, table, sync, metering, beat, now, crashes, contact>>

Tick ==
    /\ now < MaxTime /\ now' = now + 1
    /\ UNCHANGED <<list, reach, cache, up, table, sync, metering, beat, crashes, contact>>

Dies ==
    /\ up /\ crashes < MaxCrashes /\ crashes' = crashes + 1
    /\ up' = FALSE /\ table' = None
    /\ tunnels' = {} /\ meters' = {} /\ usage' = Unused
    /\ UNCHANGED <<list, reach, cache, sync, beat, now, contact>>

(***************************************************************************)
(* bootstrap_platform: the list from the control plane, else the cached    *)
(* one, else no start.  A cache that was read starts the age clock at its  *)
(* age and leaves the control plane marked unreachable.                    *)
(***************************************************************************)
\* write_cache: a rename, so the old list or the new one.
WriteCache(l) == cache' \in {cache, [list |-> l, at |-> now]}

Fetched ==
    /\ ~up /\ reach
    /\ up' = TRUE /\ table' = list /\ WriteCache(list)
    /\ sync' = [healthy |-> TRUE, since |-> now] /\ contact' = now
    /\ UNCHANGED <<list, reach, metering, beat, now, crashes>>

\* Mutant: a start from the cache counts as contact.
SyncState_Healthy(since) == sync' = [healthy |-> TRUE, since |-> now]

\* platform_sync_state, when the control plane did not answer.
SyncState(since) == sync' = [healthy |-> FALSE, since |-> since]

Cached ==
    /\ ~up /\ ~reach /\ cache.list # None
    /\ up' = TRUE /\ table' = cache.list
    /\ SyncState(cache.at)
    /\ UNCHANGED <<list, reach, cache, metering, beat, now, crashes, contact>>

(***************************************************************************)
(* run_tenant_sync.                                                        *)
(***************************************************************************)
PollAnswered ==
    /\ up /\ reach
    /\ sync' = [healthy |-> TRUE, since |-> now] /\ contact' = now
    /\ IF list.version = table.version
       THEN UNCHANGED <<table, cache>>
       ELSE table' = list /\ WriteCache(list)
    /\ UNCHANGED <<list, reach, up, metering, beat, now, crashes>>

PollFails ==
    /\ up /\ ~reach
    /\ sync' = [sync EXCEPT !.healthy = FALSE]
    /\ UNCHANGED <<list, reach, cache, up, table, metering, beat, now, crashes, contact>>

(***************************************************************************)
(* TenantUsage.  A tunnel keeps the meter it was opened with.              *)
(***************************************************************************)
Open(o) ==
    /\ up /\ o \in table.orgs /\ usage[o] < MaxRelayed
    /\ meters' = meters \cup {o} /\ tunnels' = tunnels \cup {o}
    /\ usage' = [usage EXCEPT ![o] = @ + 1]
    /\ UNCHANGED <<list, reach, cache, up, table, sync, beat, now, crashes, contact>>

Relay(o) ==
    /\ o \in tunnels /\ usage[o] < MaxRelayed
    /\ usage' = [usage EXCEPT ![o] = @ + 1]
    /\ UNCHANGED <<list, reach, cache, up, table, sync, tunnels, meters, beat, now, crashes, contact>>

Close(o) ==
    /\ o \in tunnels /\ tunnels' = tunnels \ {o}
    /\ UNCHANGED <<list, reach, cache, up, table, sync, meters, usage, beat, now, crashes, contact>>

\* Mutant: only organisations still served are reported.
Snapshot_Served == [o \in Metered |-> IF o \in meters \cap table.orgs THEN usage[o] ELSE 0]

\* TenantUsage::snapshot: "A tenant removed from the table keeps its meter".
Snapshot == [o \in Metered |-> IF o \in meters THEN usage[o] ELSE 0]

(***************************************************************************)
(* run_platform_heartbeat.  One that fails is not repeated.                *)
(***************************************************************************)
Fresh == now - sync.since < Lease

Request == [online |-> sync.healthy /\ Fresh, version |-> table.version, usage |-> Snapshot]

Heartbeat ==
    /\ up /\ reach /\ beat # Request
    /\ beat' = Request
    /\ UNCHANGED <<list, reach, cache, up, table, sync, metering, now, crashes, contact>>

Gateway == Fetched \/ Cached \/ PollAnswered \/ PollFails

HNext ==
    \/ Publish \/ Reach \/ Tick \/ Dies \/ Gateway \/ Heartbeat
    \/ \E o \in Metered : Open(o) \/ Relay(o) \/ Close(o)

\* A supervisor starts the process, and both loops never return.
HSpec == HInit /\ [][HNext]_bvars /\ WF_bvars(Gateway) /\ WF_bvars(Heartbeat)

-----------------------------------------------------------------------------
\* A heartbeat that says "online" comes from a gateway whose last poll was
\* answered, less than the lease ago, whatever it was started from.
OnlineMeansInContact ==
    [][beat' # beat /\ beat'.online => sync.healthy /\ now - contact < Lease]_bvars

\* Type correctness; a tunnel has the meter of its organisation, and no list is
\* in force that was not published.
BeatTypeOK ==
    /\ up \in BOOLEAN /\ sync \in [healthy : BOOLEAN, since : 0..now]
    /\ tunnels \subseteq meters /\ meters \subseteq Metered
    /\ usage \in [Metered -> 0..MaxRelayed]
    /\ table.version <= list.version /\ cache.list.version <= list.version

\* The control plane knows all of it: the list in force, the health, and the
\* usage of organisations that are no longer served.
Reported == up /\ beat = [online |-> TRUE, version |-> list.version, usage |-> usage]
=============================================================================
