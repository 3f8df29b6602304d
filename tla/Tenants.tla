------------------------------- MODULE Tenants -------------------------------
(***************************************************************************)
(* A platform gateway serves many organisations.  Which ones, under which  *)
(* keys, owners and policies, is a list the control plane publishes; the   *)
(* gateway holds it twice, as a key map and as a tenant table, and swaps   *)
(* the two one after the other while requests read them one after the      *)
(* other (skimasque-cli/src/platform.rs, skimasque/src/tenant.rs, and the  *)
(* tenant mode of the policy layer in skimasque/src/service.rs).           *)
(*                                                                         *)
(* The content of a list never changes once it has a version, so the key   *)
(* map and the table are modelled by the version they were built from and  *)
(* 0 is "nothing applied yet".  An entry of a list has an organisation (or *)
(* the empty one), a slug, the keys it verifies with (none when they do    *)
(* not decode), its verified owners and whether its policy loads.          *)
(***************************************************************************)
EXTENDS Integers, Sequences

CONSTANTS
    Orgs, NoOrg, Slugs, Keys, Owners,
    Lists,       \* what the control plane may publish: sequences of entries
    Requests,    \* tunnel requests handled at the same time
    MaxVersion,  \* bound: lists published
    MaxFaults    \* bound: crashes, failed polls and failed cache writes

Entry == [org : Orgs \cup {NoOrg}, slug : Slugs, keys : SUBSET Keys,
          owners : SUBSET Owners, loads : BOOLEAN]

ASSUME TenantsAssumption ==
    /\ NoOrg \notin Orgs
    /\ Lists \subseteq Seq(Entry)
    /\ MaxVersion \in Nat /\ MaxFaults \in Nat

VARIABLES
    published,  \* the control plane's lists; a list's version is its index
    up,         \* the process runs and serves
    keys,       \* PlatformTenants.keys: the list it was built from
    table,      \* PlatformTenants.table: the list it was built from
    sync,       \* run_tenant_sync: "idle", "fetched", "keyed", "stored"
    fetched,    \* the list it has in hand
    recorded,   \* SyncState's version
    reachable,  \* SyncState's contact flag
    cache,      \* <state_dir>/tenants.json, 0 when there is none
    faults,
    request,    \* a tunnel request on its way through the layers
    job         \* a token exchange on its way through PlatformMinter

gateVars == <<up, keys, table, sync, fetched, recorded, reachable, cache>>
tenantVars == <<published, gateVars, faults, request, job>>

NoRequest == [stage |-> "none", org |-> NoOrg, key |-> "none", at |-> 0, under |-> 0]
NoJob == [stage |-> "none", org |-> NoOrg, owner |-> "none", at |-> 0]

-----------------------------------------------------------------------------
(* Reading a list.                                                         *)

\* dedup (and again TenantTable::store): in order, an entry with no
\* organisation, or that repeats a kept entry's organisation or slug, goes.
Dedup(list) ==
    LET Clashes(n, kept) ==
            \/ list[n].org = NoOrg
            \/ \E m \in kept : list[m].org = list[n].org \/ list[m].slug = list[n].slug
        kept[n \in 0..Len(list)] ==
            IF n = 0 THEN {}
            ELSE IF Clashes(n, kept[n - 1]) THEN kept[n - 1]
            ELSE kept[n - 1] \cup {n}
    IN  {list[n] : n \in kept[Len(list)]}

\* The tenants of the list with this version, before the first one: none.
TenantsAt(v) == IF v = 0 THEN {} ELSE Dedup(published[v])

\* TenantSnapshot::resolve_org finds an entry.
Serves(v, org) == \E t \in TenantsAt(v) : t.org = org

\* verifier(org) and verify_for_org: that organisation's keys and no other's.
Verifies(v, org, key) == \E t \in TenantsAt(v) : t.org = org /\ key \in t.keys

\* policy_for: a policy that does not load denies everything.
MayAllow(v, org) == \E t \in TenantsAt(v) : t.org = org /\ t.loads

\* TenantSnapshot::resolve_slug, and Tenant::owns.
Owned(v, slug, org) == \E t \in TenantsAt(v) : t.slug = slug /\ t.org = org
Owns(v, org, owner) == \E t \in TenantsAt(v) : t.org = org /\ owner \in t.owners

-----------------------------------------------------------------------------
(* The control plane and the process.                                      *)

TenantsInit ==
    /\ published = <<>> /\ up = FALSE
    /\ keys = 0 /\ table = 0 /\ sync = "idle" /\ fetched = 0
    /\ recorded = 0 /\ reachable = FALSE /\ cache = 0 /\ faults = 0
    /\ request = [r \in Requests |-> NoRequest] /\ job = NoJob

Publish(list) ==
    /\ Len(published) < MaxVersion
    /\ published' = Append(published, list)
    /\ UNCHANGED <<gateVars, faults, request, job>>

Fault == faults < MaxFaults /\ faults' = faults + 1

\* write_cache stages and renames, so whole or not at all; failing is logged.
WriteCache(v) ==
    \/ cache' = v /\ UNCHANGED faults
    \/ Fault /\ UNCHANGED cache

\* bootstrap_platform: the table is in force before anything serves or syncs.
Serve(v) ==
    /\ up' = TRUE /\ keys' = v /\ table' = v /\ recorded' = v
    /\ UNCHANGED <<published, sync, fetched, request, job>>

\* initial_tenants, answered by the control plane.
StartFetched ==
    /\ ~up /\ published # <<>>
    /\ Serve(Len(published)) /\ reachable' = TRUE
    /\ WriteCache(Len(published))

\* initial_tenants, not answered: the cached list, or the process exits.
StartCached ==
    /\ ~up /\ cache # 0
    /\ Fault
    /\ Serve(cache) /\ reachable' = FALSE /\ UNCHANGED cache

\* The process dies: only the cache file stays.
Crash ==
    /\ up /\ Fault
    /\ up' = FALSE /\ keys' = 0 /\ table' = 0 /\ recorded' = 0
    /\ sync' = "idle" /\ fetched' = 0 /\ reachable' = FALSE
    /\ request' = [r \in Requests |-> NoRequest] /\ job' = NoJob
    /\ UNCHANGED <<published, cache>>

-----------------------------------------------------------------------------
(* run_tenant_sync: one task, so one list at a time.                       *)

\* The poll names the table's version; another one is sent back whole.
PollUpdated ==
    /\ up /\ sync = "idle" /\ Len(published) # table
    /\ sync' = "fetched" /\ fetched' = Len(published)
    /\ UNCHANGED <<published, up, keys, table, recorded, reachable, cache,
                   faults, request, job>>

\* The long poll runs out with nothing new.
PollUnchanged ==
    /\ up /\ sync = "idle" /\ Len(published) = table /\ ~reachable
    /\ reachable' = TRUE
    /\ UNCHANGED <<published, up, keys, table, sync, fetched, recorded, cache,
                   faults, request, job>>

PollFails_Returns ==
    /\ up /\ sync = "idle" /\ Fault
    /\ reachable' = FALSE /\ sync' = "ended"
    /\ UNCHANGED <<published, up, keys, table, fetched, recorded, cache,
                   request, job>>

\* Any error: the tenants in force stay; back off and poll again.
PollFails ==
    /\ up /\ sync = "idle" /\ Fault
    /\ reachable' = FALSE
    /\ UNCHANGED <<published, up, keys, table, sync, fetched, recorded, cache,
                   request, job>>

ApplyKeys_Later ==
    /\ up /\ sync = "fetched"
    /\ reachable' = TRUE
    /\ table' = fetched /\ sync' = "keyed"
    /\ UNCHANGED <<published, up, keys, fetched, recorded, cache, faults,
                   request, job>>

\* mark_contact, then apply: keys first ...
ApplyKeys ==
    /\ up /\ sync = "fetched"
    /\ reachable' = TRUE
    /\ keys' = fetched /\ sync' = "keyed"
    /\ UNCHANGED <<published, up, table, fetched, recorded, cache, faults,
                   request, job>>

\* ... then the table.
ApplyTable ==
    /\ up /\ sync = "keyed"
    /\ table' = fetched /\ sync' = "stored"
    /\ UNCHANGED <<published, up, keys, fetched, recorded, reachable, cache,
                   faults, request, job>>

\* set_version, then write_cache.
Record ==
    /\ up /\ sync = "stored"
    /\ recorded' = fetched /\ sync' = "idle" /\ fetched' = 0
    /\ WriteCache(fetched)
    /\ UNCHANGED <<published, up, keys, table, reachable, request, job>>

-----------------------------------------------------------------------------
(* A tunnel request: TenantLayer (two reads), then the policy layer (one). *)

\* PlatformTenantVerifier::verify_now: the organisation the credential names
\* (peek_org_id) is looked up in a snapshot of the table ...
Resolve(r, org, key) ==
    /\ up /\ request[r].stage \in {"none", "admitted", "refused"}
    /\ request' = [request EXCEPT ![r] =
        [stage |-> IF Serves(table, org) THEN "resolved" ELSE "refused",
         org |-> org, key |-> key, at |-> table, under |-> 0]]
    /\ UNCHANGED <<published, gateVars, faults, job>>

\* ... and the credential is verified with what the key map holds for it now.
Verify(r) ==
    /\ request[r].stage = "resolved"
    /\ request' = [request EXCEPT ![r].stage =
        IF Verifies(keys, request[r].org, request[r].key) THEN "verified"
        ELSE "refused"]
    /\ UNCHANGED <<published, gateVars, faults, job>>

\* Enforce::call in tenant mode: the table is read again, once; a tenant no
\* longer in it is refused, and otherwise its own policy in it decides.
Enforce(r) ==
    /\ request[r].stage = "verified"
    /\ \E allowed \in BOOLEAN :
        /\ allowed => MayAllow(table, request[r].org)
        /\ request' = [request EXCEPT ![r] =
            [stage |-> IF allowed THEN "admitted" ELSE "refused",
             org |-> request[r].org, key |-> request[r].key,
             at |-> request[r].at, under |-> table]]
    /\ UNCHANGED <<published, gateVars, faults, job>>

-----------------------------------------------------------------------------
(* A token exchange: PlatformMinter::mint, one snapshot for all of it.     *)

\* The audience's slug (slug_of) names the tenant in the snapshot.
MintResolve(slug, owner) ==
    /\ up /\ job.stage \in {"none", "minted", "refused"}
    /\ \/ \E org \in Orgs :
            /\ Owned(table, slug, org)
            /\ job' = [stage |-> "resolved", org |-> org, owner |-> owner, at |-> table]
       \/ /\ \A org \in Orgs : ~Owned(table, slug, org)
          /\ job' = [NoJob EXCEPT !.stage = "refused"]
    /\ UNCHANGED <<published, gateVars, faults, request>>

\* The token verifies for that audience (or not, or its keys are away), and
\* its owner must be verified for the tenant of the snapshot.
MintVerify ==
    /\ job.stage = "resolved"
    /\ \E verified \in BOOLEAN :
        job' = [job EXCEPT !.stage =
            IF verified /\ Owns(job.at, job.org, job.owner) THEN "asking" ELSE "refused"]
    /\ UNCHANGED <<published, gateVars, faults, request>>

\* The control plane checks the owner against its own list and mints, refuses
\* or cannot be reached; the gateway never mints by itself.
MintAnswer ==
    /\ job.stage = "asking"
    /\ \E answered \in BOOLEAN :
        job' = [job EXCEPT !.stage =
            IF answered /\ Owns(Len(published), job.org, job.owner)
            THEN "minted" ELSE "refused"]
    /\ UNCHANGED <<published, gateVars, faults, request>>

-----------------------------------------------------------------------------
TenantsNext ==
    \/ \E list \in Lists : Publish(list)
    \/ StartFetched \/ StartCached \/ Crash
    \/ PollUpdated \/ PollUnchanged \/ PollFails
    \/ ApplyKeys \/ ApplyTable \/ Record
    \/ \E r \in Requests :
        \/ \E org \in Orgs, key \in Keys : Resolve(r, org, key)
        \/ Verify(r) \/ Enforce(r)
    \/ \E slug \in Slugs, owner \in Owners : MintResolve(slug, owner)
    \/ MintVerify \/ MintAnswer

\* The process is restarted by its supervisor and the sync task keeps running.
Fairness ==
    /\ WF_tenantVars(StartFetched)
    /\ WF_tenantVars(PollUpdated) /\ WF_tenantVars(PollUnchanged)
    /\ WF_tenantVars(ApplyKeys) /\ WF_tenantVars(ApplyTable) /\ WF_tenantVars(Record)

TenantsSpec == TenantsInit /\ [][TenantsNext]_tenantVars /\ Fairness

-----------------------------------------------------------------------------
(* Properties.                                                             *)

\* A request is admitted only by a key that its organisation had in the list
\* the request was resolved in, or in a later one: once a table is in force,
\* a key its list dropped or rotated out admits nobody who asks after that,
\* although the table and the key map are read and swapped one at a time.
\* And it is admitted under the policy of its own organisation, from a list
\* at least as new, in which the organisation is still served.
AdmittedByOwnKey ==
    \A r \in Requests : request[r].stage = "admitted" =>
        /\ \E v \in request[r].at..Len(published) :
            Verifies(v, request[r].org, request[r].key)
        /\ request[r].under \in request[r].at..Len(published)
        /\ MayAllow(request[r].under, request[r].org)

\* apply swaps the keys before the table, so the key map is never older than
\* the table a request may have resolved its organisation in.
KeysNotOlder == table <= keys /\ keys <= Len(published)

\* SyncState never names a list that is not yet enforced, whatever crashes or
\* failed polls come between apply and set_version, and a restart finds a list
\* that was published whole, never one nobody published.
NeverAhead == recorded <= table /\ cache <= Len(published)

\* A credential is asked for, and minted, only for an owner that the list the
\* slug was resolved in verifies for the organisation it resolved to, however
\* many lists were applied while the token was being verified.
MintedForOwner ==
    job.stage \in {"asking", "minted"} =>
        job.at <= Len(published) /\ Owns(job.at, job.org, job.owner)

TenantInv == AdmittedByOwnKey /\ KeysNotOlder /\ NeverAhead /\ MintedForOwner

\* Once the control plane stops publishing and the faults stop, the gateway
\* serves the last list, with its keys, and has recorded so.
TenantsConverge ==
    <>[](published = <<>> \/
         (up /\ reachable /\ sync = "idle"
          /\ {keys, table, recorded} = {Len(published)}))

-----------------------------------------------------------------------------
(***************************************************************************)
(* The lists of a control plane with two organisations, for TLC, published *)
(* in any order: one organisation after an entry of none; its key rotated  *)
(* and a second one whose keys do not decode; the slug handed to the       *)
(* second, with an entry that repeats it and goes, and the first           *)
(* organisation under another slug with a policy that does not load.       *)
(***************************************************************************)
Tenant(o, s, k, w, l) ==
    [org |-> o, slug |-> s, keys |-> k, owners |-> w, loads |-> l]

TwoOrgs ==
    {<<Tenant("none", "a", {"k1"}, {"y"}, TRUE), Tenant("A", "a", {"k1"}, {"x"}, TRUE)>>,
     <<Tenant("A", "a", {"k2"}, {"x", "y"}, TRUE), Tenant("B", "b", {}, {"y"}, TRUE)>>,
     <<Tenant("B", "a", {"k2"}, {"y"}, TRUE), Tenant("A", "a", {"k1"}, {"x"}, TRUE),
       Tenant("A", "b", {"k1", "k2"}, {}, FALSE)>>}
=============================================================================
