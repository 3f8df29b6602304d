------------------------------ MODULE Startup -------------------------------
(***************************************************************************)
(* How a gateway starts (main of skimasque-server): its flags are checked, *)
(* then TLS, identity, the control plane or the tenant platform, policy    *)
(* and revocations are brought up one after the other, each of which may   *)
(* fail and end the process; then it binds, spawns its tasks and is ready. *)
(* What a run leaves in --control-plane-state meets the next run, which    *)
(* may have other flags.  A process may be killed at any time.             *)
(***************************************************************************)
EXTENDS Integers, Sequences, FiniteSets, SequencesExt

VARIABLES boot,    \* the process: its flags, how far it has come, what it has built
          store    \* the state directory

svars == <<boot, store>>

flags == boot.flags

\* Args, as far as the control of main depends on it.  A "bad" provider is one
\* build_provider or the default issuer refuses.
Flags == [tls : {"files", "generated", "acme"}, tls_reload : BOOLEAN,
          identity : {"none", "token", "oidc"}, secret : {"none", "short", "good"},
          provider : {"github", "generic", "bad"}, audience : BOOLEAN,
          source : {"none", "files", "control"}, platform : BOOLEAN, observe : BOOLEAN, reload : BOOLEAN,
          fallback : BOOLEAN, register : BOOLEAN, metrics : BOOLEAN]

\* What clap refuses before main runs (requires, conflicts_with).
TlsConsistent(f) == f.tls_reload => f.tls = "files"

SourceConsistent(f) ==
    /\ f.platform => f.source = "control" /\ f.identity = "oidc" /\ ~f.observe
    /\ f.observe => f.source # "none"
    /\ f.reload => f.source = "files"
    /\ ~f.fallback => f.source = "control"
    /\ f.register => f.source = "control"

IdentityConsistent(f) ==
    f.identity # "oidc" => f.secret = "none" /\ ~f.audience /\ f.provider = "github"

Commands == {f \in Flags : TlsConsistent(f) /\ SourceConsistent(f) /\ IdentityConsistent(f)}

\* The command line without any option.
Bare == [tls |-> "generated", tls_reload |-> FALSE, identity |-> "none", secret |-> "none",
         provider |-> "github", audience |-> FALSE, source |-> "none", platform |-> FALSE, observe |-> FALSE,
         reload |-> FALSE, fallback |-> TRUE, register |-> FALSE, metrics |-> FALSE]

\* `layers` is the service stack, outermost first; `wired` names the channels
\* and shared cells that some layer or minter feeds from or into, `tasks` what
\* was spawned to drive them.
Down == [pc |-> "down", flags |-> Bare, identity |-> "none", synced |-> FALSE,
         minter |-> "none", layers |-> <<>>, wired |-> {}, refuses |-> FALSE,
         tasks |-> {}, ready |-> FALSE, warned |-> {}]

SInit ==
    /\ \E f \in Commands : boot = [Down EXCEPT !.pc = "tls", !.flags = f]
    /\ store = [identity |-> "none", policy |-> FALSE, tenants |-> FALSE,
                key |-> FALSE, revoked |-> FALSE]

\* An error anywhere in main ends the process.
Exit == boot' = Down

Goto(pc) == boot' = [boot EXCEPT !.pc = pc]

-----------------------------------------------------------------------------
\* load_tls: the certificate's files, the ACME manager, or a generated
\* certificate.  Reading and parsing the files may fail; the resolver of an ACME
\* configuration has nothing to serve until its task runs.
LoadTls(ok) ==
    /\ boot.pc = "tls"
    /\ CASE ~ok -> Exit
         [] ok /\ flags.tls = "acme" -> boot' = [boot EXCEPT !.pc = "oidc", !.wired = @ \cup {"acme"}]
         [] OTHER -> Goto("oidc")
    /\ UNCHANGED store

\* build_provider, and the issuer it is verified at.
BuildProvider == flags.provider # "bad"

\* build_platform_oidc: tenants verify owners on github.com.
BuildPlatformOidc == BuildProvider /\ flags.provider = "github"

\* build_oidc: only a gateway of its own verifies and mints by itself.
BuildOidc ==
    /\ boot.pc = "oidc"
    /\ CASE flags.platform \/ flags.identity # "oidc" -> Goto("config")
         [] ~flags.platform /\ flags.identity = "oidc"
               /\ ~(flags.audience /\ BuildProvider /\ flags.secret # "short") -> Exit
         [] OTHER -> boot' = [boot EXCEPT !.pc = "config", !.minter = "local",
                                !.warned = IF flags.secret = "none" THEN {"secret"} ELSE {}]
    /\ UNCHANGED store

\* The template, the limits, the durations and the labels are parsed.
Configure(ok) ==
    /\ boot.pc = "config"
    /\ IF ~ok \/ (flags.platform /\ ~BuildPlatformOidc) THEN Exit
       ELSE Goto(IF flags.source = "control" THEN "identity" ELSE "revocations")
    /\ UNCHANGED store

\* check_platform_identity: a platform gateway refuses an organisation's.
CheckPlatformIdentity(identity) == identity # "org"

\* load_identity: what an earlier run has stored is used again, unless it is
\* damaged.
LoadIdentity ==
    /\ boot.pc = "identity"
    /\ CASE store.identity = "none" -> IF flags.register THEN Goto("register") ELSE Exit
         [] store.identity = "torn" \/ (flags.platform /\ ~CheckPlatformIdentity(store.identity)) -> Exit
         [] OTHER -> boot' = [boot EXCEPT !.pc = "sync", !.identity = store.identity]
    /\ UNCHANGED store

\* register, register_platform: the answer is written to the state directory.
Register(answered) ==
    /\ boot.pc = "register"
    /\ IF ~answered THEN Exit /\ UNCHANGED store
       ELSE LET identity == IF flags.platform THEN "platform" ELSE "org"
            IN /\ boot' = [boot EXCEPT !.pc = "sync", !.identity = identity]
               /\ store' = [store EXCEPT !.identity = identity]

\* fetch_policy with no known version, or initial_tenants: the answer is cached;
\* without one the cache serves, and without a cache nothing starts.  "none" (an
\* organisation that never published a policy) is an error even with a cache; an
\* answer without a list is no answer to the platform gateway.
FirstSync(answer) ==
    /\ boot.pc = "sync"
    /\ LET cached == IF flags.platform THEN store.tenants ELSE store.policy
           next == CASE flags.platform -> "platform"
                     [] ~flags.platform /\ boot.minter = "local" -> "wire"
                     [] OTHER -> "revocations"
       IN CASE answer = "list" ->
                  /\ boot' = [boot EXCEPT !.pc = next, !.synced = TRUE]
                  /\ store' = IF flags.platform THEN [store EXCEPT !.tenants = TRUE]
                              ELSE [store EXCEPT !.policy = TRUE]
            [] answer = "none" /\ ~flags.platform -> Exit /\ UNCHANGED store
            [] answer = "unchanged" /\ ~flags.platform -> Goto(next) /\ UNCHANGED store
            [] OTHER -> (IF cached THEN Goto(next) ELSE Exit) /\ UNCHANGED store

\* wire_oidc_to_control_plane: the organisation's key, fetched or cached, is put
\* into the cell the verifier reads; minting goes to the control plane.
WireOidc(answered) ==
    /\ boot.pc = "wire"
    /\ IF ~answered /\ ~store.key THEN Exit
       ELSE boot' = [boot EXCEPT !.pc = "revocations", !.minter = "remote",
                                 !.wired = @ \cup {"signing_key"}]
    /\ store' = IF answered THEN [store EXCEPT !.key = TRUE] ELSE store

\* The rest of bootstrap_platform: the table is in force, the tenant stack and
\* its minter are built, and the audit queue is wired.
BuildPlatform(opened) ==
    /\ boot.pc = "platform"
    /\ IF ~opened THEN Exit
       ELSE boot' = [boot EXCEPT !.pc = "revocations", !.minter = "platform",
                       !.layers = <<"limit", "tenant", "revocation", "policy", "quota", "usage">>,
                       !.wired = @ \cup {"audit", "tenants", "usage"}]
    /\ UNCHANGED store

\* Mutant: a platform gateway starts with an empty list.
LoadRevocations_NotOnPlatform ==
    /\ boot.pc = "revocations"
    /\ boot' = [boot EXCEPT !.pc = IF flags.platform THEN "bind" ELSE "service",
                            !.refuses = flags.source = "control" /\ ~flags.platform /\ store.revoked]
    /\ UNCHANGED store

\* The sessions this gateway last knew were ended are refused from the start.
LoadRevocations ==
    /\ boot.pc = "revocations"
    /\ boot' = [boot EXCEPT !.pc = IF flags.platform THEN "bind" ELSE "service",
                            !.refuses = flags.source = "control" /\ store.revoked]
    /\ UNCHANGED store

\* The stack build_service makes, outermost first.
ServiceLayers(f) ==
    LET Optional(there, layer) == IF there THEN <<layer>> ELSE <<>>
    IN  <<"limit">> \o Optional(f.identity = "oidc", "identity")
        \o Optional(f.identity = "token", "auth") \o <<"revocation">>
        \o Optional(f.source # "none", "policy")
        \o Optional(f.source # "none" /\ ~f.observe, "quota")

\* load_policy_layer: the policy may not load, the cache directory may not
\* exist, and the audit log may not open.
PolicyLoads(ok) ==
    /\ flags.source # "none" => ok
    /\ flags.source = "control" => store.policy

BuildService(ok) ==
    /\ boot.pc = "service"
    /\ IF ~PolicyLoads(ok) THEN Exit
       ELSE boot' = [boot EXCEPT !.pc = "bind", !.layers = ServiceLayers(flags),
                !.wired = @ \cup (IF flags.source = "control" THEN {"policy"} ELSE {})
                    \cup (IF flags.source = "control" /\ ~flags.observe THEN {"audit"} ELSE {})]
    /\ UNCHANGED store

\* startup_warnings and platform_warnings.
StartupWarnings(f) ==
    (IF f.identity = "none" THEN {"open"} ELSE {})
    \cup (IF f.identity # "none" /\ f.source = "none" THEN {"floor only"} ELSE {})

PlatformWarnings(f) ==
    IF f.platform /\ (f.secret # "none" \/ f.audience) THEN {"ignored"} ELSE {}

\* Server::bind, and the warnings it is followed by.
Bind(ok) ==
    /\ boot.pc = "bind"
    /\ IF ~ok THEN Exit
       ELSE boot' = [boot EXCEPT !.pc = "spawn",
                !.warned = @ \cup StartupWarnings(flags) \cup PlatformWarnings(flags)]
    /\ UNCHANGED store

\* What is spawned for an organisation's control plane, for the platform
\* (spawn_platform_tasks), and for the gateway's own files and listeners.
ControlTasks(f) ==
    IF f.source # "control" \/ f.platform THEN {}
    ELSE {"policy", "revocations", "heartbeat"}
         \cup (IF boot.minter = "remote" THEN {"signing_key"} ELSE {})
         \cup (IF f.observe THEN {} ELSE {"audit"})

PlatformTasks(f) ==
    IF f.platform THEN {"tenants", "revocations", "audit", "heartbeat", "usage"} ELSE {}

LocalTasks(f) ==
    (IF f.tls = "acme" THEN {"acme"} ELSE {})
    \cup (IF f.reload THEN {"reload"} ELSE {})
    \cup (IF f.tls_reload THEN {"tls_reload"} ELSE {})
    \cup (IF f.metrics THEN {"ops"} ELSE {})

\* The tasks, then the readiness latch (Ready::mark_ready).
Spawn ==
    /\ boot.pc = "spawn"
    /\ boot' = [boot EXCEPT !.pc = "serving", !.ready = flags.metrics,
            !.tasks = ControlTasks(flags) \cup PlatformTasks(flags) \cup LocalTasks(flags)]
    /\ UNCHANGED store

\* While it serves, the revocation task caches the list it is given.
CacheRevocations ==
    /\ boot.pc = "serving" /\ "revocations" \in boot.tasks
    /\ store' = [store EXCEPT !.revoked = TRUE]
    /\ boot' = [boot EXCEPT !.refuses = TRUE]

\* SIGTERM, or the process is killed; an identity that is being written is left
\* in part (write_private does not rename).
Stop(writing) ==
    /\ boot.pc # "down"
    /\ writing => boot.pc = "register"
    /\ boot' = Down
    /\ store' = IF writing THEN [store EXCEPT !.identity = "torn"] ELSE store

\* Started again, perhaps with other flags.  A damaged identity is removed by
\* hand.
Start(f) ==
    /\ boot.pc = "down"
    /\ boot' = [Down EXCEPT !.pc = "tls", !.flags = f]
    /\ store' = IF store.identity = "torn" THEN [store EXCEPT !.identity = "none"] ELSE store

StartupStep ==
    \/ \E ok \in BOOLEAN : LoadTls(ok) \/ Configure(ok) \/ Register(ok) \/ WireOidc(ok)
                           \/ BuildPlatform(ok) \/ BuildService(ok) \/ Bind(ok)
    \/ BuildOidc \/ LoadIdentity \/ LoadRevocations \/ Spawn
    \/ \E answer \in {"list", "none", "unchanged", "error"} : FirstSync(answer)

SNext ==
    \/ StartupStep
    \/ CacheRevocations
    \/ \E writing \in BOOLEAN : Stop(writing)
    \/ boot.pc = "down" /\ \E f \in Commands : Start(f)

SSpec == SInit /\ [][SNext]_svars

-----------------------------------------------------------------------------
Before(a, b) ==
    \A i, j \in DOMAIN boot.layers : boot.layers[i] = a /\ boot.layers[j] = b => i < j

\* "Refuse the sessions this gateway last knew were ended before it takes any
\* traffic, so a restart during a control-plane outage does not revive them":
\* whatever the flags of the run that stored the list.
EndedStayRefused ==
    boot.pc \in {"bind", "spawn", "serving"} /\ flags.source = "control" /\ store.revoked => boot.refuses

\* Nothing is wired that no task drives: an audit queue without a shipper fills
\* up, a signing key cell without a refresher goes stale, an ACME resolver
\* without its task never has a certificate.
WiredIsDriven == boot.pc = "serving" => boot.wired \subseteq boot.tasks

\* A gateway that follows a control plane serves only with a list or policy it
\* has from there, now or from an earlier run of the same mode; and a platform
\* gateway never speaks as an organisation's, nor verifies owners elsewhere than
\* on github.com.
ServesWhatItHas ==
    boot.pc = "serving" /\ flags.source = "control" =>
        /\ IF flags.platform THEN store.tenants ELSE store.policy
        /\ flags.platform => boot.identity = "platform" /\ boot.minter = "platform"
                            /\ flags.provider = "github"
        /\ boot.identity # "none"

\* The service stack: identity is known before sessions are refused by it,
\* revocation before policy, policy before the quota that reads its decision,
\* and a gateway that enforces has a quota layer exactly when it has a policy.
LayersInOrder ==
    boot.pc = "serving" =>
        /\ Before("identity", "revocation") /\ Before("tenant", "revocation")
        /\ Before("revocation", "policy") /\ Before("policy", "quota")
        /\ "quota" \in ToSet(boot.layers) => "policy" \in ToSet(boot.layers)
        /\ flags.identity # "none" /\ flags.source = "none" => "floor only" \in boot.warned

StartupInv == EndedStayRefused /\ WiredIsDriven /\ ServesWhatItHas /\ LayersInOrder
=============================================================================
