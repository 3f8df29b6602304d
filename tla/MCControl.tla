----------------------------- MODULE MCControl -----------------------------
(***************************************************************************)
(* The life of a gateway around its data plane, for TLC: the revocation    *)
(* sync, the policy sync and its cache (pX), the shipping of the audit     *)
(* trail (aX), the same of a platform gateway with its organisations (tX)  *)
(* and its heartbeat (bX), the reload watcher, and the release agent of    *)
(* its machine.  Each is checked against an environment of its own, so a   *)
(* behaviour moves one and leaves the others where they start.             *)
(***************************************************************************)
EXTENDS RevocationSync, Reload, Deploy

CONSTANTS Docs, MaxVersion, Bad, PolicyLease, MaxTime, MaxPolicyFaults, \* see PolicySync
          Buffer, BatchMax, MaxPending, MaxEvents, MaxShipFaults,       \* see AuditShip
          Orgs, NoOrg, MaxTagged,                                       \* see Platform
          Metered, MaxLists, MaxRelayed, MaxCrashes                     \* see Platform

ASSUME ControlAssumption ==
    /\ MaxVersion \in Nat /\ MaxTime \in Nat /\ MaxPolicyFaults \in Nat /\ PolicyLease \in Nat

VARIABLES task,   \* the task that runs
          pPublished, pReach, pStaging, pDir, pMeta, pPhase, pJob, pFetched, pEnforced,
          pState, pBeat, pNow, pFaults, pContact, pHigh,
          aRecorded, aDropped, aLost, aQueue, aPending, aTail, aDisk, aChain,
          aStage, aFaults,
          tTrail, tDropped, tLost, tQueue, tPending, tTail, tDisk, tChain, tStage, tFaults,
          bList, bReach, bCache, bUp, bTable, bSync, bTunnels, bMeters, bUsage, bBeat,
          bNow, bCrashes, bContact

policyVars == <<pPublished, pReach, pStaging, pDir, pMeta, pPhase, pJob, pFetched,
                pEnforced, pState, pBeat, pNow, pFaults, pContact, pHigh>>
auditVars == <<aRecorded, aDropped, aLost, aQueue, aPending, aTail, aDisk,
               aChain, aStage, aFaults>>
trailVars == <<tTrail, tDropped, tLost, tQueue, tPending, tTail, tDisk, tChain,
               tStage, tFaults>>
beatVars == <<bList, bReach, bCache, bUp, bTable, bSync, bTunnels, bMeters, bUsage,
              bBeat, bNow, bCrashes, bContact>>
platformVars == <<trailVars, beatVars>>

Policy == INSTANCE PolicySync WITH
    MaxFaults <- MaxPolicyFaults, published <- pPublished, reach <- pReach,
    staging <- pStaging, dir <- pDir, meta <- pMeta, phase <- pPhase, job <- pJob,
    fetched <- pFetched, enforced <- pEnforced, state <- pState, beat <- pBeat,
    now <- pNow, faults <- pFaults, contact <- pContact, high <- pHigh

Audit == INSTANCE AuditShip WITH
    MaxFaults <- MaxShipFaults, recorded <- aRecorded, dropped <- aDropped,
    lost <- aLost, queue <- aQueue, pending <- aPending, tail <- aTail,
    disk <- aDisk, chain <- aChain, stage <- aStage, faults <- aFaults

Platform == INSTANCE Platform WITH
    MaxEvents <- MaxTagged, MaxFaults <- MaxPolicyFaults, trail <- tTrail,
    dropped <- tDropped, lost <- tLost, queue <- tQueue, pending <- tPending,
    tail <- tTail, disk <- tDisk, chain <- tChain, stage <- tStage, faults <- tFaults,
    Lease <- PolicyLease, MaxVersion <- MaxLists, list <- bList, reach <- bReach,
    cache <- bCache, up <- bUp, table <- bTable, sync <- bSync, tunnels <- bTunnels,
    meters <- bMeters, usage <- bUsage, beat <- bBeat, now <- bNow,
    crashes <- bCrashes, contact <- bContact

allVars == <<task, vars, policyVars, auditVars, platformVars, rvars, deployVars>>

OnRevocations(A) ==
    task = "revocations" /\ A
    /\ UNCHANGED <<task, policyVars, auditVars, platformVars, rvars, deployVars>>
OnPolicy(A) ==
    task = "policy" /\ A
    /\ UNCHANGED <<task, vars, auditVars, platformVars, rvars, deployVars>>
OnAudit(A) ==
    task = "audit" /\ A
    /\ UNCHANGED <<task, vars, policyVars, platformVars, rvars, deployVars>>
OnTrail(A) ==
    task = "trail" /\ A
    /\ UNCHANGED <<task, vars, policyVars, auditVars, beatVars, rvars, deployVars>>
OnBeats(A) ==
    task = "beats" /\ A
    /\ UNCHANGED <<task, vars, policyVars, auditVars, trailVars, rvars, deployVars>>
OnReload(A) ==
    task = "reload" /\ A
    /\ UNCHANGED <<task, vars, policyVars, auditVars, platformVars, deployVars>>
OnDeploy(A) ==
    task = "deploy" /\ A
    /\ UNCHANGED <<task, vars, policyVars, auditVars, platformVars, rvars>>

\* A task that does not run stands at one of its initial states.
MCInit ==
    /\ task \in {"revocations", "policy", "audit", "trail", "beats", "reload", "deploy"}
    /\ Init /\ Policy!Init /\ Audit!Init /\ Platform!PInit /\ Platform!HInit
    /\ RInit /\ DInit
    /\ task # "beats" => bList.orgs = {}
    /\ task # "reload" => kind = "dir"
    /\ task # "deploy" =>
        channel = "none" /\ vault = {} /\ outside /\ \A v \in Versions : source[v] = "good"

MCNext ==
    \/ OnRevocations(Next)
    \/ OnPolicy(Policy!Next)
    \/ OnAudit(Audit!Next)
    \/ OnTrail(Platform!PNext)
    \/ OnBeats(Platform!HNext)
    \/ OnReload(RNext)
    \/ OnDeploy(DNext)

\* The fairness of each task's own specification.  A behaviour moves one task,
\* so weak fairness of the disjunction is weak fairness of the one that runs.
MCSpec ==
    /\ MCInit /\ [][MCNext]_allVars
    /\ WF_allVars(\/ OnRevocations(Gateway) \/ OnPolicy(Policy!Gateway)
                  \/ OnAudit(Audit!Shipper) \/ OnTrail(Platform!Shipper)
                  \/ OnBeats(Platform!Gateway) \/ OnReload(Watcher)
                  \/ OnDeploy(\E a \in Agents : Pass(a)))
    /\ WF_allVars(\/ OnAudit(Audit!Restart) \/ OnTrail(Platform!Restart)
                  \/ OnBeats(Platform!Heartbeat))

-----------------------------------------------------------------------------
\* PolicySync: no version is reported that is newer than what is enforced, and
\* nothing older comes back into force while the process lives or restarts.
PolicyInv == Policy!PolicyInv

\* A heartbeat that says "online" comes from a gateway whose last answered
\* poll is younger than the policy lease, restarts included (CacheMeta; a
\* platform gateway's cache age, and platform_sync_state).
OnlineMeansInContact ==
    [][/\ pBeat' # pBeat /\ pBeat'.online => pNow - pContact < PolicyLease
       /\ bBeat' # bBeat /\ bBeat'.online =>
            bSync.healthy /\ bNow - bContact < PolicyLease]_<<policyVars, beatVars>>

\* run_audit_shipping forgets an event only once the control plane has it,
\* unless the channel turned it away or the process died with it; the control
\* plane first sees events in the order of the decisions; and the backlog
\* stays within MAX_PENDING.  run_platform_audit_shipping keeps to the same, in
\* one chain without a gap, files every event under the organisation it names,
\* and none that names none.
AuditInv ==
    /\ Audit!TypeOK /\ Audit!NothingForgotten /\ Audit!FirstSeenInOrder
    /\ Platform!PlatformAuditInv
    /\ Platform!BeatTypeOK

InReach ==
    CASE task = "revocations" -> reach [] task = "policy" -> pReach
      [] task = "beats" -> bReach [] OTHER -> TRUE

\* Once the control plane stays reachable, the sessions it lists are exactly the
\* ones refused (run_revocation_sync), the published revision is enforced if it
\* loads (run_control_plane_sync), and every event that was not turned away and
\* did not die with the process is shipped: neither a stale tail nor a conflict
\* wedges the shipper (run_audit_shipping, run_platform_audit_shipping).  A
\* platform gateway reports itself online with the list published, and all that
\* was used, by organisations it no longer serves too (run_platform_heartbeat).
CatchesUpWithControlPlane ==
    <>[]InReach =>
        <>[](CASE task = "revocations" -> UpToDate
               [] task = "policy" -> Policy!UpToDate
               [] task = "audit" -> Audit!AllShipped
               [] task = "trail" -> Platform!AllShipped
               [] task = "beats" -> Platform!Reported
               [] OTHER -> TRUE)

\* watch_and_reload: when the edits stop and what is there loads, it is in
\* force.  skimasque-deploy: the promoted version is installed or known as bad,
\* and a healthy one is trusted, if only after a secret came or the outside got
\* ready.
ChangesTakeEffect ==
    <>[](CASE task = "reload" -> EditInForce
           [] task = "deploy" -> Settled
           [] OTHER -> TRUE)
============================================================================
