--------------------------- MODULE ControlProofs ---------------------------
(***************************************************************************)
(* Proofs about what a gateway reports of its policy (PolicySync and the   *)
(* heartbeat of Platform), for any number of revisions, files, crashes and *)
(* failed writes and for every lease.  PolicyInv is inductive together     *)
(* with PolicyTimes and PolicyVersions: what is on disk, staged, fetched   *)
(* and in force is ordered, step by step through cache_policy.             *)
(***************************************************************************)
EXTENDS MCControl, TLAPS

(***************************************************************************)
(* The policy cache.                                                       *)
(***************************************************************************)

(* Nothing on disk or in memory claims contact later than the last         *)
(* answered poll, and the steps of cache_policy take no time.              *)
PolicyTimes ==
    /\ pContact <= pNow /\ pState.since <= pContact
    /\ pMeta.at <= pContact /\ pDir.mtime <= pContact /\ pStaging.mtime <= pContact
    /\ pJob # "none" => pContact = pNow

(* The directory holds files of one revision, no older than any that was   *)
(* enforced or that the metadata names, and a job writes one at least as   *)
(* new.                                                                    *)
PolicyVersions ==
    /\ pFetched <= pPublished /\ pHigh <= pPublished /\ pMeta.version <= pPublished
    /\ pJob # "none" =>
        pPhase \in {"boot", "run"} /\ pHigh <= pFetched /\ pMeta.version <= pFetched
    /\ \A f, g \in pDir.files : f[1] = g[1]
    /\ \A f \in pDir.files : f[1] >= pHigh /\ f[1] >= pMeta.version /\ f[1] <= pPublished
    /\ pJob \in {"write", "remove"} => \A f \in pStaging.files : f[1] = pFetched
    /\ pJob \in {"meta", "done"} => \A f \in pDir.files : f[1] = pFetched
    /\ pPhase = "load" => \A f \in pDir.files : f[1] >= pState.version
    /\ Policy!NeverClaimsNewer /\ Policy!NoRollback

PolicyTypes == Policy!TypeOK /\ (pJob # "none" => pFetched > 0)

(* What a start out of reach takes from the cache.                          *)
LEMMA FallBackState ==
    ASSUME Policy!FallBack
    PROVE  \/ /\ pPhase' = "down" /\ pJob' = "none" /\ pFetched' = 0 /\ pEnforced' = {}
              /\ pState' = pState
           \/ /\ pPhase' = "load" /\ pJob' = "none" /\ pFetched' = pFetched
              /\ pEnforced' = pEnforced
              /\ pState' = [version |-> pMeta.version, healthy |-> TRUE,
                            since |-> IF pMeta.version # 0 THEN pMeta.at ELSE pDir.mtime]
BY DEF Policy!FallBack, Policy!Exit, Policy!NewState

(* The two outcomes of a start out of reach are well typed.                *)
LEMMA FallBackTypes ==
    ASSUME PolicyTypes, Policy!FallBack
    PROVE  /\ pState' \in [version : 0..MaxVersion, healthy : BOOLEAN, since : 0..MaxTime]
           /\ pPhase' \in {"down", "load"} /\ pJob' = "none" /\ pFetched' \in 0..MaxVersion
           /\ pEnforced' \subseteq pEnforced
<1>1. /\ pState \in [version : 0..MaxVersion, healthy : BOOLEAN, since : 0..MaxTime]
      /\ pMeta.version \in 0..MaxVersion /\ pMeta.at \in 0..MaxTime
      /\ pDir.mtime \in 0..MaxTime /\ pFetched \in 0..MaxVersion /\ 0 \in 0..MaxVersion
    BY ControlAssumption DEF PolicyTypes, Policy!TypeOK, Policy!Folder, Policy!Version
<1>2. CASE pState' = pState
    BY <1>1, <1>2, FallBackState
<1>3. CASE pState' # pState
    <2> DEFINE s == IF pMeta.version # 0 THEN pMeta.at ELSE pDir.mtime
    <2>1. s \in 0..MaxTime
        BY <1>1
    <2>2. pState' = [version |-> pMeta.version, healthy |-> TRUE, since |-> s]
        BY <1>3, FallBackState
    <2> HIDE DEF s
    <2>3. pState' \in [version : 0..MaxVersion, healthy : BOOLEAN, since : 0..MaxTime]
        BY <1>1, <2>1, <2>2
    <2> QED BY <1>1, <1>3, <2>3, FallBackState
<1> QED BY <1>2, <1>3

(* A set that loads is of one revision, which is then the newest enforced. *)
LEMMA LoadedVersion ==
    ASSUME PolicyTypes, PolicyVersions, Policy!Load
    PROVE  \/ /\ pPhase' = "down" /\ pJob' = "none" /\ pFetched' = 0 /\ pEnforced' = {}
              /\ pHigh' = pHigh
           \/ /\ pPhase' = "run" /\ pEnforced' = pDir.files /\ pJob' = pJob
              /\ pFetched' = pFetched /\ pHigh' \in Policy!Version
              /\ pHigh' = pHigh \/ \E f \in pDir.files : f[1] = pHigh'
              /\ \A f \in pDir.files : f[1] = pHigh'
<1>1. CASE \E f \in pDir.files : f[1] \in Bad
    BY <1>1 DEF Policy!Load, Policy!Exit
<1>2. CASE ~\E f \in pDir.files : f[1] \in Bad
    <2> DEFINE Top(v) == /\ v = pHigh \/ \E f \in pDir.files : f[1] = v
                         /\ v >= pHigh /\ \A f \in pDir.files : v >= f[1]
    <2>1. /\ pPhase' = "run" /\ pEnforced' = pDir.files /\ pJob' = pJob
          /\ pFetched' = pFetched /\ pHigh' = CHOOSE v \in Policy!Version : Top(v)
        BY <1>2 DEF Policy!Load
    <2>2. /\ \A f \in pDir.files : f[1] \in Policy!Version /\ f[1] >= pHigh
          /\ \A f, g \in pDir.files : f[1] = g[1]
          /\ pHigh \in Policy!Version /\ \A v \in Policy!Version : v \in Nat
        BY ControlAssumption
        DEF PolicyTypes, PolicyVersions, Policy!TypeOK, Policy!Folder, Policy!Version
    <2>3. \E v \in Policy!Version : Top(v)
        <3>1. CASE pDir.files = {}
            BY <2>2, <3>1
        <3>2. ASSUME NEW f \in pDir.files PROVE \E v \in Policy!Version : Top(v)
            <4>1. f[1] \in Nat /\ pHigh \in Nat /\ f[1] >= pHigh
                BY <2>2
            <4>2. \A g \in pDir.files : f[1] >= g[1]
                BY <2>2, <4>1
            <4>3. f[1] \in Policy!Version /\ Top(f[1])
                BY <2>2, <4>1, <4>2
            <4> QED BY <4>3
        <3> QED BY <3>1, <3>2
    <2>4. pHigh' \in Policy!Version /\ Top(pHigh')
        <3> HIDE DEF Top
        <3> QED BY <2>1, <2>3
    <2>5. \A f \in pDir.files : f[1] = pHigh'
        <3>1. pHigh' \in Nat /\ pHigh \in Nat /\ \A f \in pDir.files : f[1] \in Nat
            BY <2>2, <2>4
        <3> QED BY <2>2, <2>4, <3>1
    <2> QED BY <2>1, <2>4, <2>5
<1> QED BY <1>1, <1>2

(* Every step of bootstrap_policy, the poll and cache_policy keeps the     *)
(* types.                                                                  *)
LEMMA PolicyTypeStep ==
    ASSUME PolicyTypes, PolicyVersions, Policy!Next
    PROVE  PolicyTypes'
<1> USE ControlAssumption DEF PolicyTypes, Policy!TypeOK, Policy!Version, Policy!Folder,
    Policy!disk, Policy!control, Policy!history
<1>1. CASE Policy!Publish
    BY <1>1 DEF Policy!Publish
<1>2. CASE Policy!Reach
    BY <1>2 DEF Policy!Reach
<1>3. CASE Policy!Tick
    BY <1>3 DEF Policy!Tick
<1>4. CASE Policy!Crash
    BY <1>4 DEF Policy!Crash, Policy!Exit
<1>5. CASE Policy!CacheFails
    <2>1. CASE pPhase = "boot"
        <3>1. /\ pState' \in [version : 0..MaxVersion, healthy : BOOLEAN, since : 0..MaxTime]
              /\ pPhase' \in {"down", "load"} /\ pJob' = "none" /\ pFetched' \in 0..MaxVersion
              /\ pEnforced' \subseteq pEnforced
            <4>1. Policy!FallBack
                BY <1>5, <2>1 DEF Policy!CacheFails
            <4> HIDE DEF PolicyTypes
            <4> QED BY <4>1, FallBackTypes
        <3> QED BY <1>5, <3>1 DEF Policy!CacheFails
    <2>2. CASE pPhase # "boot"
        <3>1. pState' \in [version : 0..MaxVersion, healthy : BOOLEAN, since : 0..MaxTime]
            BY <1>5, <2>2 DEF Policy!CacheFails
        <3> QED BY <1>5, <2>2, <3>1 DEF Policy!CacheFails
    <2> QED BY <2>1, <2>2
<1>6. CASE Policy!Heartbeat
    BY <1>6 DEF Policy!Heartbeat, Policy!Beat, Policy!Fresh
<1>7. CASE Policy!Start
    BY <1>7 DEF Policy!Start
<1>8. CASE Policy!Pulled
    BY <1>8 DEF Policy!Pulled
<1>9. CASE Policy!NothingPublished
    BY <1>9 DEF Policy!NothingPublished, Policy!Exit
<1>10. CASE Policy!Unreachable
    <2>1. /\ pState' \in [version : 0..MaxVersion, healthy : BOOLEAN, since : 0..MaxTime]
          /\ pPhase' \in {"down", "load"} /\ pJob' = "none" /\ pFetched' \in 0..MaxVersion
          /\ pEnforced' \subseteq pEnforced
        <3>1. Policy!FallBack
            BY <1>10 DEF Policy!Unreachable
        <3> HIDE DEF PolicyTypes
        <3> QED BY <3>1, FallBackTypes
    <2> QED BY <1>10, <2>1 DEF Policy!Unreachable
<1>11. CASE Policy!Load
    BY <1>11, LoadedVersion DEF Policy!Load
<1>12. CASE Policy!ClearStaging
    BY <1>12 DEF Policy!ClearStaging
<1>13. ASSUME NEW d \in Docs, Policy!WriteDoc(d) PROVE PolicyTypes'
    BY <1>13 DEF Policy!WriteDoc
<1>14. ASSUME NEW f \in pDir.files, Policy!RemoveOld(f) PROVE PolicyTypes'
    BY <1>14 DEF Policy!RemoveOld
<1>15. CASE Policy!Swap
    BY <1>15 DEF Policy!Swap, Policy!Empty
<1>16. CASE Policy!WriteMeta
    <2>1. pMeta' \in [version : 0..MaxVersion, at : 0..MaxTime]
        BY <1>16 DEF Policy!WriteMeta
    <2> QED BY <1>16, <2>1 DEF Policy!WriteMeta
<1>17. CASE Policy!PullDone
    BY <1>17 DEF Policy!PullDone, Policy!NewState
<1>18. CASE Policy!PollUnchanged
    BY <1>18 DEF Policy!PollUnchanged, Policy!MarkContact
<1>19. CASE Policy!PollUpdated
    BY <1>19 DEF Policy!PollUpdated
<1>20. CASE Policy!Apply
    <2>1. pState' \in [version : 0..MaxVersion, healthy : BOOLEAN, since : 0..MaxTime]
        <3>1. \E v \in 0..MaxVersion : pState' = [version |-> v, healthy |-> TRUE, since |-> pNow]
            <4>1. CASE pFetched \in Bad
                BY <1>20, <4>1 DEF Policy!Apply, Policy!MarkContact
            <4>2. CASE pFetched \notin Bad
                BY <1>20, <4>2 DEF Policy!Apply, Policy!MarkContact
            <4> QED BY <4>1, <4>2
        <3> QED BY <3>1
    <2>2. /\ pEnforced' \subseteq (1..MaxVersion) \X Docs /\ pHigh' \in 0..MaxVersion
        <3>1. CASE pFetched \in Bad
            BY <1>20, <3>1 DEF Policy!Apply
        <3>2. CASE pFetched \notin Bad
            <4>1. pFetched \in 1..MaxVersion
                BY <1>20 DEF Policy!Apply
            <4> QED BY <1>20, <3>2, <4>1 DEF Policy!Apply, Policy!Revision
        <3> QED BY <3>1, <3>2
    <2> QED BY <1>20, <2>1, <2>2 DEF Policy!Apply
<1>21. CASE Policy!PollFails
    BY <1>21 DEF Policy!PollFails
<1>22. CASE Policy!BackedOff
    BY <1>22 DEF Policy!BackedOff
<1> QED BY <1>1, <1>2, <1>3, <1>4, <1>5, <1>6, <1>7, <1>8, <1>9, <1>10, 
           <1>11, <1>12, <1>13, <1>14, <1>15, <1>16, <1>17, <1>18, <1>19, 
           <1>20, <1>21, <1>22
        DEF Policy!Next, Policy!Gateway, Policy!Cache

(* A poll that is answered moves the contact, and what is read from the    *)
(* cache is as old as what was written there.                              *)
LEMMA PolicyTimeStep ==
    ASSUME PolicyTypes, PolicyTimes, Policy!Next
    PROVE  PolicyTimes'
<1>0. /\ pNow \in Nat /\ pContact \in Nat /\ pState.since \in Nat /\ pMeta.at \in Nat
      /\ pDir.mtime \in Nat /\ pStaging.mtime \in Nat
      /\ pState = [version |-> pState.version, healthy |-> pState.healthy, since |-> pState.since]
    BY ControlAssumption DEF PolicyTypes, Policy!TypeOK, Policy!Folder
<1> USE DEF PolicyTimes, Policy!disk, Policy!control, Policy!history
<1>1. CASE Policy!Publish
    BY <1>1, <1>0 DEF Policy!Publish
<1>2. CASE Policy!Reach
    BY <1>2, <1>0 DEF Policy!Reach
<1>3. CASE Policy!Tick
    BY <1>3, <1>0 DEF Policy!Tick
<1>4. CASE Policy!Crash
    BY <1>4, <1>0 DEF Policy!Crash, Policy!Exit
<1>5. CASE Policy!CacheFails
    BY <1>5, <1>0 DEF Policy!CacheFails, Policy!FallBack, Policy!Exit, Policy!NewState
<1>6. CASE Policy!Heartbeat
    BY <1>6, <1>0 DEF Policy!Heartbeat, Policy!Beat, Policy!Fresh
<1>7. CASE Policy!Start
    BY <1>7, <1>0 DEF Policy!Start
<1>8. CASE Policy!Pulled
    BY <1>8, <1>0 DEF Policy!Pulled
<1>9. CASE Policy!NothingPublished
    BY <1>9, <1>0 DEF Policy!NothingPublished, Policy!Exit
<1>10. CASE Policy!Unreachable
    BY <1>10, <1>0 DEF Policy!Unreachable, Policy!FallBack, Policy!Exit, Policy!NewState
<1>11. CASE Policy!Load
    BY <1>11, <1>0 DEF Policy!Load, Policy!Exit
<1>12. CASE Policy!ClearStaging
    BY <1>12, <1>0 DEF Policy!ClearStaging
<1>13. ASSUME NEW d \in Docs, Policy!WriteDoc(d) PROVE PolicyTimes'
    BY <1>13, <1>0 DEF Policy!WriteDoc
<1>14. ASSUME NEW f \in pDir.files, Policy!RemoveOld(f) PROVE PolicyTimes'
    BY <1>14, <1>0 DEF Policy!RemoveOld
<1>15. CASE Policy!Swap
    BY <1>15, <1>0 DEF Policy!Swap, Policy!Empty
<1>16. CASE Policy!WriteMeta
    BY <1>16, <1>0 DEF Policy!WriteMeta
<1>17. CASE Policy!PullDone
    BY <1>17, <1>0 DEF Policy!PullDone, Policy!NewState
<1>18. CASE Policy!PollUnchanged
    BY <1>18, <1>0 DEF Policy!PollUnchanged, Policy!MarkContact
<1>19. CASE Policy!PollUpdated
    BY <1>19, <1>0 DEF Policy!PollUpdated
<1>20. CASE Policy!Apply
    BY <1>20, <1>0 DEF Policy!Apply, Policy!MarkContact, Policy!Revision
<1>21. CASE Policy!PollFails
    BY <1>21, <1>0 DEF Policy!PollFails
<1>22. CASE Policy!BackedOff
    BY <1>22, <1>0 DEF Policy!BackedOff
<1> QED BY <1>1, <1>2, <1>3, <1>4, <1>5, <1>6, <1>7, <1>8, <1>9, <1>10, 
           <1>11, <1>12, <1>13, <1>14, <1>15, <1>16, <1>17, <1>18, <1>19, 
           <1>20, <1>21, <1>22
        DEF Policy!Next, Policy!Gateway, Policy!Cache

(* Only a newer revision replaces what is cached, and it is cached before  *)
(* it is enforced.                                                         *)
LEMMA PolicyVersionStep ==
    ASSUME PolicyTypes, PolicyVersions, Policy!Next
    PROVE  PolicyVersions'
<1>0. /\ pPublished \in Nat /\ pFetched \in Nat /\ pHigh \in Nat /\ pMeta.version \in Nat
      /\ pState.version \in Nat /\ (pJob # "none" => pFetched > 0)
      /\ \A f \in pDir.files \cup pStaging.files \cup pEnforced : f[1] \in Nat
      /\ pState = [version |-> pState.version, healthy |-> pState.healthy, since |-> pState.since]
    BY ControlAssumption DEF PolicyTypes, Policy!TypeOK, Policy!Folder, Policy!Version
<1> USE DEF PolicyVersions, Policy!NeverClaimsNewer, Policy!NoRollback, Policy!Running,
            Policy!disk, Policy!control, Policy!history
<1>1. CASE Policy!Publish
    BY <1>1, <1>0 DEF Policy!Publish
<1>2. CASE Policy!Reach
    BY <1>2, <1>0 DEF Policy!Reach
<1>3. CASE Policy!Tick
    BY <1>3, <1>0 DEF Policy!Tick
<1>4. CASE Policy!Crash
    BY <1>4, <1>0 DEF Policy!Crash, Policy!Exit
<1>5. CASE Policy!CacheFails
    BY <1>5, <1>0 DEF Policy!CacheFails, Policy!FallBack, Policy!Exit, Policy!NewState
<1>6. CASE Policy!Heartbeat
    BY <1>6, <1>0 DEF Policy!Heartbeat, Policy!Beat, Policy!Fresh
<1>7. CASE Policy!Start
    BY <1>7, <1>0 DEF Policy!Start
<1>8. CASE Policy!Pulled
    BY <1>8, <1>0 DEF Policy!Pulled
<1>9. CASE Policy!NothingPublished
    BY <1>9, <1>0 DEF Policy!NothingPublished, Policy!Exit
<1>10. CASE Policy!Unreachable
    BY <1>10, <1>0 DEF Policy!Unreachable, Policy!FallBack, Policy!Exit, Policy!NewState
<1>11. CASE Policy!Load
    <2> HIDE DEF PolicyVersions
    <2>1. UNCHANGED <<pPublished, pMeta, pDir, pStaging, pState>> /\ pPhase = "load"
        BY <1>11 DEF Policy!Load
    <2> QED BY <1>11, <2>1, <1>0, LoadedVersion DEF PolicyVersions, Policy!Version
<1>12. CASE Policy!ClearStaging
    BY <1>12, <1>0 DEF Policy!ClearStaging
<1>13. ASSUME NEW d \in Docs, Policy!WriteDoc(d) PROVE PolicyVersions'
    BY <1>13, <1>0 DEF Policy!WriteDoc
<1>14. ASSUME NEW f \in pDir.files, Policy!RemoveOld(f) PROVE PolicyVersions'
    BY <1>14, <1>0 DEF Policy!RemoveOld
<1>15. CASE Policy!Swap
    BY <1>15, <1>0 DEF Policy!Swap, Policy!Empty
<1>16. CASE Policy!WriteMeta
    BY <1>16, <1>0 DEF Policy!WriteMeta
<1>17. CASE Policy!PullDone
    BY <1>17, <1>0 DEF Policy!PullDone, Policy!NewState
<1>18. CASE Policy!PollUnchanged
    BY <1>18, <1>0 DEF Policy!PollUnchanged, Policy!MarkContact
<1>19. CASE Policy!PollUpdated
    BY <1>19, <1>0 DEF Policy!PollUpdated
<1>20. CASE Policy!Apply
    BY <1>20, <1>0 DEF Policy!Apply, Policy!MarkContact, Policy!Revision
<1>21. CASE Policy!PollFails
    BY <1>21, <1>0 DEF Policy!PollFails
<1>22. CASE Policy!BackedOff
    BY <1>22, <1>0 DEF Policy!BackedOff
<1> QED BY <1>1, <1>2, <1>3, <1>4, <1>5, <1>6, <1>7, <1>8, <1>9, <1>10, 
           <1>11, <1>12, <1>13, <1>14, <1>15, <1>16, <1>17, <1>18, <1>19, 
           <1>20, <1>21, <1>22
        DEF Policy!Next, Policy!Gateway, Policy!Cache

PolicyIInv == PolicyTypes /\ PolicyTimes /\ PolicyVersions

(* The three together, at the start and along the steps of all the tasks.  *)
LEMMA PolicyKept ==
    /\ MCInit => PolicyIInv
    /\ PolicyIInv /\ [MCNext]_allVars => PolicyIInv'
<1>1. MCInit => PolicyIInv
    <2> SUFFICES ASSUME Policy!Init PROVE PolicyIInv
        BY DEF MCInit
    <2> USE ControlAssumption DEF Policy!Init, Policy!Empty
    <2>1. PolicyTypes
        BY DEF PolicyTypes, Policy!TypeOK, Policy!Version, Policy!Folder
    <2>2. PolicyTimes
        BY DEF PolicyTimes
    <2>3. PolicyVersions
        BY DEF PolicyVersions, Policy!NeverClaimsNewer, Policy!NoRollback, Policy!Running
    <2> QED BY <2>1, <2>2, <2>3 DEF PolicyIInv
<1>2. ASSUME PolicyIInv, [MCNext]_allVars PROVE PolicyIInv'
    <2>1. CASE OnPolicy(Policy!Next)
        BY <1>2, <2>1, PolicyTypeStep, PolicyTimeStep, PolicyVersionStep
        DEF OnPolicy, PolicyIInv
    <2>2. CASE UNCHANGED policyVars
        BY <1>2, <2>2, Zenon
        DEF policyVars, PolicyIInv, PolicyTypes, PolicyTimes, PolicyVersions, Policy!TypeOK,
            Policy!NeverClaimsNewer, Policy!NoRollback, Policy!Running
    <2> QED BY <1>2, <2>1, <2>2
            DEF MCNext, allVars, OnRevocations, OnAudit, OnTrail, OnBeats, OnReload, OnDeploy
<1> QED BY <1>1, <1>2

(* PolicySync and cache_policy, for any number of revisions, crashes and   *)
(* failed writes: the version a gateway claims is never newer than what it *)
(* enforces, and nothing older than what it enforced comes back.           *)
THEOREM PolicyNeverGoesBack == MCSpec => []PolicyInv
<1>1. PolicyIInv => PolicyInv
    BY DEF PolicyIInv, PolicyTypes, PolicyVersions, PolicyInv, Policy!PolicyInv
<1> QED BY <1>1, PolicyKept, PTL DEF MCSpec

(***************************************************************************)
(* The heartbeats.                                                         *)
(***************************************************************************)

(* What a platform gateway takes for its last contact is no later than it. *)
BeatTimes ==
    /\ bNow \in Nat /\ bContact \in Nat /\ bCache.at \in Nat
    /\ bSync \in [healthy : BOOLEAN, since : Nat]
    /\ bSync.since <= bContact /\ bCache.at <= bContact /\ bContact <= bNow

(* bootstrap_platform, the sync loop and the heartbeat keep that order.    *)
LEMMA BeatTimesKept ==
    /\ MCInit => BeatTimes
    /\ BeatTimes /\ [MCNext]_allVars => BeatTimes'
<1>1. MCInit => BeatTimes
    BY DEF MCInit, Platform!HInit, BeatTimes
<1>2. ASSUME BeatTimes, [MCNext]_allVars PROVE BeatTimes'
    <2> USE DEF BeatTimes
    <2>1. CASE OnBeats(Platform!HNext)
        <3>1. CASE Platform!Fetched
            BY <1>2, <3>1 DEF Platform!Fetched, Platform!WriteCache
        <3>2. CASE Platform!Cached
            BY <1>2, <3>2 DEF Platform!Cached, Platform!SyncState
        <3>3. CASE Platform!PollAnswered
            BY <1>2, <3>3 DEF Platform!PollAnswered, Platform!WriteCache
        <3>4. CASE Platform!PollFails
            BY <1>2, <3>4 DEF Platform!PollFails
        <3>7. CASE Platform!Tick
            BY <1>2, <3>7 DEF Platform!Tick
        <3>5. CASE Platform!Publish \/ Platform!Reach \/ Platform!Dies \/ Platform!Heartbeat
            BY <1>2, <3>5 DEF Platform!Publish, Platform!Reach, Platform!Dies, Platform!Heartbeat
        <3>6. ASSUME NEW o \in Metered,
                     Platform!Open(o) \/ Platform!Relay(o) \/ Platform!Close(o)
              PROVE  BeatTimes'
            BY <1>2, <3>6 DEF Platform!Open, Platform!Relay, Platform!Close
        <3> QED BY <2>1, <3>1, <3>2, <3>3, <3>4, <3>5, <3>6, <3>7
                DEF OnBeats, Platform!HNext, Platform!Gateway
    <2>2. CASE UNCHANGED beatVars
        BY <1>2, <2>2 DEF beatVars
    <2> QED BY <1>2, <2>1, <2>2
            DEF MCNext, allVars, platformVars,
                OnRevocations, OnPolicy, OnAudit, OnTrail, OnReload, OnDeploy
<1> QED BY <1>1, <1>2

(* What run_control_plane_heartbeat and run_platform_heartbeat report, for *)
(* any lease and whatever the gateway was restarted from: "online" only    *)
(* while the last answered poll is younger than the lease.                 *)
THEOREM OnlineIsInContact == MCSpec => OnlineMeansInContact
<1> DEFINE A == /\ pBeat' # pBeat /\ pBeat'.online => pNow - pContact < PolicyLease
                /\ bBeat' # bBeat /\ bBeat'.online =>
                     bSync.healthy /\ bNow - bContact < PolicyLease
<1>1. ASSUME PolicyIInv, BeatTimes, [MCNext]_allVars PROVE [A]_<<policyVars, beatVars>>
    <2>1. CASE OnPolicy(Policy!Next)
        <3>1. bBeat' = bBeat
            BY <2>1 DEF OnPolicy, platformVars, beatVars
        <3>2. pNow \in Nat /\ pContact \in Nat /\ pState.since \in Nat /\ pState.since <= pContact
            BY <1>1, ControlAssumption DEF PolicyIInv, PolicyTypes, PolicyTimes, Policy!TypeOK
        <3>3. pBeat' # pBeat => pBeat' = Policy!Beat
            BY <2>1 DEF OnPolicy, Policy!Next, Policy!Gateway, Policy!Cache, Policy!Publish,
                Policy!Reach, Policy!Tick, Policy!Crash, Policy!CacheFails, Policy!Heartbeat,
                Policy!Start, Policy!Pulled, Policy!NothingPublished, Policy!Unreachable,
                Policy!Load, Policy!ClearStaging, Policy!WriteDoc, Policy!RemoveOld,
                Policy!Swap, Policy!WriteMeta, Policy!PullDone, Policy!PollUnchanged,
                Policy!PollUpdated, Policy!Apply, Policy!PollFails, Policy!BackedOff
        <3>4. Policy!Beat.online => pNow - pState.since < PolicyLease
            BY DEF Policy!Beat, Policy!Fresh
        <3>5. Policy!Beat.online => pNow - pContact < PolicyLease
            BY <3>2, <3>4, ControlAssumption
        <3> QED BY <3>1, <3>3, <3>5
    <2>2. CASE OnBeats(Platform!HNext)
        <3>1. pBeat' = pBeat
            BY <2>2 DEF OnBeats, policyVars
        <3>2. bBeat' # bBeat => bBeat' = Platform!Request
            BY <2>2 DEF OnBeats, Platform!HNext, Platform!Gateway, Platform!Publish,
                Platform!Reach, Platform!Tick, Platform!Dies, Platform!Fetched,
                Platform!Cached, Platform!PollAnswered, Platform!PollFails,
                Platform!Heartbeat, Platform!Open, Platform!Relay, Platform!Close
        <3>3. Platform!Request.online => bSync.healthy /\ bNow - bSync.since < PolicyLease
            BY <1>1 DEF Platform!Request, Platform!Fresh, BeatTimes
        <3>4. Platform!Request.online => bNow - bContact < PolicyLease
            BY <1>1, <3>3, ControlAssumption DEF BeatTimes
        <3> QED BY <3>1, <3>2, <3>3, <3>4
    <2>3. CASE UNCHANGED <<policyVars, beatVars>>
        BY <2>3
    <2> QED BY <1>1, <2>1, <2>2, <2>3
            DEF MCNext, allVars, platformVars,
                OnRevocations, OnAudit, OnTrail, OnReload, OnDeploy
<1> QED BY <1>1, PolicyKept, BeatTimesKept, PTL DEF MCSpec, OnlineMeansInContact
====
