----------------------------- MODULE PolicySync ----------------------------
(***************************************************************************)
(* A gateway's copy of its organisation's policy: the bootstrap pull, the  *)
(* long-poll loop (run_control_plane_sync), the cache that cache_policy    *)
(* writes one file at a time, the load at startup, and the heartbeat.  The *)
(* process may crash between any two file operations, a file operation may *)
(* fail, and the control plane may be out of reach at any time.            *)
(*                                                                         *)
(* A revision is a version number; its file d is the pair <<version, d>>.  *)
(***************************************************************************)
EXTENDS Integers, FiniteSets

CONSTANTS Docs,         \* the documents of a revision
          MaxVersion,   \* bound: revisions the organisation publishes
          Bad,          \* versions whose documents do not parse
          PolicyLease,  \* --control-plane-policy-lease
          MaxTime,      \* bound: clock ticks
          MaxFaults     \* bound: crashes and failed file operations

VARIABLES published,  \* the control plane's current version; 0: none yet
          reach,      \* the control plane can be reached
          staging,    \* .policies.new
          dir,        \* policies/
          meta,       \* policy-cache.json; version 0: missing or torn
          phase,      \* down, boot, load, run or backoff
          job,        \* the step of cache_policy under way, or none
          fetched,    \* the version it is writing
          enforced,   \* the PolicyHandle: the files of the set in force
          state,      \* SyncState: version (0: None), healthy, since
          beat,       \* the last heartbeat
          now, faults,
          contact,    \* history: when a poll was last answered
          high        \* history: the newest version ever in force

vars == <<published, reach, staging, dir, meta, phase, job, fetched, enforced,
          state, beat, now, faults, contact, high>>
disk == <<staging, dir, meta>>
control == <<published, reach>>
history == <<now, faults, contact, high>>

Version == 0..MaxVersion
Revision(v) == {v} \X Docs
Folder == [files : SUBSET ((1..MaxVersion) \X Docs), mtime : 0..MaxTime]
Empty == [files |-> {}, mtime |-> 0]

Init ==
    /\ published = 0 /\ reach = TRUE
    /\ staging = Empty /\ dir = Empty /\ meta = [version |-> 0, at |-> 0]
    /\ phase = "down" /\ job = "none" /\ fetched = 0 /\ enforced = {}
    /\ state = [version |-> 0, healthy |-> TRUE, since |-> 0]
    /\ beat = [online |-> FALSE, version |-> 0]
    /\ now = 0 /\ faults = 0 /\ contact = 0 /\ high = 0

(***************************************************************************)
(* The control plane, the network and the clock.                           *)
(***************************************************************************)
Publish ==
    /\ published < MaxVersion
    /\ published' = published + 1
    /\ UNCHANGED <<reach, disk, phase, job, fetched, enforced, state, beat, history>>

Reach ==
    /\ reach' = ~reach
    /\ UNCHANGED <<published, disk, phase, job, fetched, enforced, state, beat, history>>

\* File operations take no time on the scale of the lease.
Tick ==
    /\ now < MaxTime /\ job = "none"
    /\ now' = now + 1
    /\ UNCHANGED <<control, disk, phase, job, fetched, enforced, state, beat,
                   faults, contact, high>>

(***************************************************************************)
(* Crash and restart.                                                      *)
(***************************************************************************)
Exit ==
    /\ phase' = "down" /\ job' = "none" /\ fetched' = 0 /\ enforced' = {}

Crash ==
    /\ phase # "down" /\ faults < MaxFaults
    /\ faults' = faults + 1
    /\ Exit
    /\ UNCHANGED <<control, disk, state, beat, now, contact, high>>

Start ==
    /\ phase = "down"
    /\ phase' = "boot"
    /\ UNCHANGED <<control, disk, job, fetched, enforced, state, beat, history>>

(***************************************************************************)
(* bootstrap_control_plane: pull with no known version; when that fails,   *)
(* fall back on the cache, and take its version and its age from it.       *)
(***************************************************************************)
Pulled ==
    /\ phase = "boot" /\ job = "none" /\ reach /\ published > 0
    /\ job' = "clear" /\ fetched' = published /\ contact' = now
    /\ UNCHANGED <<control, disk, phase, enforced, state, beat, now, faults, high>>

NothingPublished ==
    /\ phase = "boot" /\ job = "none" /\ reach /\ published = 0
    /\ Exit
    /\ UNCHANGED <<control, disk, state, beat, history>>

\* Mutant: the age clock restarts from zero.
NewState_AgeForgotten(version, since) ==
    state' = [version |-> version, healthy |-> TRUE, since |-> now]

\* SyncState::new.
NewState(version, since) ==
    state' = [version |-> version, healthy |-> TRUE, since |-> since]

\* cached_policy_age: the metadata, else the directory's modification time.
FallBack ==
    /\ IF dir.files = {} THEN Exit /\ UNCHANGED state
       ELSE /\ phase' = "load" /\ job' = "none"
            /\ NewState(meta.version, IF meta.version # 0 THEN meta.at ELSE dir.mtime)
            /\ UNCHANGED <<fetched, enforced>>

Unreachable ==
    /\ phase = "boot" /\ job = "none" /\ ~reach
    /\ FallBack
    /\ UNCHANGED <<control, disk, beat, history>>

\* load_policy_layer reads the cache directory; a set that does not parse
\* ends the process.
Load ==
    /\ phase = "load"
    /\ IF \E f \in dir.files : f[1] \in Bad
       THEN Exit /\ UNCHANGED high
       ELSE /\ phase' = "run" /\ enforced' = dir.files
            /\ high' = CHOOSE v \in Version :
                          /\ v = high \/ \E f \in dir.files : f[1] = v
                          /\ v >= high /\ \A f \in dir.files : v >= f[1]
            /\ UNCHANGED <<job, fetched>>
    /\ UNCHANGED <<control, disk, state, beat, now, faults, contact>>

(***************************************************************************)
(* cache_policy.                                                           *)
(***************************************************************************)
ClearStaging ==
    /\ job = "clear"
    /\ staging' = [files |-> {}, mtime |-> now]
    /\ job' = "write"
    /\ UNCHANGED <<control, dir, meta, phase, fetched, enforced, state, beat, history>>

WriteDoc(d) ==
    /\ job = "write" /\ <<fetched, d>> \notin staging.files
    /\ staging' = [files |-> staging.files \cup {<<fetched, d>>}, mtime |-> now]
    /\ job' = IF staging'.files = Revision(fetched) THEN "remove" ELSE "write"
    /\ UNCHANGED <<control, dir, meta, phase, fetched, enforced, state, beat, history>>

\* remove_dir_all takes the old set away file by file.
RemoveOld(f) ==
    /\ job = "remove" /\ f \in dir.files
    /\ dir' = [files |-> dir.files \ {f}, mtime |-> now]
    /\ UNCHANGED <<control, staging, meta, phase, job, fetched, enforced, state,
                   beat, history>>

Swap ==
    /\ job = "remove" /\ dir.files = {}
    /\ dir' = staging /\ staging' = Empty
    /\ job' = "meta"
    /\ UNCHANGED <<control, meta, phase, fetched, enforced, state, beat, history>>

\* Best effort: the write may fail, or stop half-way.
WriteMeta ==
    /\ job = "meta"
    /\ \/ meta' = [version |-> fetched, at |-> now] /\ UNCHANGED faults
       \/ /\ faults < MaxFaults /\ faults' = faults + 1
          /\ meta' \in {meta, [version |-> 0, at |-> 0]}
    /\ job' = "done"
    /\ UNCHANGED <<control, staging, dir, phase, fetched, enforced, state, beat,
                   now, contact, high>>

\* Mutant: a cache that cannot be written does not fail the poll.
CacheFails_Ignored ==
    /\ job \in {"clear", "write", "remove"} /\ faults < MaxFaults
    /\ faults' = faults + 1
    /\ IF phase = "boot" THEN FallBack
       ELSE job' = "done" /\ UNCHANGED <<phase, fetched, enforced, state>>
    /\ UNCHANGED <<control, disk, beat, now, contact, high>>

\* A file operation of the cache fails, and so does the fetch.  The removal
\* may stop anywhere, and its error shows as a rename onto a full directory.
CacheFails ==
    /\ job \in {"clear", "write", "remove"} /\ faults < MaxFaults
    /\ faults' = faults + 1
    /\ IF phase = "boot" THEN FallBack
       ELSE /\ phase' = "backoff" /\ job' = "none"
            /\ state' = [state EXCEPT !.healthy = FALSE]
            /\ UNCHANGED <<fetched, enforced>>
    /\ UNCHANGED <<control, disk, beat, now, contact, high>>

PullDone ==
    /\ phase = "boot" /\ job = "done"
    /\ phase' = "load" /\ job' = "none"
    /\ NewState(fetched, now)
    /\ UNCHANGED <<control, disk, fetched, enforced, beat, history>>

(***************************************************************************)
(* run_control_plane_sync.                                                 *)
(***************************************************************************)
MarkContact(version) ==
    state' = [version |-> version, healthy |-> TRUE, since |-> now]

PollUnchanged ==
    /\ phase = "run" /\ job = "none" /\ reach
    /\ published \in {0, state.version}
    /\ MarkContact(state.version) /\ contact' = now
    /\ UNCHANGED <<control, disk, phase, job, fetched, enforced, beat, now, faults, high>>

\* Mutant: the poll asks for what follows the revision fetched last, applied
\* or not.
PollUpdated_AfterFetched ==
    /\ phase = "run" /\ job = "none" /\ reach
    /\ published \notin {0, state.version, fetched}
    /\ job' = "clear" /\ fetched' = published /\ contact' = now
    /\ UNCHANGED <<control, disk, phase, enforced, state, beat, now, faults, high>>

PollUpdated ==
    /\ phase = "run" /\ job = "none" /\ reach
    /\ published \notin {0, state.version}
    /\ job' = "clear" /\ fetched' = published /\ contact' = now
    /\ UNCHANGED <<control, disk, phase, enforced, state, beat, now, faults, high>>

Apply ==
    /\ phase = "run" /\ job = "done"
    /\ job' = "none"
    /\ IF fetched \in Bad
       THEN MarkContact(state.version) /\ UNCHANGED <<enforced, high>>
       ELSE /\ MarkContact(fetched)
            /\ enforced' = Revision(fetched)
            /\ high' = IF fetched > high THEN fetched ELSE high
    /\ UNCHANGED <<control, disk, phase, fetched, beat, now, faults, contact>>

PollFails ==
    /\ phase = "run" /\ job = "none" /\ ~reach
    /\ phase' = "backoff"
    /\ state' = [state EXCEPT !.healthy = FALSE]
    /\ UNCHANGED <<control, disk, job, fetched, enforced, beat, history>>

BackedOff ==
    /\ phase = "backoff"
    /\ phase' = "run"
    /\ UNCHANGED <<control, disk, job, fetched, enforced, state, beat, history>>

\* run_control_plane_heartbeat.
Fresh == now - state.since < PolicyLease

\* ControlPlane::heartbeat.
Beat == [online |-> state.healthy /\ Fresh, version |-> state.version]

Heartbeat ==
    /\ phase \in {"run", "backoff"} /\ reach
    /\ beat' = Beat
    /\ UNCHANGED <<control, disk, phase, job, fetched, enforced, state, history>>

Cache ==
    \/ ClearStaging \/ Swap \/ WriteMeta
    \/ \E d \in Docs : WriteDoc(d)
    \/ \E f \in dir.files : RemoveOld(f)

Gateway ==
    \/ Start \/ Pulled \/ NothingPublished \/ Unreachable \/ Load \/ Cache
    \/ PullDone \/ PollUnchanged \/ PollUpdated \/ Apply \/ PollFails \/ BackedOff

Next == Publish \/ Reach \/ Tick \/ Crash \/ CacheFails \/ Gateway \/ Heartbeat

Spec == Init /\ [][Next]_vars

\* The sync task runs, and a supervisor starts the process again.
FairSpec == Spec /\ WF_vars(Gateway)

-----------------------------------------------------------------------------
TypeOK ==
    /\ published \in Version /\ reach \in BOOLEAN
    /\ staging \in Folder /\ dir \in Folder
    /\ meta \in [version : Version, at : 0..MaxTime]
    /\ phase \in {"down", "boot", "load", "run", "backoff"}
    /\ job \in {"none", "clear", "write", "remove", "meta", "done"}
    /\ fetched \in Version /\ enforced \subseteq (1..MaxVersion) \X Docs
    /\ state \in [version : Version, healthy : BOOLEAN, since : 0..MaxTime]
    /\ beat \in [online : BOOLEAN, version : Version]
    /\ now \in 0..MaxTime /\ faults \in 0..MaxFaults
    /\ contact \in 0..MaxTime /\ high \in Version

Running == phase \in {"run", "backoff"}

\* The version a poll sends as If-None-Match, and a heartbeat reports, is
\* never newer than what is enforced: a "304" can hide no newer revision,
\* whatever crashed between the swap of the cache and its metadata.
NeverClaimsNewer == Running => \A f \in enforced : f[1] >= state.version

\* fetch_policy caches before the caller applies: no crash, failed write or
\* outage takes a gateway back to a revision older than one it enforced.
NoRollback == Running => \A f \in enforced : f[1] >= high

\* What a restart, an outage or a failed write can never do to the policy.
PolicyInv == TypeOK /\ NeverClaimsNewer /\ NoRollback

\* A heartbeat that says "online" comes from a gateway whose last answered
\* poll is younger than the policy lease, restarts included (CacheMeta).
OnlineMeansInContact ==
    [][beat' # beat /\ beat'.online => now - contact < PolicyLease]_vars

\* Once the control plane stays reachable, what is enforced comes from the
\* published revision, if that one loads.
UpToDate ==
    \/ published \in Bad \cup {0}
    \/ Running /\ enforced # {} /\ \A f \in enforced : f[1] = published
Converges == <>[]reach => <>[]UpToDate

\* cache_policy: "Write into a fresh temp dir and swap, so a crash mid-write
\* cannot leave a half-written policy set the next start would load."
WholeSetEnforced == Running => \E v \in 1..MaxVersion : enforced = Revision(v)
============================================================================
