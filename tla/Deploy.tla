------------------------------- MODULE Deploy -------------------------------
(***************************************************************************)
(* The release agent of a virtual machine (deploy/agent): a timer starts   *)
(* it, it reads which version is promoted, installs that version, restarts *)
(* the service, and trusts the version or rolls it back by the service's   *)
(* health.  Each write to the disk is a step of its own, since the agent   *)
(* can be killed between any two (systemd's start timeout, a reboot).      *)
(***************************************************************************)
EXTENDS Integers, Sequences, Functions

CONSTANTS
    Agents,        \* runs of the agent that may overlap: the timer's, an operator's
    Versions,
    Sound,         \* the versions that work
    KeepReleases,  \* KEEP_RELEASES
    MaxMoves,      \* bounds what operators change: channel, source, secrets, outside
    MaxPassFaults  \* bounds the steps of passes that fail and the passes cut short

ASSUME DeployAssumption == "none" \notin Agents \cup Versions

VARIABLES
    channel,     \* the promoted version, "none" or "invalid"
    source,      \* version -> what the release source holds of it
    vault,       \* the secrets that exist: the required "key", the optional "token"
    outside,     \* what the service needs from outside the machine is ready
    agent, lock,
    dir,         \* version -> its directory: "absent", "whole" or "torn"
    age,         \* the directories, the least recently changed first
    current, previous, verified, bad,   \* the link and the agent's state files
    secrets,     \* the secrets in the env file
    service,     \* what the service was last started as
    seen,        \* versions that answered a health probe (history)
    moves, passFaults, kills

machine == <<dir, age, current, previous, verified, bad, secrets>>
operators == <<channel, source, vault, outside, moves>>
deployVars == <<operators, agent, lock, machine, service, seen, passFaults, kills>>

Resting == [pc |-> "idle", version |-> "none", keep |-> {}]

DInit ==
    /\ channel \in Versions \cup {"none", "invalid"}
    /\ source \in [Versions -> {"good", "missing"}]
    /\ vault \in {{}, {"key"}, {"key", "token"}}
    /\ outside \in BOOLEAN
    /\ agent = [a \in Agents |-> Resting] /\ lock = "none"
    /\ dir = [v \in Versions |-> "absent"] /\ age = <<>>
    /\ current = "none" /\ previous = "none" /\ verified = "none" /\ bad = {}
    /\ secrets = {}
    /\ service = [release |-> "none", up |-> FALSE, registered |-> FALSE]
    /\ seen = {}
    /\ moves = 0 /\ passFaults = 0 /\ kills = 0

\* The service answers its health probe: it runs, it works, it has registered
\* with the control plane, and what it needs from outside is there.
Healthy ==
    service.up /\ service.release \in Sound /\ service.registered /\ outside

\* systemctl restart: the binary current names, with the secrets in the file.
\* A service that works registers once it is given its one-time token.
StartService ==
    LET up == current # "none" /\ dir[current] = "whole"
    IN  service' = [release |-> current, up |-> up,
                    registered |-> \/ service.registered
                                   \/ up /\ current \in Sound /\ "token" \in secrets]

Goto(a, pc) == agent' = [agent EXCEPT ![a].pc = pc]

\* The end of a pass: the process exits and its lock is released.
Exit(a) ==
    /\ agent' = [agent EXCEPT ![a] = Resting]
    /\ lock' = IF lock = a THEN "none" ELSE lock

\* The directories without that of v, and with it as the last one changed.
Without(v) ==
    IF v \notin Range(age) THEN age
    ELSE LET k == CHOOSE k \in DOMAIN age : age[k] = v
         IN  [i \in 1..(Len(age) - 1) |-> IF i < k THEN age[i] ELSE age[i + 1]]

Touched(v) == Append(Without(v), v)

-----------------------------------------------------------------------------
\* Mutant: a pass begins whether or not another is in progress.
Begin_NoLock(a) ==
    /\ agent[a].pc = "idle"
    /\ lock' = a
    /\ Goto(a, "read")
    /\ UNCHANGED <<operators, machine, service, seen, passFaults, kills>>

\* main: a pass that finds the lock taken ends at once.
Begin(a) ==
    /\ agent[a].pc = "idle" /\ lock = "none"
    /\ lock' = a
    /\ Goto(a, "read")
    /\ UNCHANGED <<operators, machine, service, seen, passFaults, kills>>

\* deploy reads the pointer, and decides by the link and the list of bad versions.
ReadPointer(a) ==
    /\ agent[a].pc = "read"
    /\ IF channel \notin Versions \/ (channel # current /\ channel \in bad)
       THEN Exit(a)
       ELSE /\ agent' = [agent EXCEPT ![a] =
                    [@ EXCEPT !.version = channel,
                              !.pc = IF channel = current THEN "resync" ELSE "fetch"]]
            /\ UNCHANGED lock
    /\ UNCHANGED <<operators, machine, service, seen, passFaults, kills>>

\* The binary and its checksum.
Fetch(a) ==
    /\ agent[a].pc = "fetch"
    /\ IF source[agent[a].version] = "good"
       THEN Goto(a, "sync") /\ UNCHANGED lock
       ELSE Exit(a)
    /\ UNCHANGED <<operators, machine, service, seen, passFaults, kills>>

\* sync_secrets before an install: without a required secret the pass ends here.
Sync(a) ==
    /\ agent[a].pc = "sync"
    /\ IF "key" \in vault
       THEN secrets' = vault /\ Goto(a, "install") /\ UNCHANGED lock
       ELSE Exit(a) /\ UNCHANGED secrets
    /\ UNCHANGED <<operators, dir, age, current, previous, verified, bad, service, seen,
                   passFaults, kills>>

\* Mutant: an installed version's secrets are synced once it is trusted.
Resync_TrustedOnly(a) ==
    /\ agent[a].pc = "resync"
    /\ IF verified # current
       THEN Goto(a, "health") /\ UNCHANGED <<lock, secrets>>
       ELSE IF "key" \in vault /\ vault # secrets
            THEN secrets' = vault /\ Goto(a, "refresh") /\ UNCHANGED lock
            ELSE Exit(a) /\ UNCHANGED secrets
    /\ UNCHANGED <<operators, dir, age, current, previous, verified, bad, service, seen,
                   passFaults, kills>>

\* The promoted version is installed: sync_secrets, and a restart if it changed
\* the file; a version that is not trusted yet is checked again.
Resync(a) ==
    /\ agent[a].pc = "resync"
    /\ IF "key" \in vault /\ (vault # secrets \/ verified # current)
       THEN /\ secrets' = vault
            /\ Goto(a, IF vault # secrets THEN "refresh" ELSE "health")
            /\ UNCHANGED lock
       ELSE Exit(a) /\ UNCHANGED secrets
    /\ UNCHANGED <<operators, dir, age, current, previous, verified, bad, service, seen,
                   passFaults, kills>>

Refresh(a) ==
    /\ agent[a].pc = "refresh"
    /\ StartService
    /\ IF verified # current THEN Goto(a, "health") /\ UNCHANGED lock ELSE Exit(a)
    /\ UNCHANGED <<operators, machine, seen, passFaults, kills>>

\* install_release: the new directory is staged, the old one of that version
\* removed, file first, and the staged one renamed.
InstallRelease(a) ==
    /\ agent[a].pc = "install"
    /\ LET v == agent[a].version
       IN  IF dir[v] = "absent"
           THEN UNCHANGED <<dir, age>>
           ELSE dir' = [dir EXCEPT ![v] = "torn"] /\ age' = Touched(v)
    /\ Goto(a, "rename")
    /\ UNCHANGED <<operators, lock, current, previous, verified, bad, secrets, service, seen,
                   passFaults, kills>>

Rename(a) ==
    /\ agent[a].pc = "rename"
    /\ dir' = [dir EXCEPT ![agent[a].version] = "whole"]
    /\ age' = Touched(agent[a].version)
    /\ Goto(a, "previous")
    /\ UNCHANGED <<operators, lock, current, previous, verified, bad, secrets, service, seen,
                   passFaults, kills>>

WritePrevious(a) ==
    /\ agent[a].pc = "previous"
    /\ previous' = current
    /\ Goto(a, "point")
    /\ UNCHANGED <<operators, lock, dir, age, current, verified, bad, secrets, service, seen,
                   passFaults, kills>>

\* point_current_at replaces the link in one step.
PointCurrentAt(a) ==
    /\ agent[a].pc = "point"
    /\ current' = agent[a].version
    /\ Goto(a, "restart")
    /\ UNCHANGED <<operators, lock, dir, age, previous, verified, bad, secrets, service, seen,
                   passFaults, kills>>

RestartService(a) ==
    /\ agent[a].pc = "restart"
    /\ StartService
    /\ Goto(a, "health")
    /\ UNCHANGED <<operators, lock, machine, seen, passFaults, kills>>

-----------------------------------------------------------------------------
\* verify_installed: wait_healthy probes the service until it answers or its
\* time is up.
WaitHealthy(a) ==
    /\ agent[a].pc = "health"
    /\ Goto(a, IF Healthy THEN "trust" ELSE "condemn")
    /\ seen' = IF Healthy THEN seen \cup {service.release} ELSE seen
    /\ UNCHANGED <<operators, lock, machine, service, passFaults, kills>>

Trust(a) ==
    /\ agent[a].pc = "trust"
    /\ verified' = agent[a].version
    /\ Goto(a, "clear")
    /\ UNCHANGED <<operators, lock, dir, age, current, previous, bad, secrets, service, seen,
                   passFaults, kills>>

\* What prune leaves: the releases that were changed last, and the one in use.
Keepers ==
    {age[k] : k \in {i \in 1..Len(age) : i + KeepReleases > Len(age)}} \cup {current}

ClearBad(a) ==
    /\ agent[a].pc = "clear"
    /\ bad' = bad \ {agent[a].version}
    /\ agent' = [agent EXCEPT ![a] = [@ EXCEPT !.pc = "prune", !.keep = Keepers]]
    /\ UNCHANGED <<operators, lock, dir, age, current, previous, verified, secrets, service,
                   seen, passFaults, kills>>

\* prune: the directories that are not kept go one after another.
Prune(a) ==
    /\ agent[a].pc = "prune"
    /\ LET gone == {v \in Versions : dir[v] # "absent" /\ v \notin agent[a].keep}
       IN  IF gone = {}
           THEN Exit(a) /\ UNCHANGED <<dir, age>>
           ELSE \E v \in gone :
                    /\ dir' = [dir EXCEPT ![v] = IF @ = "whole" THEN "torn" ELSE "absent"]
                    /\ age' = IF dir[v] = "whole" THEN Touched(v)
                              ELSE Without(v)
                    /\ UNCHANGED <<agent, lock>>
    /\ UNCHANGED <<operators, current, previous, verified, bad, secrets, service, seen,
                   passFaults, kills>>

Condemn(a) ==
    /\ agent[a].pc = "condemn"
    /\ bad' = bad \cup {agent[a].version}
    /\ Goto(a, "rollback")
    /\ UNCHANGED <<operators, lock, dir, age, current, previous, verified, secrets, service,
                   seen, passFaults, kills>>

\* With no earlier release the version stays, to be checked again.
RollBack(a) ==
    /\ agent[a].pc = "rollback"
    /\ IF previous \in Versions \ {agent[a].version} /\ dir[previous] # "absent"
       THEN current' = previous /\ Goto(a, "restart_back") /\ UNCHANGED lock
       ELSE Exit(a) /\ UNCHANGED current
    /\ UNCHANGED <<operators, dir, age, previous, verified, bad, secrets, service, seen,
                   passFaults, kills>>

RestartBack(a) ==
    /\ agent[a].pc = "restart_back"
    /\ StartService
    /\ Goto(a, "trust_back")
    /\ UNCHANGED <<operators, lock, machine, seen, passFaults, kills>>

TrustBack(a) ==
    /\ agent[a].pc = "trust_back"
    /\ verified' = previous
    /\ Exit(a)
    /\ UNCHANGED <<operators, dir, age, current, previous, bad, secrets, service, seen,
                   passFaults, kills>>

-----------------------------------------------------------------------------
\* A request that fails, a disk that takes no more, or a restart that systemctl
\* reports as failed (the new process did not come up) ends the pass.
PassFails(a) ==
    /\ passFaults + kills < MaxPassFaults
    /\ \/ /\ agent[a].pc \in {"read", "fetch", "sync", "resync", "install"}
          /\ UNCHANGED service
       \/ /\ agent[a].pc \in {"refresh", "restart", "restart_back"}
          /\ service' = [service EXCEPT !.release = current, !.up = FALSE]
    /\ Exit(a)
    /\ passFaults' = passFaults + 1
    /\ UNCHANGED <<operators, machine, seen, kills>>

\* The agent is killed; with a reboot the service starts again as well.
Kill(a) ==
    /\ passFaults + kills < MaxPassFaults
    /\ agent[a].pc # "idle"
    /\ Exit(a)
    /\ kills' = kills + 1
    /\ StartService \/ UNCHANGED service
    /\ UNCHANGED <<operators, machine, seen, passFaults>>

\* Operators promote a version, upload a missing artifact, add the secrets and
\* destroy the used token; the outside gets ready.
Operate ==
    /\ moves < MaxMoves
    /\ moves' = moves + 1
    /\ \/ channel' \in Versions \ {channel} /\ UNCHANGED <<source, vault, outside>>
       \/ \E v \in Versions :
            source[v] = "missing" /\ source' = [source EXCEPT ![v] = "good"]
            /\ UNCHANGED <<channel, vault, outside>>
       \/ \E s \in {"key", "token"} \ vault :
            vault' = vault \cup {s} /\ UNCHANGED <<channel, source, outside>>
       \/ "token" \in vault /\ vault' = vault \ {"token"} /\ UNCHANGED <<channel, source, outside>>
       \/ ~outside /\ outside' = TRUE /\ UNCHANGED <<channel, source, vault>>
    /\ UNCHANGED <<agent, lock, machine, service, seen, passFaults, kills>>

Pass(a) ==
    \/ Begin(a) \/ ReadPointer(a) \/ Fetch(a) \/ Sync(a) \/ Resync(a) \/ Refresh(a)
    \/ InstallRelease(a) \/ Rename(a) \/ WritePrevious(a) \/ PointCurrentAt(a) \/ RestartService(a)
    \/ WaitHealthy(a) \/ Trust(a) \/ ClearBad(a) \/ Prune(a) \/ Condemn(a) \/ RollBack(a)
    \/ RestartBack(a) \/ TrustBack(a)

DNext ==
    \/ \E a \in Agents : Pass(a) \/ PassFails(a) \/ Kill(a)
    \/ Operate

\* The timer starts a pass every two minutes and a pass goes on by itself.
DSpec ==
    DInit /\ [][DNext]_deployVars /\ WF_deployVars(\E a \in Agents : Pass(a))

-----------------------------------------------------------------------------
DTypeOK ==
    /\ channel \in Versions \cup {"none", "invalid"}
    /\ lock \in Agents \cup {"none"}
    /\ \A a \in Agents : agent[a].version \in Versions \cup {"none"} /\ agent[a].keep \subseteq Versions
    /\ dir \in [Versions -> {"absent", "whole", "torn"}]
    /\ age \in Seq(Versions) /\ IsInjective(age)
    /\ Range(age) = {v \in Versions : dir[v] # "absent"}
    /\ {current, previous, verified} \subseteq Versions \cup {"none"}
    /\ bad \subseteq Versions /\ secrets \subseteq {"key", "token"}

\* One pass at a time works on the disk (main takes the lock first).
OnePass == \A a, b \in Agents : agent[a].pc # "idle" /\ agent[b].pc # "idle" => a = b

\* However passes are cut short, the link never names a release that is gone, so
\* that a service that has once been installed can be started; and as long as
\* none is cut short the release is complete.
LinkHolds ==
    current # "none" => dir[current] # "absent" /\ (kills = 0 => dir[current] = "whole")

\* A service is never started without its required secret: sync comes before
\* the link, and a sync that fails leaves the file alone.
SecretsFirst == service.release # "none" => "key" \in secrets

\* While no pass is cut short, what is trusted or condemned is what runs: the
\* health that is probed is that of the version named by the link.
ProbedIsCurrent ==
    kills = 0 =>
        \A a \in Agents :
            /\ agent[a].pc \in {"health", "trust", "condemn"} =>
                    service.release = current /\ current = agent[a].version
            /\ (\A b \in Agents : agent[b].pc = "idle") => service.release = current

\* skimasque-deploy: passes do not overlap; wherever one is cut short, the link
\* names a release that is there and the service has its required secret; and
\* as long as none is, the health that is judged is that of the release named
\* by the link.
DeployInv == DTypeOK /\ OnePass /\ LinkHolds /\ SecretsFirst /\ ProbedIsCurrent

\* Whatever happened before: the promoted version, when it can be had, becomes
\* the installed one or is known as bad; and a healthy one that is installed is
\* trusted in the end, if only after a secret was added or the outside got ready.
Settled ==
    /\ channel \in Versions /\ source[channel] = "good" /\ "key" \in vault =>
            channel = current \/ channel \in bad
    /\ channel = current /\ "key" \in vault /\ Healthy => verified = current
    /\ /\ kills = 0 /\ channel = current /\ verified # current /\ service.up
       /\ current \in Sound /\ outside /\ {"key", "token"} \subseteq vault
       => service.registered
Deployed == <>[]Settled

\* The agent's README: "A release is only trusted once it has been seen healthy
\* (a verified-<role> state file)."
TrustedWasHealthy == verified \in seen \cup {"none"}
=============================================================================
