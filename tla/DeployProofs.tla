---------------------------- MODULE DeployProofs ----------------------------
(***************************************************************************)
(* Proofs about the release agent, for any set of versions, any number of  *)
(* passes that may overlap, and any number of failed and killed passes.    *)
(***************************************************************************)
EXTENDS Deploy, TLAPS

PassStates ==
    {"idle", "read", "fetch", "sync", "resync", "refresh", "install", "rename", "previous",
     "point", "restart", "health", "trust", "clear", "prune", "condemn", "rollback",
     "restart_back", "trust_back"}

PassType == [pc : PassStates, version : Versions \cup {"none"}, keep : SUBSET Versions]

Busy(a) == agent[a].pc # "idle"

(* `age` lists the directories that are there, each once.                 *)
ReleaseTypes ==
    /\ dir \in [Versions -> {"absent", "whole", "torn"}]
    /\ age \in Seq(Versions) /\ IsInjective(age)
    /\ Range(age) = {v \in Versions : dir[v] # "absent"}

OperatorTypes ==
    channel \in Versions \cup {"none", "invalid"} /\ vault \subseteq {"key", "token"}

StateTypes ==
    /\ current \in Versions \cup {"none"} /\ previous \in Versions \cup {"none"}
    /\ verified \in Versions \cup {"none"}
    /\ bad \subseteq Versions /\ secrets \subseteq {"key", "token"} /\ kills \in Nat
    /\ service = [release |-> service.release, up |-> service.up, registered |-> service.registered]

(* The lock is held by the pass that is on its way.                        *)
AgentTypes ==
    /\ agent \in [Agents -> PassType] /\ lock \in Agents \cup {"none"}
    /\ \A a \in Agents : Busy(a) <=> lock = a

DeployTypes == AgentTypes /\ ReleaseTypes /\ OperatorTypes /\ StateTypes

(* Where a pass stands tells what it has done.                             *)
PassHolds(x) ==
    /\ x.pc \notin {"idle", "read"} => x.version \in Versions
    /\ x.pc \in {"fetch", "sync", "install", "rename", "previous", "point"} => x.version # current
    /\ x.pc \in {"resync", "refresh", "restart", "health", "trust", "clear", "prune", "condemn",
                 "rollback"} => x.version = current
    /\ x.pc \in {"install", "rename", "previous", "point"} => "key" \in secrets
    /\ x.pc \in {"previous", "point"} => dir[x.version] = "whole"
    /\ x.pc = "prune" => current \in x.keep

DeployPasses == \A a \in Agents : PassHolds(agent[a])

(* Only a pass that is on its way leaves a directory torn, or a service    *)
(* that is not the one the link names, unless one was killed.              *)
Tears(x, v) ==
    \/ x.pc = "rename" /\ v = x.version
    \/ x.pc = "prune" /\ v \notin x.keep

DeployDisk ==
    /\ current # "none" \/ service.release # "none" => "key" \in secrets
    /\ current # "none" => dir[current] # "absent"
    /\ kills = 0 =>
        /\ \A v \in Versions : dir[v] = "torn" => \E a \in Agents : Tears(agent[a], v)
        /\ \/ service.release = current
           \/ \E a \in Agents : agent[a].pc \in {"restart", "restart_back"}

DeployIInv == DeployTypes /\ DeployPasses /\ DeployDisk

(* The directories without one of them: the others, each once.             *)
LEMMA WithoutIs ==
    ASSUME age \in Seq(Versions), IsInjective(age), NEW v \in Versions
    PROVE  /\ Without(v) \in Seq(Versions) /\ IsInjective(Without(v))
           /\ Range(Without(v)) = Range(age) \ {v}
<1>1. CASE v \notin Range(age)
    BY <1>1 DEF Without
<1>2. CASE v \in Range(age)
  <2> DEFINE k == CHOOSE k \in DOMAIN age : age[k] = v
             n == Len(age)
             w == [i \in 1..(n - 1) |-> IF i < k THEN age[i] ELSE age[i + 1]]
  <2>1. n \in Nat /\ DOMAIN age = 1..n /\ \A i \in 1..n : age[i] \in Versions
      OBVIOUS
  <2>2. k \in 1..n /\ age[k] = v
      BY <1>2, <2>1 DEF Range
  <2>3. Without(v) = w
      BY <1>2 DEF Without
  <2>4. \A i, j \in 1..n : age[i] = age[j] => i = j
      BY <2>1 DEF IsInjective
  <2> HIDE DEF k, n
  <2>5. w \in Seq(Versions)
    <3>1. \A i \in 1..(n - 1) : (IF i < k THEN age[i] ELSE age[i + 1]) \in Versions
        BY <2>1, <2>2
    <3>2. n - 1 \in Nat
        BY <2>1, <2>2
    <3> QED BY <3>1, <3>2
  <2>6. ASSUME NEW i \in 1..(n - 1), NEW j \in 1..(n - 1), w[i] = w[j] PROVE i = j
      BY <2>1, <2>2, <2>4, <2>6
  <2>7. IsInjective(w)
      BY <2>6 DEF IsInjective
  <2>8. ASSUME NEW x \in Range(w) PROVE x \in Range(age) \ {v}
    <3>1. PICK i \in 1..(n - 1) : x = w[i]
        BY <2>8 DEF Range
    <3>2. PICK j \in 1..n : j # k /\ x = age[j]
        BY <2>1, <2>2, <3>1
    <3> QED BY <2>1, <2>2, <2>4, <3>2 DEF Range
  <2>9. ASSUME NEW x \in Range(age) \ {v} PROVE x \in Range(w)
    <3>1. PICK j \in 1..n : x = age[j]
        BY <2>1, <2>9 DEF Range
    <3>2. j # k
        BY <2>2, <2>9, <3>1
    <3>3. PICK i \in 1..(n - 1) : x = w[i]
      <4>1. CASE j < k
          BY <2>1, <2>2, <3>1, <4>1
      <4>2. CASE j > k
        <5>1. j - 1 \in 1..(n - 1) /\ ~(j - 1 < k) /\ (j - 1) + 1 = j
            BY <2>1, <2>2, <4>2
        <5> QED BY <3>1, <5>1
      <4> QED BY <2>1, <2>2, <3>2, <4>1, <4>2
    <3> QED BY <3>3 DEF Range
  <2> QED BY <2>3, <2>5, <2>7, <2>8, <2>9
<1> QED BY <1>1, <1>2

(* Rewriting a release moves it to the newest end of the order by age and  *)
(* loses none.                                                             *)
LEMMA TouchedIs ==
    ASSUME age \in Seq(Versions), IsInjective(age), NEW v \in Versions
    PROVE  /\ Touched(v) \in Seq(Versions) /\ IsInjective(Touched(v))
           /\ Range(Touched(v)) = Range(age) \cup {v}
<1> DEFINE w == Without(v)
<1>1. w \in Seq(Versions) /\ IsInjective(w) /\ Range(w) = Range(age) \ {v}
    BY WithoutIs
<1>2. Touched(v) = Append(w, v)
    BY DEF Touched
<1> HIDE DEF w
<1>3. /\ Append(w, v) \in Seq(Versions) /\ DOMAIN Append(w, v) = 1..(Len(w) + 1)
      /\ \A i \in 1..Len(w) : Append(w, v)[i] = w[i]
      /\ Append(w, v)[Len(w) + 1] = v /\ Len(w) \in Nat /\ DOMAIN w = 1..Len(w)
    BY <1>1
<1>4. \A i \in 1..Len(w) : w[i] # v /\ w[i] \in Range(w)
    BY <1>1, <1>3 DEF Range
<1>5. ASSUME NEW i \in 1..(Len(w) + 1), NEW j \in 1..(Len(w) + 1), Append(w, v)[i] = Append(w, v)[j]
      PROVE  i = j
  <2>1. (i \in 1..Len(w) \/ i = Len(w) + 1) /\ (j \in 1..Len(w) \/ j = Len(w) + 1)
      BY <1>3
  <2>2. CASE i \in 1..Len(w) /\ j \in 1..Len(w)
      BY <1>1, <1>3, <1>5, <2>2 DEF IsInjective
  <2> QED BY <1>3, <1>4, <1>5, <2>1, <2>2
<1>6. IsInjective(Append(w, v))
    BY <1>3, <1>5 DEF IsInjective
<1>7. Range(Append(w, v)) = Range(w) \cup {v}
  <2>1. ASSUME NEW x \in Range(Append(w, v)) PROVE x \in Range(w) \cup {v}
    <3>1. PICK i \in 1..(Len(w) + 1) : x = Append(w, v)[i]
        BY <1>3, <2>1 DEF Range
    <3> QED BY <1>3, <1>4, <3>1
  <2>2. ASSUME NEW x \in Range(w) PROVE x \in Range(Append(w, v))
    <3>1. PICK i \in 1..Len(w) : x = w[i]
        BY <1>3, <2>2 DEF Range
    <3>2. i \in 1..(Len(w) + 1) /\ x = Append(w, v)[i]
        BY <1>3, <3>1
    <3> QED BY <1>3, <3>2 DEF Range
  <2>3. Len(w) + 1 \in 1..(Len(w) + 1)
      BY <1>3
  <2>4. v \in Range(Append(w, v))
      BY <1>3, <2>3 DEF Range
  <2> QED BY <2>1, <2>2, <2>4
<1>8. Range(w) \cup {v} = Range(age) \cup {v}
    BY <1>1
<1> QED BY <1>2, <1>3, <1>6, <1>7, <1>8

(* What a step of one pass leaves of the passes: the others are idle.      *)
Moved(a, r) ==
    /\ AgentTypes' /\ agent'[a] = r
    /\ \A b \in Agents \ {a} : agent[b].pc = "idle" /\ agent'[b] = agent[b]

(* A pass that takes or holds the lock changes its own record and no       *)
(* other.                                                                  *)
LEMMA Moves ==
    ASSUME AgentTypes, NEW a \in Agents, NEW r \in PassType, Busy(a) \/ lock = "none",
           agent' = [agent EXCEPT ![a] = r],
           lock' = IF r.pc = "idle" THEN "none" ELSE a
    PROVE  Moved(a, r)
<1>1. agent \in [Agents -> PassType] /\ \A b \in Agents : Busy(b) <=> lock = b
    BY DEF AgentTypes
<1>2. \A b \in Agents \ {a} : ~Busy(b)
    BY <1>1, DeployAssumption
<1>3. agent' \in [Agents -> PassType] /\ agent'[a] = r
    BY <1>1
<1>4. \A b \in Agents \ {a} : agent'[b] = agent[b]
    BY <1>1
<1>5. \A b \in Agents : Busy(b)' <=> lock' = b
    BY <1>2, <1>3, <1>4, DeployAssumption DEF Busy
<1> QED BY <1>2, <1>3, <1>4, <1>5 DEF AgentTypes, Moved, Busy

(* Going on to another step keeps the version a pass is about.             *)
LEMMA Goes ==
    ASSUME AgentTypes, NEW a \in Agents, Busy(a), NEW p \in PassStates \ {"idle"},
           Goto(a, p), lock' = lock
    PROVE  \E r \in PassType : Moved(a, r) /\ r.pc = p /\ r.version = agent[a].version
                               /\ r.keep = agent[a].keep
<1> DEFINE r == [agent[a] EXCEPT !.pc = p]
<1>1. agent[a] \in PassType /\ lock = a
    BY DEF AgentTypes
<1>2. r \in PassType /\ r.pc = p /\ r.version = agent[a].version /\ r.keep = agent[a].keep
    BY <1>1 DEF PassType
<1>3. agent' = [agent EXCEPT ![a] = r]
    BY DEF Goto, AgentTypes
<1> HIDE DEF r
<1>4. Moved(a, r)
    BY <1>1, <1>2, <1>3, Moves
<1> QED BY <1>2, <1>4

(* A pass that ends frees the lock.                                        *)
LEMMA Exits ==
    ASSUME AgentTypes, NEW a \in Agents, Busy(a), Exit(a)
    PROVE  \E r \in PassType : Moved(a, r) /\ r.pc = "idle"
<1>1. lock = a
    BY DEF AgentTypes
<1>2. Resting \in PassType /\ Resting.pc = "idle"
    BY DEF Resting, PassType, PassStates
<1>3. agent' = [agent EXCEPT ![a] = Resting] /\ lock' = "none"
    BY <1>1 DEF Exit
<1>4. Moved(a, Resting)
    BY <1>2, <1>3, Moves
<1> QED BY <1>2, <1>4

(* What holds around a pass that stands at x while the others are idle.    *)
PassFor(x) ==
    /\ PassHolds(x)
    /\ current # "none" \/ service.release # "none" => "key" \in secrets
    /\ current # "none" => dir[current] # "absent"
    /\ kills = 0 =>
        /\ \A v \in Versions : dir[v] = "torn" => Tears(x, v)
        /\ service.release = current \/ x.pc \in {"restart", "restart_back"}

RestTypes == ReleaseTypes /\ OperatorTypes /\ StateTypes

(* What a step of the one pass under way may assume.                       *)
LEMMA Before ==
    ASSUME DeployIInv, NEW a \in Agents, Busy(a) \/ lock = "none"
    PROVE  AgentTypes /\ RestTypes /\ agent[a] \in PassType /\ PassFor(agent[a])
<1>1. AgentTypes /\ RestTypes /\ agent[a] \in PassType
    BY DEF DeployIInv, DeployTypes, RestTypes, AgentTypes
<1>2. \A b \in Agents \ {a} : agent[b].pc = "idle"
    BY <1>1, DeployAssumption DEF AgentTypes, Busy
<1> QED BY <1>1, <1>2 DEF DeployIInv, DeployPasses, DeployDisk, PassFor, Tears

(* What it has to show: the files and the service, and its own record.     *)
LEMMA After ==
    ASSUME NEW a \in Agents, NEW r \in PassType, Moved(a, r), RestTypes', PassFor(r)'
    PROVE  DeployIInv'
<1>1. ASSUME NEW b \in Agents \ {a} PROVE PassHolds(agent[b])'
    BY <1>1 DEF Moved, PassHolds
<1>2. agent'[a] = r
    BY DEF Moved
<1>3. PassHolds(agent[a])'
    BY <1>2 DEF PassHolds, PassFor
<1>4. DeployDisk'
    BY <1>2 DEF DeployDisk, PassFor, Tears
<1> QED BY <1>1, <1>3, <1>4 DEF DeployIInv, DeployTypes, DeployPasses, RestTypes, Moved

(***************************************************************************)
(* One lemma for each step of a pass.                                      *)
(***************************************************************************)
LEMMA FetchKeeps ==
    ASSUME DeployIInv, NEW a \in Agents, Fetch(a)
    PROVE  DeployIInv'
<1>x. AgentTypes /\ RestTypes /\ agent[a] \in PassType /\ PassFor(agent[a]) /\ Busy(a)
    BY Before DEF Fetch, Busy
<1>1. CASE source[agent[a].version] = "good"
  <2>1. PICK r \in PassType : Moved(a, r) /\ r.pc = "sync"
                             /\ r.version = agent[a].version /\ r.keep = agent[a].keep
      BY <1>x, <1>1, Goes DEF Fetch, PassStates
  <2>2. RestTypes'
      BY <1>x, <1>1 DEF Fetch, operators, machine, StartService, RestTypes, ReleaseTypes, OperatorTypes,
             StateTypes, PassType, PassFor, PassHolds
  <2>3. PassFor(r)'
      BY <1>x, <1>1, <2>1, DeployAssumption
      DEF Fetch, operators, machine, RestTypes, StateTypes, PassFor, PassHolds, Tears
  <2> QED BY <2>1, <2>2, <2>3, After
<1>2. CASE source[agent[a].version] # "good"
  <2>1. PICK r \in PassType : Moved(a, r) /\ r.pc = "idle"
      BY <1>x, <1>2, Exits DEF Fetch
  <2>2. RestTypes'
      BY <1>x, <1>2 DEF Fetch, operators, machine, StartService, RestTypes, ReleaseTypes, OperatorTypes,
             StateTypes, PassType, PassFor, PassHolds
  <2>3. PassFor(r)'
      BY <1>x, <1>2, <2>1, DeployAssumption
      DEF Fetch, operators, machine, RestTypes, StateTypes, PassFor, PassHolds, Tears
  <2> QED BY <2>1, <2>2, <2>3, After
<1> QED BY <1>1, <1>2

(* sync_secrets writes a secret or leaves the file alone.                  *)
LEMMA SyncKeeps ==
    ASSUME DeployIInv, NEW a \in Agents, Sync(a)
    PROVE  DeployIInv'
<1>x. AgentTypes /\ RestTypes /\ agent[a] \in PassType /\ PassFor(agent[a]) /\ Busy(a)
    BY Before DEF Sync, Busy
<1>1. CASE "key" \in vault
  <2>1. PICK r \in PassType : Moved(a, r) /\ r.pc = "install"
                             /\ r.version = agent[a].version /\ r.keep = agent[a].keep
      BY <1>x, <1>1, Goes DEF Sync, PassStates
  <2>2. RestTypes'
      BY <1>x, <1>1 DEF Sync, operators, machine, StartService, RestTypes, ReleaseTypes, OperatorTypes,
             StateTypes, PassType, PassFor, PassHolds
  <2>3. PassFor(r)'
      BY <1>x, <1>1, <2>1, DeployAssumption
      DEF Sync, operators, machine, RestTypes, StateTypes, PassFor, PassHolds, Tears
  <2> QED BY <2>1, <2>2, <2>3, After
<1>2. CASE "key" \notin vault
  <2>1. PICK r \in PassType : Moved(a, r) /\ r.pc = "idle"
      BY <1>x, <1>2, Exits DEF Sync
  <2>2. RestTypes'
      BY <1>x, <1>2 DEF Sync, operators, machine, StartService, RestTypes, ReleaseTypes, OperatorTypes,
             StateTypes, PassType, PassFor, PassHolds
  <2>3. PassFor(r)'
      BY <1>x, <1>2, <2>1, DeployAssumption
      DEF Sync, operators, machine, RestTypes, StateTypes, PassFor, PassHolds, Tears
  <2> QED BY <2>1, <2>2, <2>3, After
<1> QED BY <1>1, <1>2

(* The pass with nothing new to install refreshes the secrets.             *)
LEMMA ResyncKeeps ==
    ASSUME DeployIInv, NEW a \in Agents, Resync(a)
    PROVE  DeployIInv'
<1>x. AgentTypes /\ RestTypes /\ agent[a] \in PassType /\ PassFor(agent[a]) /\ Busy(a)
    BY Before DEF Resync, Busy
<1>1. CASE "key" \in vault /\ vault # secrets
  <2>1. PICK r \in PassType : Moved(a, r) /\ r.pc = "refresh"
                             /\ r.version = agent[a].version /\ r.keep = agent[a].keep
      BY <1>x, <1>1, Goes DEF Resync, PassStates
  <2>2. RestTypes'
      BY <1>x, <1>1 DEF Resync, operators, machine, StartService, RestTypes, ReleaseTypes, OperatorTypes,
             StateTypes, PassType, PassFor, PassHolds
  <2>3. PassFor(r)'
      BY <1>x, <1>1, <2>1, DeployAssumption
      DEF Resync, operators, machine, RestTypes, StateTypes, PassFor, PassHolds, Tears
  <2> QED BY <2>1, <2>2, <2>3, After
<1>2. CASE "key" \in vault /\ vault = secrets /\ verified # current
  <2>1. PICK r \in PassType : Moved(a, r) /\ r.pc = "health"
                             /\ r.version = agent[a].version /\ r.keep = agent[a].keep
      BY <1>x, <1>2, Goes DEF Resync, PassStates
  <2>2. RestTypes'
      BY <1>x, <1>2 DEF Resync, operators, machine, StartService, RestTypes, ReleaseTypes, OperatorTypes,
             StateTypes, PassType, PassFor, PassHolds
  <2>3. PassFor(r)'
      BY <1>x, <1>2, <2>1, DeployAssumption
      DEF Resync, operators, machine, RestTypes, StateTypes, PassFor, PassHolds, Tears
  <2> QED BY <2>1, <2>2, <2>3, After
<1>3. CASE ~("key" \in vault /\ (vault # secrets \/ verified # current))
  <2>1. PICK r \in PassType : Moved(a, r) /\ r.pc = "idle"
      BY <1>x, <1>3, Exits DEF Resync
  <2>2. RestTypes'
      BY <1>x, <1>3 DEF Resync, operators, machine, StartService, RestTypes, ReleaseTypes, OperatorTypes,
             StateTypes, PassType, PassFor, PassHolds
  <2>3. PassFor(r)'
      BY <1>x, <1>3, <2>1, DeployAssumption
      DEF Resync, operators, machine, RestTypes, StateTypes, PassFor, PassHolds, Tears
  <2> QED BY <2>1, <2>2, <2>3, After
<1> QED BY <1>1, <1>2, <1>3

(* The service is restarted for secrets that changed.                      *)
LEMMA RefreshKeeps ==
    ASSUME DeployIInv, NEW a \in Agents, Refresh(a)
    PROVE  DeployIInv'
<1>x. AgentTypes /\ RestTypes /\ agent[a] \in PassType /\ PassFor(agent[a]) /\ Busy(a)
    BY Before DEF Refresh, Busy
<1>1. CASE verified # current
  <2>1. PICK r \in PassType : Moved(a, r) /\ r.pc = "health"
                             /\ r.version = agent[a].version /\ r.keep = agent[a].keep
      BY <1>x, <1>1, Goes DEF Refresh, PassStates
  <2>2. RestTypes'
      BY <1>x, <1>1 DEF Refresh, operators, machine, StartService, RestTypes, ReleaseTypes, OperatorTypes,
             StateTypes, PassType, PassFor, PassHolds
  <2>3. PassFor(r)'
      BY <1>x, <1>1, <2>1, DeployAssumption
      DEF Refresh, StartService, operators, machine, RestTypes, StateTypes, PassFor, PassHolds, Tears
  <2> QED BY <2>1, <2>2, <2>3, After
<1>2. CASE verified = current
  <2>1. PICK r \in PassType : Moved(a, r) /\ r.pc = "idle"
      BY <1>x, <1>2, Exits DEF Refresh
  <2>2. RestTypes'
      BY <1>x, <1>2 DEF Refresh, operators, machine, StartService, RestTypes, ReleaseTypes, OperatorTypes,
             StateTypes, PassType, PassFor, PassHolds
  <2>3. PassFor(r)'
      BY <1>x, <1>2, <2>1, DeployAssumption
      DEF Refresh, StartService, operators, machine, RestTypes, StateTypes, PassFor, PassHolds, Tears
  <2> QED BY <2>1, <2>2, <2>3, After
<1> QED BY <1>1, <1>2

(* deploy records the version it replaces before the link moves.           *)
LEMMA WritePreviousKeeps ==
    ASSUME DeployIInv, NEW a \in Agents, WritePrevious(a)
    PROVE  DeployIInv'
<1>x. AgentTypes /\ RestTypes /\ agent[a] \in PassType /\ PassFor(agent[a]) /\ Busy(a)
    BY Before DEF WritePrevious, Busy
<1>1. PICK r \in PassType : Moved(a, r) /\ r.pc = "point"
                           /\ r.version = agent[a].version /\ r.keep = agent[a].keep
    BY <1>x, Goes DEF WritePrevious, PassStates
<1>2. RestTypes'
    BY <1>x DEF WritePrevious, operators, machine, StartService, RestTypes, ReleaseTypes, OperatorTypes,
           StateTypes, PassType, PassFor, PassHolds
<1>3. PassFor(r)'
    BY <1>x, <1>1, DeployAssumption
    DEF WritePrevious, operators, machine, RestTypes, StateTypes, PassFor, PassHolds, Tears
<1> QED BY <1>1, <1>2, <1>3, After

(* point_current_at links a release that was just put in place.            *)
LEMMA PointCurrentAtKeeps ==
    ASSUME DeployIInv, NEW a \in Agents, PointCurrentAt(a)
    PROVE  DeployIInv'
<1>x. AgentTypes /\ RestTypes /\ agent[a] \in PassType /\ PassFor(agent[a]) /\ Busy(a)
    BY Before DEF PointCurrentAt, Busy
<1>1. PICK r \in PassType : Moved(a, r) /\ r.pc = "restart"
                           /\ r.version = agent[a].version /\ r.keep = agent[a].keep
    BY <1>x, Goes DEF PointCurrentAt, PassStates
<1>2. RestTypes'
    BY <1>x DEF PointCurrentAt, operators, machine, StartService, RestTypes, ReleaseTypes, OperatorTypes,
           StateTypes, PassType, PassFor, PassHolds
<1>3. PassFor(r)'
    BY <1>x, <1>1, DeployAssumption
    DEF PointCurrentAt, operators, machine, RestTypes, StateTypes, PassFor, PassHolds, Tears
<1> QED BY <1>1, <1>2, <1>3, After

(* The restart runs the linked release, with its secret.                   *)
LEMMA RestartServiceKeeps ==
    ASSUME DeployIInv, NEW a \in Agents, RestartService(a)
    PROVE  DeployIInv'
<1>x. AgentTypes /\ RestTypes /\ agent[a] \in PassType /\ PassFor(agent[a]) /\ Busy(a)
    BY Before DEF RestartService, Busy
<1>1. PICK r \in PassType : Moved(a, r) /\ r.pc = "health"
                           /\ r.version = agent[a].version /\ r.keep = agent[a].keep
    BY <1>x, Goes DEF RestartService, PassStates
<1>2. RestTypes'
    BY <1>x DEF RestartService, operators, machine, StartService, RestTypes, ReleaseTypes, OperatorTypes,
           StateTypes, PassType, PassFor, PassHolds
<1>3. PassFor(r)'
    BY <1>x, <1>1, DeployAssumption
    DEF RestartService, StartService, operators, machine, RestTypes, StateTypes, PassFor, PassHolds, Tears
<1> QED BY <1>1, <1>2, <1>3, After

(* wait_healthy looks and changes no file.                                 *)
LEMMA WaitHealthyKeeps ==
    ASSUME DeployIInv, NEW a \in Agents, WaitHealthy(a)
    PROVE  DeployIInv'
<1>x. AgentTypes /\ RestTypes /\ agent[a] \in PassType /\ PassFor(agent[a]) /\ Busy(a)
    BY Before DEF WaitHealthy, Busy
<1>1. CASE Healthy
  <2>1. PICK r \in PassType : Moved(a, r) /\ r.pc = "trust"
                             /\ r.version = agent[a].version /\ r.keep = agent[a].keep
      BY <1>x, <1>1, Goes DEF WaitHealthy, PassStates
  <2>2. RestTypes'
      BY <1>x, <1>1 DEF WaitHealthy, operators, machine, StartService, RestTypes, ReleaseTypes, OperatorTypes,
             StateTypes, PassType, PassFor, PassHolds
  <2>3. PassFor(r)'
      BY <1>x, <1>1, <2>1, DeployAssumption
      DEF WaitHealthy, operators, machine, RestTypes, StateTypes, PassFor, PassHolds, Tears
  <2> QED BY <2>1, <2>2, <2>3, After
<1>2. CASE ~Healthy
  <2>1. PICK r \in PassType : Moved(a, r) /\ r.pc = "condemn"
                             /\ r.version = agent[a].version /\ r.keep = agent[a].keep
      BY <1>x, <1>2, Goes DEF WaitHealthy, PassStates
  <2>2. RestTypes'
      BY <1>x, <1>2 DEF WaitHealthy, operators, machine, StartService, RestTypes, ReleaseTypes, OperatorTypes,
             StateTypes, PassType, PassFor, PassHolds
  <2>3. PassFor(r)'
      BY <1>x, <1>2, <2>1, DeployAssumption
      DEF WaitHealthy, operators, machine, RestTypes, StateTypes, PassFor, PassHolds, Tears
  <2> QED BY <2>1, <2>2, <2>3, After
<1> QED BY <1>1, <1>2

(* A healthy release is written down as verified.                          *)
LEMMA TrustKeeps ==
    ASSUME DeployIInv, NEW a \in Agents, Trust(a)
    PROVE  DeployIInv'
<1>x. AgentTypes /\ RestTypes /\ agent[a] \in PassType /\ PassFor(agent[a]) /\ Busy(a)
    BY Before DEF Trust, Busy
<1>1. PICK r \in PassType : Moved(a, r) /\ r.pc = "clear"
                           /\ r.version = agent[a].version /\ r.keep = agent[a].keep
    BY <1>x, Goes DEF Trust, PassStates
<1>2. RestTypes'
    BY <1>x DEF Trust, operators, machine, StartService, RestTypes, ReleaseTypes, OperatorTypes,
           StateTypes, PassType, PassFor, PassHolds
<1>3. PassFor(r)'
    BY <1>x, <1>1, DeployAssumption
    DEF Trust, operators, machine, RestTypes, StateTypes, PassFor, PassHolds, Tears
<1> QED BY <1>1, <1>2, <1>3, After

(* An unhealthy one is written down as bad.                                *)
LEMMA CondemnKeeps ==
    ASSUME DeployIInv, NEW a \in Agents, Condemn(a)
    PROVE  DeployIInv'
<1>x. AgentTypes /\ RestTypes /\ agent[a] \in PassType /\ PassFor(agent[a]) /\ Busy(a)
    BY Before DEF Condemn, Busy
<1>1. PICK r \in PassType : Moved(a, r) /\ r.pc = "rollback"
                           /\ r.version = agent[a].version /\ r.keep = agent[a].keep
    BY <1>x, Goes DEF Condemn, PassStates
<1>2. RestTypes'
    BY <1>x DEF Condemn, operators, machine, StartService, RestTypes, ReleaseTypes, OperatorTypes,
           StateTypes, PassType, PassFor, PassHolds
<1>3. PassFor(r)'
    BY <1>x, <1>1, DeployAssumption
    DEF Condemn, operators, machine, RestTypes, StateTypes, PassFor, PassHolds, Tears
<1> QED BY <1>1, <1>2, <1>3, After

(* rollback links a release only if it is still there.                     *)
LEMMA RollBackKeeps ==
    ASSUME DeployIInv, NEW a \in Agents, RollBack(a)
    PROVE  DeployIInv'
<1>x. AgentTypes /\ RestTypes /\ agent[a] \in PassType /\ PassFor(agent[a]) /\ Busy(a)
    BY Before DEF RollBack, Busy
<1>1. CASE previous \in Versions \ {agent[a].version} /\ dir[previous] # "absent"
  <2>1. PICK r \in PassType : Moved(a, r) /\ r.pc = "restart_back"
                             /\ r.version = agent[a].version /\ r.keep = agent[a].keep
      BY <1>x, <1>1, Goes DEF RollBack, PassStates
  <2>2. RestTypes'
      BY <1>x, <1>1 DEF RollBack, operators, machine, StartService, RestTypes, ReleaseTypes, OperatorTypes,
             StateTypes, PassType, PassFor, PassHolds
  <2>3. PassFor(r)'
      BY <1>x, <1>1, <2>1, DeployAssumption
      DEF RollBack, operators, machine, RestTypes, StateTypes, PassFor, PassHolds, Tears
  <2> QED BY <2>1, <2>2, <2>3, After
<1>2. CASE ~(previous \in Versions \ {agent[a].version} /\ dir[previous] # "absent")
  <2>1. PICK r \in PassType : Moved(a, r) /\ r.pc = "idle"
      BY <1>x, <1>2, Exits DEF RollBack
  <2>2. RestTypes'
      BY <1>x, <1>2 DEF RollBack, operators, machine, StartService, RestTypes, ReleaseTypes, OperatorTypes,
             StateTypes, PassType, PassFor, PassHolds
  <2>3. PassFor(r)'
      BY <1>x, <1>2, <2>1, DeployAssumption
      DEF RollBack, operators, machine, RestTypes, StateTypes, PassFor, PassHolds, Tears
  <2> QED BY <2>1, <2>2, <2>3, After
<1> QED BY <1>1, <1>2

(* The restart after a rollback runs the release that was linked.          *)
LEMMA RestartBackKeeps ==
    ASSUME DeployIInv, NEW a \in Agents, RestartBack(a)
    PROVE  DeployIInv'
<1>x. AgentTypes /\ RestTypes /\ agent[a] \in PassType /\ PassFor(agent[a]) /\ Busy(a)
    BY Before DEF RestartBack, Busy
<1>1. PICK r \in PassType : Moved(a, r) /\ r.pc = "trust_back"
                           /\ r.version = agent[a].version /\ r.keep = agent[a].keep
    BY <1>x, Goes DEF RestartBack, PassStates
<1>2. RestTypes'
    BY <1>x DEF RestartBack, operators, machine, StartService, RestTypes, ReleaseTypes, OperatorTypes,
           StateTypes, PassType, PassFor, PassHolds
<1>3. PassFor(r)'
    BY <1>x, <1>1, DeployAssumption
    DEF RestartBack, StartService, operators, machine, RestTypes, StateTypes, PassFor, PassHolds, Tears
<1> QED BY <1>1, <1>2, <1>3, After

(* The release gone back to is written down as verified.                   *)
LEMMA TrustBackKeeps ==
    ASSUME DeployIInv, NEW a \in Agents, TrustBack(a)
    PROVE  DeployIInv'
<1>x. AgentTypes /\ RestTypes /\ agent[a] \in PassType /\ PassFor(agent[a]) /\ Busy(a)
    BY Before DEF TrustBack, Busy
<1>1. PICK r \in PassType : Moved(a, r) /\ r.pc = "idle"
    BY <1>x, Exits DEF TrustBack
<1>2. RestTypes'
    BY <1>x DEF TrustBack, operators, machine, StartService, RestTypes, ReleaseTypes, OperatorTypes,
           StateTypes, PassType, PassFor, PassHolds
<1>3. PassFor(r)'
    BY <1>x, <1>1, DeployAssumption
    DEF TrustBack, operators, machine, RestTypes, StateTypes, PassFor, PassHolds, Tears
<1> QED BY <1>1, <1>2, <1>3, After

(* main takes the lock before anything else.                               *)
LEMMA BeginKeeps ==
    ASSUME DeployIInv, NEW a \in Agents, Begin(a)
    PROVE  DeployIInv'
<1>x. AgentTypes /\ RestTypes /\ agent[a] \in PassType /\ PassFor(agent[a]) /\ lock = "none"
    BY Before DEF Begin
<1>1. PICK r \in PassType : r.pc = "read" /\ agent' = [agent EXCEPT ![a] = r] /\ lock' = a
  <2> DEFINE r == [agent[a] EXCEPT !.pc = "read"]
  <2>1. r \in PassType /\ r.pc = "read" /\ agent' = [agent EXCEPT ![a] = r] /\ lock' = a
      BY <1>x DEF Begin, Goto, PassType, PassStates, AgentTypes
  <2> HIDE DEF r
  <2> QED BY <2>1
<1>2. Moved(a, r)
    BY <1>x, <1>1, Moves
<1>3. RestTypes'
    BY <1>x DEF Begin, operators, machine, RestTypes, ReleaseTypes, OperatorTypes, StateTypes
<1>4. PassFor(r)'
    BY <1>x, <1>1 DEF Begin, operators, machine, PassFor, PassHolds, Tears
<1> QED BY <1>2, <1>3, <1>4, After

(* The channel decides which way the pass goes.                            *)
LEMMA ReadPointerKeeps ==
    ASSUME DeployIInv, NEW a \in Agents, ReadPointer(a)
    PROVE  DeployIInv'
<1>x. AgentTypes /\ RestTypes /\ agent[a] \in PassType /\ PassFor(agent[a]) /\ Busy(a)
    BY Before DEF ReadPointer, Busy
<1>y. RestTypes'
    BY <1>x DEF ReadPointer, operators, machine, RestTypes, ReleaseTypes, OperatorTypes, StateTypes
<1>1. CASE channel \notin Versions \/ (channel # current /\ channel \in bad)
  <2>1. PICK r \in PassType : Moved(a, r) /\ r.pc = "idle"
      BY <1>x, <1>1, Exits DEF ReadPointer
  <2>2. PassFor(r)'
      BY <1>x, <2>1 DEF ReadPointer, operators, machine, PassFor, PassHolds, Tears
  <2> QED BY <1>y, <2>1, <2>2, After
<1>2. CASE ~(channel \notin Versions \/ (channel # current /\ channel \in bad))
  <2> DEFINE p == IF channel = current THEN "resync" ELSE "fetch"
             r == [agent[a] EXCEPT !.version = channel, !.pc = p]
  <2>1. /\ agent' = [agent EXCEPT ![a] = r] /\ lock' = lock
        /\ p \in {"resync", "fetch"} /\ (p = "resync" <=> channel = current)
      BY <1>2 DEF ReadPointer
  <2> HIDE DEF p
  <2>2. r \in PassType /\ r.pc = p /\ r.version = channel
      BY <1>x, <1>2, <2>1 DEF PassType, PassStates
  <2> HIDE DEF r
  <2>3. PICK x \in PassType : /\ agent' = [agent EXCEPT ![a] = x] /\ x.version = channel
                              /\ x.pc \in {"resync", "fetch"}
                              /\ x.pc = "resync" <=> channel = current
      BY <2>1, <2>2
  <2>4. lock = a
      BY <1>x DEF AgentTypes
  <2>5. Moved(a, x)
      BY <1>x, <2>1, <2>3, <2>4, Moves
  <2>6. PassFor(x)'
      BY <1>x, <1>2, <2>3 DEF ReadPointer, operators, machine, PassFor, PassHolds, Tears
  <2> QED BY <1>y, <2>5, <2>6, After
<1> QED BY <1>1, <1>2

(* The list of directories follows what happens to one of them.            *)
LEMMA TouchKeeps ==
    ASSUME ReleaseTypes, NEW v \in Versions, NEW d \in {"whole", "torn"},
           dir' = [dir EXCEPT ![v] = d], age' = Touched(v)
    PROVE  ReleaseTypes'
<1>1. /\ age' \in Seq(Versions) /\ IsInjective(age') /\ Range(age') = Range(age) \cup {v}
    BY TouchedIs DEF ReleaseTypes
<1>2. dir' \in [Versions -> {"absent", "whole", "torn"}]
    BY DEF ReleaseTypes
<1>3. {w \in Versions : dir'[w] # "absent"} = {w \in Versions : dir[w] # "absent"} \cup {v}
    BY DEF ReleaseTypes
<1> QED BY <1>1, <1>2, <1>3 DEF ReleaseTypes

(* install_release stages a download, or fails and leaves.                 *)
LEMMA InstallReleaseKeeps ==
    ASSUME DeployIInv, NEW a \in Agents, InstallRelease(a)
    PROVE  DeployIInv'
<1>x. AgentTypes /\ RestTypes /\ agent[a] \in PassType /\ PassFor(agent[a]) /\ Busy(a)
    BY Before DEF InstallRelease, Busy
<1>1. PICK r \in PassType : Moved(a, r) /\ r.pc = "rename"
                           /\ r.version = agent[a].version /\ r.keep = agent[a].keep
    BY <1>x, Goes DEF InstallRelease, PassStates
<1>2. agent[a].version \in Versions
    BY <1>x DEF InstallRelease, PassFor, PassHolds
<1>3. ReleaseTypes'
  <2>1. CASE dir[agent[a].version] = "absent"
      BY <1>x, <2>1 DEF InstallRelease, RestTypes, ReleaseTypes
  <2>2. CASE dir[agent[a].version] # "absent"
      BY <1>x, <1>2, <2>2, TouchKeeps DEF InstallRelease, RestTypes
  <2> QED BY <2>1, <2>2
<1>4. RestTypes'
    BY <1>x, <1>3 DEF InstallRelease, operators, RestTypes, OperatorTypes, StateTypes
<1>5. /\ \A v \in Versions \ {agent[a].version} : dir'[v] = dir[v]
      /\ agent[a].pc = "install" /\ UNCHANGED <<current, service, secrets, kills>>
    BY <1>x DEF InstallRelease, RestTypes, ReleaseTypes
<1>6. PassFor(r)'
    BY <1>x, <1>1, <1>2, <1>5 DEF PassFor, PassHolds, Tears, RestTypes, StateTypes
<1> QED BY <1>1, <1>4, <1>6, After

(* The staged directory replaces one of its name.                          *)
LEMMA RenameKeeps ==
    ASSUME DeployIInv, NEW a \in Agents, Rename(a)
    PROVE  DeployIInv'
<1>x. AgentTypes /\ RestTypes /\ agent[a] \in PassType /\ PassFor(agent[a]) /\ Busy(a)
    BY Before DEF Rename, Busy
<1>1. PICK r \in PassType : Moved(a, r) /\ r.pc = "previous"
                           /\ r.version = agent[a].version /\ r.keep = agent[a].keep
    BY <1>x, Goes DEF Rename, PassStates
<1>2. agent[a].version \in Versions
    BY <1>x DEF Rename, PassFor, PassHolds
<1>3. ReleaseTypes'
    BY <1>x, <1>2, TouchKeeps DEF Rename, RestTypes
<1>4. RestTypes'
    BY <1>x, <1>3 DEF Rename, operators, RestTypes, OperatorTypes, StateTypes
<1>5. /\ \A v \in Versions \ {agent[a].version} : dir'[v] = dir[v]
      /\ dir'[agent[a].version] = "whole"
      /\ agent[a].pc = "rename" /\ UNCHANGED <<current, service, secrets, kills>>
    BY <1>x, <1>2 DEF Rename, RestTypes, ReleaseTypes
<1>6. PassFor(r)'
    BY <1>x, <1>1, <1>2, <1>5 DEF PassFor, PassHolds, Tears, RestTypes, StateTypes
<1> QED BY <1>1, <1>4, <1>6, After

(* A trusted version is no longer called bad; what prune keeps is decided. *)
LEMMA ClearBadKeeps ==
    ASSUME DeployIInv, NEW a \in Agents, ClearBad(a)
    PROVE  DeployIInv'
<1>x. AgentTypes /\ RestTypes /\ agent[a] \in PassType /\ PassFor(agent[a]) /\ Busy(a)
    BY Before DEF ClearBad, Busy
<1>1. Keepers \subseteq Versions /\ current \in Keepers
  <2>1. current \in Versions
      BY <1>x DEF ClearBad, PassFor, PassHolds
  <2>2. \A k \in 1..Len(age) : age[k] \in Versions
      BY <1>x DEF RestTypes, ReleaseTypes
  <2> QED BY <2>1, <2>2 DEF Keepers
<1>2. lock = a /\ lock' = a
    BY <1>x DEF AgentTypes, ClearBad
<1>3. PICK r \in PassType : /\ agent' = [agent EXCEPT ![a] = r] /\ r.pc = "prune"
                            /\ r.version = agent[a].version /\ r.keep = Keepers
  <2> DEFINE r == [agent[a] EXCEPT !.pc = "prune", !.keep = Keepers]
  <2>1. agent' = [agent EXCEPT ![a] = r]
      BY DEF ClearBad
  <2>2. /\ r \in PassType /\ r.pc = "prune" /\ r.version = agent[a].version
        /\ r.keep = Keepers
      BY <1>x, <1>1 DEF PassType, PassStates
  <2> HIDE DEF r
  <2> QED BY <2>1, <2>2
<1>4. Moved(a, r)
    BY <1>x, <1>2, <1>3, Moves
<1>5. RestTypes'
    BY <1>x DEF ClearBad, operators, RestTypes, ReleaseTypes, OperatorTypes, StateTypes
<1>6. PassFor(r)'
    BY <1>x, <1>1, <1>3 DEF ClearBad, PassFor, PassHolds, Tears
<1> QED BY <1>4, <1>5, <1>6, After

(* prune keeps the linked release whatever its age.                        *)
LEMMA PruneKeeps ==
    ASSUME DeployIInv, NEW a \in Agents, Prune(a)
    PROVE  DeployIInv'
<1>x. AgentTypes /\ RestTypes /\ agent[a] \in PassType /\ PassFor(agent[a]) /\ Busy(a)
    BY Before DEF Prune, Busy
<1> DEFINE gone == {v \in Versions : dir[v] # "absent" /\ v \notin agent[a].keep}
<1>1. CASE gone = {}
  <2>1. PICK r \in PassType : Moved(a, r) /\ r.pc = "idle"
      BY <1>x, <1>1, Exits DEF Prune
  <2>2. RestTypes'
      BY <1>x, <1>1 DEF Prune, operators, RestTypes, ReleaseTypes, OperatorTypes, StateTypes
  <2>3. PassFor(r)'
      BY <1>x, <1>1, <2>1 DEF Prune, PassFor, PassHolds, Tears
  <2> QED BY <2>1, <2>2, <2>3, After
<1>2. CASE gone # {}
  <2>1. PICK v \in gone :
          /\ dir' = [dir EXCEPT ![v] = IF dir[v] = "whole" THEN "torn" ELSE "absent"]
          /\ age' = IF dir[v] = "whole" THEN Touched(v) ELSE Without(v)
          /\ UNCHANGED <<agent, lock>>
      BY <1>x, <1>2 DEF Prune, RestTypes, ReleaseTypes
  <2>2. v \in Versions /\ dir[v] # "absent" /\ v \notin agent[a].keep
      BY <2>1
  <2>3. /\ agent[a].pc = "prune" /\ UNCHANGED <<current, service, secrets, kills>>
        /\ current # v
      BY <1>x, <2>2 DEF Prune, PassFor, PassHolds
  <2>4. ReleaseTypes'
    <3>1. CASE dir[v] = "whole"
        BY <1>x, <2>1, <2>2, <3>1, TouchKeeps DEF RestTypes
    <3>2. CASE dir[v] # "whole"
      <4>1. /\ age' \in Seq(Versions) /\ IsInjective(age') /\ Range(age') = Range(age) \ {v}
          BY <1>x, <2>1, <2>2, <3>2, WithoutIs DEF RestTypes, ReleaseTypes
      <4>2. dir' \in [Versions -> {"absent", "whole", "torn"}]
          BY <1>x, <2>1 DEF RestTypes, ReleaseTypes
      <4>3. {w \in Versions : dir'[w] # "absent"} = {w \in Versions : dir[w] # "absent"} \ {v}
          BY <1>x, <2>1, <2>2, <3>2 DEF RestTypes, ReleaseTypes
      <4> QED BY <1>x, <4>1, <4>2, <4>3 DEF RestTypes, ReleaseTypes
    <3> QED BY <3>1, <3>2
  <2>5. RestTypes'
      BY <1>x, <2>4 DEF Prune, operators, RestTypes, OperatorTypes, StateTypes
  <2>6. \A w \in Versions \ {v} : dir'[w] = dir[w]
      BY <1>x, <2>1 DEF RestTypes, ReleaseTypes
  <2>7. PICK r \in PassType : r = agent[a]
      BY <1>x
  <2>8. agent' = [agent EXCEPT ![a] = r] /\ lock' = a
      BY <1>x, <2>1, <2>7 DEF AgentTypes
  <2>9. Moved(a, r)
      BY <1>x, <2>7, <2>8, Moves DEF Busy
  <2>10. PassFor(r)'
      BY <1>x, <2>1, <2>2, <2>3, <2>6, <2>7 DEF PassFor, PassHolds, Tears, RestTypes, StateTypes
  <2> QED BY <2>5, <2>9, <2>10, After
<1> QED BY <1>1, <1>2

(* A pass that fails is not one that left a directory torn, or a service   *)
(* that is not the one the link names.                                     *)
LEMMA PassFailsKeeps ==
    ASSUME DeployIInv, NEW a \in Agents, PassFails(a)
    PROVE  DeployIInv'
<1>x. AgentTypes /\ RestTypes /\ agent[a] \in PassType /\ PassFor(agent[a]) /\ Busy(a)
    BY Before DEF PassFails, Busy
<1>1. PICK r \in PassType : Moved(a, r) /\ r.pc = "idle"
    BY <1>x, Exits DEF PassFails
<1>2. RestTypes'
    BY <1>x DEF PassFails, operators, machine, RestTypes, ReleaseTypes, OperatorTypes, StateTypes
<1>3. \/ agent[a].pc \in {"read", "fetch", "sync", "resync", "install"} /\ UNCHANGED service
      \/ agent[a].pc \in {"refresh", "restart", "restart_back"}
         /\ service'.release = current
    BY <1>x DEF PassFails, RestTypes, StateTypes
<1>4. PassFor(r)'
    BY <1>x, <1>1, <1>3 DEF PassFails, machine, PassFor, PassHolds, Tears
<1> QED BY <1>1, <1>2, <1>4, After

(* A kill between two steps frees the lock and leaves the files as they    *)
(* are.                                                                    *)
LEMMA KillKeeps ==
    ASSUME DeployIInv, NEW a \in Agents, Kill(a)
    PROVE  DeployIInv'
<1>x. AgentTypes /\ RestTypes /\ agent[a] \in PassType /\ PassFor(agent[a]) /\ Busy(a)
    BY Before DEF Kill, Busy
<1>1. PICK r \in PassType : Moved(a, r) /\ r.pc = "idle"
    BY <1>x, Exits DEF Kill
<1>2. RestTypes'
    BY <1>x DEF Kill, StartService, operators, machine, RestTypes, ReleaseTypes, OperatorTypes,
                StateTypes
<1>3. kills' # 0 /\ (service'.release = current \/ service' = service)
    BY <1>x DEF Kill, StartService, RestTypes, StateTypes
<1>4. PassFor(r)'
    BY <1>x, <1>1, <1>3 DEF Kill, machine, PassFor, PassHolds
<1> QED BY <1>1, <1>2, <1>4, After

(* Every step of the agents, the operators and the machine keeps the       *)
(* invariant.                                                              *)
LEMMA DeployStep ==
    ASSUME DeployIInv, [DNext]_deployVars
    PROVE  DeployIInv'
<1>1. ASSUME NEW a \in Agents, Pass(a) PROVE DeployIInv'
    BY <1>1, BeginKeeps, ReadPointerKeeps, FetchKeeps, SyncKeeps, ResyncKeeps, RefreshKeeps,
       InstallReleaseKeeps, RenameKeeps, WritePreviousKeeps, PointCurrentAtKeeps,
       RestartServiceKeeps, WaitHealthyKeeps, TrustKeeps, ClearBadKeeps, PruneKeeps,
       CondemnKeeps, RollBackKeeps, RestartBackKeeps, TrustBackKeeps, Zenon DEF Pass
<1>2. CASE Operate
  <2>1. OperatorTypes'
      BY <1>2 DEF Operate, DeployIInv, DeployTypes, OperatorTypes
  <2>2. UNCHANGED <<agent, lock, machine, service, kills>>
      BY <1>2 DEF Operate
  <2> QED BY <2>1, <2>2, Zenon DEF machine, DeployIInv, DeployTypes, AgentTypes, ReleaseTypes, StateTypes,
                DeployPasses, PassHolds, DeployDisk, Tears, Busy
<1>3. CASE UNCHANGED deployVars
    BY <1>3, Zenon DEF deployVars, operators, machine, DeployIInv, DeployTypes, AgentTypes,
       ReleaseTypes, OperatorTypes, StateTypes, DeployPasses, PassHolds, DeployDisk, Tears, Busy
<1> QED BY <1>1, <1>2, <1>3, PassFailsKeeps, KillKeeps, Zenon DEF DNext

(* The machine before its first pass satisfies it.                         *)
LEMMA DeployStart ==
    ASSUME DInit
    PROVE  DeployIInv
<1>1. agent = [a \in Agents |-> Resting] /\ Resting \in PassType /\ Resting.pc = "idle"
    BY DEF DInit, Resting, PassType, PassStates
<1>2. AgentTypes
    BY <1>1, DeployAssumption DEF DInit, AgentTypes, Busy
<1>3. ReleaseTypes
    BY DEF DInit, ReleaseTypes, IsInjective, Range
<1>4. OperatorTypes /\ StateTypes
    BY DEF DInit, OperatorTypes, StateTypes
<1>5. DeployPasses
    BY <1>1 DEF DeployPasses, PassHolds
<1>6. DeployDisk
    BY DEF DInit, DeployDisk
<1> QED BY <1>2, <1>3, <1>4, <1>5, <1>6 DEF DeployIInv, DeployTypes

(* It gives the property.                                                  *)
LEMMA DeploySafe ==
    ASSUME DeployIInv
    PROVE  DeployInv
<1>1. AgentTypes /\ ReleaseTypes /\ OperatorTypes /\ StateTypes /\ DeployPasses /\ DeployDisk
    BY DEF DeployIInv, DeployTypes
<1>2. DTypeOK
    BY <1>1 DEF AgentTypes, ReleaseTypes, OperatorTypes, StateTypes, PassType, DTypeOK
<1>3. OnePass
    BY <1>1 DEF OnePass, AgentTypes, Busy
<1>4. LinkHolds
  <2>1. ASSUME current # "none" PROVE dir[current] # "absent" /\ current \in Versions
      BY <1>1, <2>1 DEF DeployDisk, StateTypes
  <2>2. ASSUME current # "none", kills = 0, dir[current] # "whole" PROVE FALSE
    <3>1. dir[current] = "torn" /\ current \in Versions
        BY <1>1, <2>1, <2>2 DEF ReleaseTypes
    <3>2. PICK a \in Agents : Tears(agent[a], current)
        BY <1>1, <2>2, <3>1 DEF DeployDisk
    <3> QED BY <1>1, <3>2 DEF Tears, DeployPasses, PassHolds
  <2> QED BY <2>1, <2>2 DEF LinkHolds
<1>5. SecretsFirst
    BY <1>1 DEF SecretsFirst, DeployDisk
<1>6. ProbedIsCurrent
  <2>1. ASSUME kills = 0, NEW a \in Agents, agent[a].pc \in {"health", "trust", "condemn"}
        PROVE  service.release = current /\ current = agent[a].version
    <3>1. \A b \in Agents : agent[b].pc \notin {"restart", "restart_back"}
        BY <1>3, <2>1 DEF OnePass
    <3> QED BY <1>1, <2>1, <3>1 DEF DeployDisk, DeployPasses, PassHolds
  <2>2. ASSUME kills = 0, \A b \in Agents : agent[b].pc = "idle"
        PROVE  service.release = current
      BY <1>1, <2>2 DEF DeployDisk
  <2> QED BY <2>1, <2>2 DEF ProbedIsCurrent
<1> QED BY <1>2, <1>3, <1>4, <1>5, <1>6 DEF DeployInv

(* Wherever passes of the release agent fail or are killed, and whatever   *)
(* operators promote meanwhile: passes do not overlap, the link names a    *)
(* release that is there, the service is not started without its required  *)
(* secret, and while no pass was killed the health that is judged is that  *)
(* of the release named by the link (deploy, install_release, verify_      *)
(* installed, prune).                                                      *)
THEOREM ReleaseStaysWhole == DSpec => []DeployInv
<1>1. DSpec => []DeployIInv
    BY DeployStart, DeployStep, PTL DEF DSpec
<1> QED BY <1>1, DeploySafe, PTL
=============================================================================
