--------------------------- MODULE GatewayProofs ---------------------------
(***************************************************************************)
(* Proofs about a gateway's connections: Gateway for any number of         *)
(* connections, request slots, sessions and policies and any limits, and   *)
(* the router of one connection's datagrams for any streams and bounds.    *)
(***************************************************************************)
EXTENDS Gateway, DatagramRouter, FiniteSetTheorems, TLAPS

Verdicts == Limits \cup {Denied, Unlimited}

(* An empty task slot, at any stage, is a task.                            *)
LEMMA NoTaskType == NoTask \in Tasks /\ \A s \in Stages :
                        [NoTask EXCEPT !.stage = s] \in Tasks
BY DEF NoTask, Tasks, Stages, Setup

(* Ending tasks keeps the types of tasks and permits.                      *)
LEMMA FinishType ==
    ASSUME TypeOK, NEW R \in SUBSET Reqs, NEW s \in Stages, Finish(R, s)
    PROVE  /\ task' \in [Reqs -> Tasks]
           /\ owners' \in [Policies -> SUBSET Reqs]
<1>1. [NoTask EXCEPT !.stage = s] \in Tasks  BY NoTaskType
<1>2. task' \in [Reqs -> Tasks]  BY <1>1 DEF TypeOK, Finish
<1>3. owners' \in [Policies -> SUBSET Reqs]  BY DEF TypeOK, Finish, DropPermits
<1> QED  BY <1>2, <1>3

(* Replacing one task by a task keeps their type.                          *)
LEMMA UpdateType ==
    ASSUME TypeOK, NEW r \in Reqs, NEW t \in Tasks, Update(r, t)
    PROVE  task' \in [Reqs -> Tasks]
BY DEF TypeOK, Update

(* The live requests of a connection are requests.                         *)
LEMMA LiveType == ASSUME NEW c PROVE Live(c) \in SUBSET Reqs
BY DEF Live

(* The first state is well typed.                                          *)
LEMMA TypeInit == Init => TypeOK
BY NoTaskType DEF Init, TypeOK, Absent

\* One request's step keeps the types.
LEMMA TypeRequest ==
    ASSUME TypeOK, NEW r \in Reqs, RequestStep(r) \/ Accept(r) \/ Lapse(r)
    PROVE  TypeOK'
<1>0. task[r] \in Tasks /\ {r} \in SUBSET Reqs  BY DEF TypeOK
<1>1. CASE Reject(r) \/ Close(r)
  BY <1>0, <1>1, FinishType DEF Reject, Close, TypeOK, envVars, Stages
<1>2. ASSUME NEW t \in Tasks, Update(r, t), UNCHANGED <<envVars, quotaVars>>
      PROVE  TypeOK'
  BY <1>2, UpdateType DEF TypeOK, envVars, quotaVars
<1>3. ASSUME NEW s \in Stages, Goto(r, s)
      PROVE  /\ [task[r] EXCEPT !.stage = s] \in Tasks
             /\ Update(r, [task[r] EXCEPT !.stage = s])
  BY <1>0, <1>3 DEF Goto, Tasks
<1>4. CASE Accept(r)
  <2> DEFINE b == Cardinality(Live(ConnOf[r])) >= MaxTunnels
  <2>1. b \in BOOLEAN  OBVIOUS
  <2>2. Update(r, [task[r] EXCEPT !.stage = "headers", !.over = b])
    BY <1>4 DEF Accept
  <2> HIDE DEF b
  <2>3. [task[r] EXCEPT !.stage = "headers", !.over = b] \in Tasks
    BY <1>0, <2>1 DEF Tasks, Stages
  <2> QED  BY <1>2, <1>4, <2>2, <2>3 DEF Accept
<1>5. CASE Resolve(r)
  BY <1>1, <1>2, <1>3, <1>5 DEF Resolve, Stages
<1>6. CASE Ready(r)
  BY <1>2, <1>3, <1>6 DEF Ready, Stages, Setup
<1>7. CASE Verify(r)
  <2>1. \A s \in Sids \cup {NoSid}, e \in {"none", "ahead", "past"} :
           [task[r] EXCEPT !.stage = "check", !.sid = s, !.exp = e] \in Tasks
    BY <1>0 DEF Tasks, Stages, Setup
  <2> QED  BY <1>1, <1>2, <1>7, <2>1 DEF Verify
<1>8. CASE Check(r)
  <2> DEFINE b == task[r].exp = "ahead"
             t == [task[r] EXCEPT !.stage = "track", !.armed = b]
  <2>1. b \in BOOLEAN  OBVIOUS
  <2>2. t \in Tasks
    <3> HIDE DEF b
    <3> QED  BY <1>0, <2>1 DEF Tasks, Stages, Setup
  <2>3. CASE Update(r, t) /\ UNCHANGED <<envVars, quotaVars>>
    <3> HIDE DEF t
    <3> QED  BY <1>2, <2>2, <2>3
  <2>4. CASE Goto(r, "policy") /\ UNCHANGED <<envVars, quotaVars>>
    BY <1>2, <1>3, <2>4 DEF Stages, Setup
  <2> QED  BY <1>1, <1>8, <2>3, <2>4 DEF Check
<1>9. CASE Track(r)
  <2>1. [task[r] EXCEPT !.stage = "policy", !.end = "tracked",
                        !.unseen = FALSE] \in Tasks
    BY <1>0 DEF Tasks, Stages, Setup
  <2> QED  BY <1>2, <1>9, <2>1 DEF Track
<1>10. CASE Enforce(r)
  <2>1. ASSUME NEW p \in Policies, rules[p] # Denied
        PROVE  [task[r] EXCEPT !.stage = "quota", !.policy = p,
                               !.limit = rules[p]] \in Tasks
    <3>1. rules[p] \in Limits \cup {Unlimited}  BY <2>1 DEF TypeOK
    <3> QED  BY <1>0, <3>1 DEF Tasks, Stages, Setup
  <2> QED  BY <1>1, <1>2, <1>10, <2>1 DEF Enforce
<1>11. CASE Open(r)
  <2> DEFINE e == IF task[r].end = "tracked" THEN "attached" ELSE task[r].end
             t == [task[r] EXCEPT !.stage = "respond", !.end = e]
  <2>1. e \in {"none", "tracked", "attached", "watching"}  BY <1>0 DEF Tasks
  <2>2. t \in Tasks
    <3> HIDE DEF e
    <3> QED  BY <1>0, <2>1 DEF Tasks, Stages
  <2>3. CASE Update(r, t) /\ UNCHANGED <<envVars, quotaVars>>
    <3> HIDE DEF t
    <3> QED  BY <1>2, <2>2, <2>3
  <2> QED  BY <1>1, <1>11, <2>3 DEF Open
<1>12. CASE Respond(r)
  BY <1>1, <1>2, <1>3, <1>12 DEF Respond, Stages
<1>13. CASE PollEnd(r)
  <2>1. [task[r] EXCEPT !.end = "watching", !.unseen = FALSE] \in Tasks
    BY <1>0 DEF Tasks
  <2> QED  BY <1>1, <1>2, <1>13, <2>1 DEF PollEnd
<1>14. CASE Lapse(r)
  <2>1. [task[r] EXCEPT !.exp = "past"] \in Tasks  BY <1>0 DEF Tasks
  <2> QED  BY <1>2, <1>14, <2>1 DEF Lapse
<1>15. CASE Meter(r)
  <2> DEFINE p == task[r].policy
  <2>1. CASE Goto(r, "connect") /\ UNCHANGED <<envVars, quotaVars>>
    BY <1>2, <1>3, <2>1 DEF Stages, Setup
  <2>2. CASE /\ task[r].limit # Unlimited
             /\ size' = [size EXCEPT ![p] = SemaphoreSize(r)]
             /\ UNCHANGED envVars
    <3>0. SemaphoreSize(r) \in Nat \/ p \notin Policies
      BY <1>0, <2>2, GatewayAssumption DEF SemaphoreSize, TypeOK, Tasks, Absent
    <3>1. size' \in [Policies -> Nat \cup {Absent}]
      BY <2>2, <3>0 DEF TypeOK
    <3>2. CASE Finish({r}, "refuse")
      BY <1>0, <2>2, <3>1, <3>2, FinishType DEF TypeOK, envVars, Stages
    <3>3. CASE owners' = [owners EXCEPT ![p] = @ \cup {r}] /\ Goto(r, "connect")
      <4>1. owners' \in [Policies -> SUBSET Reqs]  BY <3>3 DEF TypeOK
      <4>2. task' \in [Reqs -> Tasks]
        BY <1>3, <3>3, UpdateType DEF Stages, Setup
      <4> QED  BY <2>2, <3>1, <4>1, <4>2 DEF TypeOK, envVars
    <3> QED  BY <1>15, <2>2, <3>2, <3>3 DEF Meter
  <2> QED  BY <1>15, <2>1, <2>2 DEF Meter
<1> QED
  BY <1>1, <1>4, <1>5, <1>6, <1>7, <1>8, <1>9, <1>10, <1>11, <1>12, <1>13,
     <1>14, <1>15 DEF RequestStep, HeadersLost, Answered, Expire, RelayEnds

(* Every step keeps the types.                                             *)
LEMMA TypeNext == TypeOK /\ [Next]_vars => TypeOK'
<1> SUFFICES ASSUME TypeOK, [Next]_vars PROVE TypeOK'  OBVIOUS
<1>1. ASSUME NEW c \in Conns,
             Incoming(c) \/ Handshake(c) \/ GoAway(c)
      PROVE  TypeOK'
  BY <1>1 DEF Incoming, Handshake, GoAway, TypeOK, quotaVars
<1>2. ASSUME NEW c \in Conns, Drained(c) \/ Lost(c)  PROVE  TypeOK'
  <2>1. EndConnection(c)  BY <1>2 DEF Drained, Lost
  <2>2. /\ task' \in [Reqs -> Tasks]
        /\ owners' \in [Policies -> SUBSET Reqs]
    BY <2>1, LiveType, FinishType DEF EndConnection, Stages
  <2> QED  BY <2>1, <2>2 DEF EndConnection, TypeOK
<1>3. ASSUME NEW r \in Reqs, Accept(r) \/ RequestStep(r) \/ Lapse(r)
      PROVE  TypeOK'
  BY <1>3, TypeRequest
<1>4. ASSUME NEW S \in SUBSET Sids, Replace(S)  PROVE  TypeOK'
  <2>0. \A t \in Tasks : [t EXCEPT !.unseen = TRUE] \in Tasks  BY DEF Tasks
  <2>1. \A r \in Reqs : [task[r] EXCEPT !.unseen = TRUE] \in Tasks
    BY <2>0 DEF TypeOK
  <2> QED  BY <1>4, <2>1 DEF Replace, TypeOK, quotaVars
<1>5. ASSUME NEW set \in [Policies -> Verdicts], Store(set)  PROVE  TypeOK'
  BY <1>5 DEF Store, TypeOK, quotaVars, Verdicts
<1>6. CASE Shutdown
  BY <1>6 DEF Shutdown, TypeOK, quotaVars
<1>7. CASE Stop
  <2>1. /\ task' \in [Reqs -> Tasks]
        /\ owners' \in [Policies -> SUBSET Reqs]
    BY <1>7, FinishType DEF Stop, Stages
  <2> QED  BY <1>7, <2>1 DEF Stop, TypeOK
<1>8. CASE UNCHANGED vars
  BY <1>8 DEF vars, TypeOK
<1> QED
  BY <1>1, <1>2, <1>3, <1>4, <1>5, <1>6, <1>7, <1>8 DEF Next, Verdicts

\* Every reachable state of the gateway is well typed.
THEOREM TypeCorrect == Spec => []TypeOK
BY TypeInit, TypeNext, PTL DEF Spec

-----------------------------------------------------------------------------
(***************************************************************************)
(* The end of a session reaches its tunnels.                               *)
(***************************************************************************)
LEMMA SessionFinish ==
    ASSUME TypeOK, SessionInv, NEW R \in SUBSET Reqs,
           NEW s \in {"idle", "refuse"}, Finish(R, s), revoked' = revoked
    PROVE  SessionInv'
<1> SUFFICES ASSUME NEW q \in Reqs PROVE SessionKept(task[q])'
  BY DEF SessionInv
<1>1. CASE q \in R
  <2>1. task'[q] = [NoTask EXCEPT !.stage = s]  BY <1>1 DEF Finish
  <2>2. task'[q].sid = NoSid /\ task'[q].end = "none"  BY <2>1 DEF NoTask
  <2> QED  BY <2>2 DEF SessionKept
<1>2. CASE q \notin R
  BY <1>2 DEF Finish, SessionInv, SessionKept
<1> QED  BY <1>1, <1>2

(* A step that changes one task and leaves it watched keeps SessionInv.    *)
LEMMA SessionUpdate ==
    ASSUME TypeOK, SessionInv, NEW r \in Reqs, NEW t, Update(r, t),
           revoked' = revoked, SessionKept(t)
    PROVE  SessionInv'
<1> SUFFICES ASSUME NEW q \in Reqs PROVE SessionKept(task[q])'
  BY DEF SessionInv
<1>1. task'[q] = IF q = r THEN t ELSE task[q]  BY DEF Update, TypeOK
<1>2. SessionKept(task'[q])  BY <1>1 DEF SessionInv
<1> QED  BY <1>2 DEF SessionKept

(* The layers, the relay and the end of a request keep SessionInv.         *)
LEMMA SessionRequest ==
    ASSUME TypeOK, SessionInv, NEW r \in Reqs,
           RequestStep(r) \/ Accept(r) \/ Lapse(r)
    PROVE  SessionInv'
<1>0. /\ task[r] \in Tasks /\ {r} \in SUBSET Reqs
      /\ SessionKept(task[r])
  BY DEF TypeOK, SessionInv
<1>1. CASE Reject(r) \/ Close(r)
  BY <1>0, <1>1, SessionFinish DEF Reject, Close, envVars
<1>2. ASSUME NEW t, Update(r, t), SessionKept(t), UNCHANGED <<envVars, quotaVars>>
      PROVE  SessionInv'
  BY <1>2, SessionUpdate DEF envVars
<1>3. CASE Accept(r)
  <2>1. \A b : SessionKept([task[r] EXCEPT !.stage = "headers", !.over = b])
    BY <1>0, <1>3 DEF Accept, SessionKept, Tasks, Granted
  <2> QED  BY <1>2, <1>3, <2>1 DEF Accept
<1>4. ASSUME NEW s \in {"exchange", "ready", "verify"},
             task[r].stage \in {"headers", "ready"}
      PROVE  SessionKept([task[r] EXCEPT !.stage = s])
  BY <1>0, <1>4 DEF SessionKept, Tasks, Granted
<1>5. CASE Resolve(r) \/ Ready(r)
  BY <1>1, <1>2, <1>4, <1>5 DEF Resolve, Ready, Goto
<1>6. CASE Verify(r)
  <2>1. \A s \in Sids \cup {NoSid}, e \in {"none", "ahead", "past"} :
           SessionKept([task[r] EXCEPT !.stage = "check", !.sid = s, !.exp = e])
    BY <1>0, <1>6 DEF Verify, SessionKept, Tasks, Granted
  <2> QED  BY <1>1, <1>2, <1>6, <2>1 DEF Verify
<1>7. CASE Check(r)
  <2> DEFINE t == [task[r] EXCEPT !.stage = "track",
                                  !.armed = task[r].exp = "ahead"]
  <2>1. SessionKept(t) \/ task[r].exp = "past"
    BY <1>0, <1>7 DEF Check, SessionKept, Tasks, Granted
  <2>2. task[r].sid = NoSid =>
           SessionKept([task[r] EXCEPT !.stage = "policy"])
    BY <1>0, <1>7 DEF Check, SessionKept, Tasks, Granted
  <2> HIDE DEF t
  <2>3. \/ Reject(r)
        \/ /\ task[r].sid = NoSid /\ Goto(r, "policy")
           /\ UNCHANGED <<envVars, quotaVars>>
        \/ /\ task[r].exp # "past" /\ Update(r, t)
           /\ UNCHANGED <<envVars, quotaVars>>
    BY <1>7 DEF Check, t
  <2> QED  BY <1>1, <1>2, <2>1, <2>2, <2>3 DEF Goto
<1>8. CASE Track(r)
  <2>1. SessionKept([task[r] EXCEPT !.stage = "policy", !.end = "tracked",
                                    !.unseen = FALSE])
    BY <1>0, <1>8 DEF Track, SessionKept, Tasks, Granted
  <2> QED  BY <1>2, <1>8, <2>1 DEF Track
<1>9. CASE Enforce(r)
  <2>1. \A p, l : SessionKept([task[r] EXCEPT !.stage = "quota", !.policy = p,
                                              !.limit = l])
    BY <1>0, <1>9 DEF Enforce, SessionKept, Tasks, Granted
  <2> QED  BY <1>1, <1>2, <1>9, <2>1 DEF Enforce
<1>10. CASE Meter(r)
  <2>1. SessionKept([task[r] EXCEPT !.stage = "connect"])
    BY <1>0, <1>10 DEF Meter, SessionKept, Tasks, Granted
  <2>2. revoked' = revoked /\ (Goto(r, "connect") \/ Finish({r}, "refuse"))
    BY <1>10 DEF Meter, envVars
  <2> QED  BY <1>0, <2>1, <2>2, SessionFinish, SessionUpdate DEF Goto
<1>11. CASE Open(r)
  <2> DEFINE t == [task[r] EXCEPT !.stage = "respond",
                      !.end = IF @ = "tracked" THEN "attached" ELSE @]
  <2>1. SessionKept(t)
    BY <1>0, <1>11 DEF Open, SessionKept, Tasks, Granted
  <2>2. Reject(r) \/ (Update(r, t) /\ UNCHANGED <<envVars, quotaVars>>)
    BY <1>11 DEF Open
  <2> HIDE DEF t
  <2> QED  BY <1>1, <1>2, <2>1, <2>2
<1>12. CASE Respond(r)
  <2>1. SessionKept([task[r] EXCEPT !.stage = "relay"])
    BY <1>0, <1>12 DEF Respond, SessionKept, Tasks, Granted
  <2> QED  BY <1>1, <1>2, <1>12, <2>1 DEF Respond, Goto
<1>13. CASE PollEnd(r)
  <2>1. task[r].sid \notin revoked =>
           SessionKept([task[r] EXCEPT !.end = "watching", !.unseen = FALSE])
    BY <1>0, <1>13 DEF PollEnd, SessionKept, Tasks, Granted
  <2> QED  BY <1>1, <1>2, <1>13, <2>1 DEF PollEnd
<1>14. CASE Lapse(r)
  <2>1. SessionKept([task[r] EXCEPT !.exp = "past"])
    BY <1>0, <1>14 DEF Lapse, SessionKept, Tasks, Granted
  <2> QED  BY <1>2, <1>14, <2>1 DEF Lapse
<1> QED
  BY <1>1, <1>3, <1>5, <1>6, <1>7, <1>8, <1>9, <1>10, <1>11, <1>12,
     <1>13, <1>14 DEF RequestStep, HeadersLost, Answered, Expire, RelayEnds

(* So does every other step.                                               *)
LEMMA SessionNext == TypeOK /\ SessionInv /\ [Next]_vars => SessionInv'
<1> SUFFICES ASSUME TypeOK, SessionInv, [Next]_vars PROVE SessionInv'
  OBVIOUS
<1>1. CASE UNCHANGED <<task, revoked>>
  BY <1>1 DEF SessionInv, SessionKept
<1>2. ASSUME NEW c \in Conns, Drained(c) \/ Lost(c)  PROVE  SessionInv'
  BY <1>2, LiveType, SessionFinish DEF Drained, Lost, EndConnection
<1>3. ASSUME NEW r \in Reqs, Accept(r) \/ RequestStep(r) \/ Lapse(r)
      PROVE  SessionInv'
  BY <1>3, SessionRequest
<1>4. ASSUME NEW S \in SUBSET Sids, Replace(S)  PROVE  SessionInv'
  <2> SUFFICES ASSUME NEW q \in Reqs PROVE SessionKept(task[q])'
    BY DEF SessionInv
  <2>1. task[q] \in Tasks /\ SessionKept(task[q])  BY DEF TypeOK, SessionInv
  <2>2. CASE task[q].end = "none"
    BY <1>4, <2>1, <2>2 DEF Replace, SessionKept
  <2>3. CASE task[q].end # "none"
    <3>1. task'[q] = [task[q] EXCEPT !.unseen = TRUE]
      BY <1>4, <2>3 DEF Replace
    <3> QED  BY <2>1, <3>1 DEF SessionKept, Tasks
  <2> QED  BY <2>2, <2>3
<1>5. CASE Stop
  BY <1>5, SessionFinish DEF Stop
<1>6. CASE \E c \in Conns : Incoming(c) \/ Handshake(c) \/ GoAway(c)
  BY <1>1, <1>6 DEF Incoming, Handshake, GoAway
<1>7. CASE Shutdown \/ UNCHANGED vars
  BY <1>1, <1>7 DEF Shutdown, vars
<1>8. CASE \E set \in [Policies -> Verdicts] : Store(set)
  BY <1>1, <1>8 DEF Store
<1> QED
  BY <1>2, <1>3, <1>4, <1>5, <1>6, <1>7, <1>8 DEF Next, Verdicts

\* A tunnel's TunnelEnd is where its stage says, with the deadline its
\* credential asks for, and has a change to see whenever its session is
\* revoked: the inductive form of RevocationPending and ExpiryArmed.
THEOREM SessionInvariant == Spec => []SessionInv
<1>1. Init => SessionInv
  <2> SUFFICES ASSUME Init, NEW q \in Reqs PROVE SessionKept(task[q])
    BY DEF SessionInv
  <2>1. task[q] = NoTask  BY DEF Init
  <2>2. task[q].sid = NoSid /\ task[q].end = "none"  BY <2>1 DEF NoTask
  <2> QED  BY <2>2 DEF SessionKept
<1> QED  BY <1>1, SessionNext, TypeCorrect, PTL DEF Spec

\* No revocation is missed: whenever the session of a relaying tunnel is in
\* the revoked set, TunnelEnd::ended has a poll due that will see it.
THEOREM RevocationNotMissed == Spec => []RevocationPending
<1>1. TypeOK /\ SessionInv => RevocationPending
  BY GatewayAssumption
     DEF TypeOK, SessionInv, SessionKept, RevocationPending, Relaying
<1> QED  BY <1>1, TypeCorrect, SessionInvariant, PTL

\* No tunnel of a session relays without the deadline of its credential.
THEOREM DeadlineArmed == Spec => []ExpiryArmed
<1>1. SessionInv => ExpiryArmed
  BY DEF SessionInv, SessionKept, ExpiryArmed, Relaying, Granted
<1> QED  BY <1>1, SessionInvariant, PTL

-----------------------------------------------------------------------------
(***************************************************************************)
(* Quota permits.                                                          *)
(***************************************************************************)
LEMMA ReqCard ==
    ASSUME NEW T \in SUBSET Reqs, NEW U \in SUBSET T
    PROVE  /\ IsFiniteSet(T) /\ IsFiniteSet(U)
           /\ Cardinality(T) \in Nat /\ Cardinality(U) \in Nat
           /\ Cardinality(U) <= Cardinality(T)
BY GatewayAssumption, FS_Subset, FS_CardinalityType

\* A semaphore with permits out has been made, so its size stays.
LEMMA SemaphoreMade ==
    ASSUME TypeOK, QuotaInv, NEW p \in Policies, owners[p] # {}
    PROVE  size[p] \in Nat
BY ReqCard DEF TypeOK, QuotaInv, Absent

\* Ending tasks gives back their permits and nobody else's.
LEMMA QuotaFinish ==
    ASSUME TypeOK, QuotaInv, NEW R \in SUBSET Reqs,
           NEW s \in {"idle", "refuse"}, Finish(R, s),
           \A p \in Policies : owners[p] # {} => size'[p] = size[p]
    PROVE  QuotaInv'
<1>1. \A q \in R : task'[q].stage = s
  BY DEF Finish, NoTask
<1>2. \A q \in Reqs \ R : task'[q] = task[q]
  BY DEF Finish
<1>3. \A p \in Policies : owners'[p] = owners[p] \ R
  BY DEF Finish, DropPermits
<1>4. PermitsReleased'
  BY <1>2, <1>3 DEF PermitsReleased, QuotaInv, TypeOK
<1>5. ASSUME NEW p \in Policies, owners'[p] # {}
      PROVE  Cardinality(owners'[p]) <= size'[p]
  <2>1. owners[p] # {} /\ owners'[p] \in SUBSET owners[p]  BY <1>3, <1>5
  <2>2. /\ Cardinality(owners'[p]) <= Cardinality(owners[p])
        /\ Cardinality(owners'[p]) \in Nat /\ Cardinality(owners[p]) \in Nat
    BY <2>1, ReqCard DEF TypeOK
  <2>3. Cardinality(owners[p]) <= size[p] /\ size[p] \in Nat /\ size'[p] = size[p]
    BY <2>1, SemaphoreMade DEF QuotaInv
  <2> QED  BY <2>2, <2>3
<1>6. ASSUME NEW q \in Reqs
      PROVE  /\ task'[q].stage = "quota" => task'[q].policy \in Policies
             /\ task'[q].stage \in Granted /\ task'[q].limit # Unlimited =>
                   /\ task'[q].policy \in Policies
                   /\ q \in owners'[task'[q].policy]
  <2>1. CASE q \in R  BY <1>1, <2>1 DEF Granted
  <2>2. CASE q \notin R  BY <1>2, <1>3, <2>2 DEF QuotaInv
  <2> QED  BY <2>1, <2>2
<1> QED  BY <1>4, <1>5, <1>6 DEF QuotaInv

\* A step that leaves the table alone and neither enters nor leaves the
\* stages past the quota layer.
LEMMA QuotaLocal ==
    ASSUME TypeOK, QuotaInv, NEW r \in Reqs, NEW t, Update(r, t),
           UNCHANGED quotaVars,
           \/ /\ t.policy = task[r].policy /\ t.limit = task[r].limit
              /\ t.stage \in Granted <=> task[r].stage \in Granted
              /\ t.stage = "quota" => task[r].stage = "quota"
           \/ /\ task[r].stage \notin Granted /\ t.stage \notin Granted
              /\ t.policy \in Policies
    PROVE  QuotaInv'
<1>0. task'[r] = t /\ \A q \in Reqs \ {r} : task'[q] = task[q]
  BY DEF Update, TypeOK
<1>1. ASSUME NEW p \in Policies, NEW q \in owners'[p]
      PROVE  task'[q].stage \in Granted /\ task'[q].policy = p
  <2>1. /\ q \in Reqs /\ q \in owners[p]
        /\ task[q].stage \in Granted /\ task[q].policy = p
    BY <1>1 DEF QuotaInv, PermitsReleased, quotaVars, TypeOK
  <2>2. CASE q = r  BY <1>0, <2>1, <2>2
  <2>3. CASE q # r  BY <1>0, <2>1, <2>3
  <2> QED  BY <2>2, <2>3
<1>t. PermitsReleased'  BY <1>1 DEF PermitsReleased
<1>2. \A p \in Policies :
         owners'[p] # {} => Cardinality(owners'[p]) <= size'[p]
  BY DEF QuotaInv, quotaVars
<1> QED  BY <1>0, <1>t, <1>2 DEF QuotaInv, quotaVars

(* Meter::call takes a permit only from a semaphore that has one.          *)
LEMMA QuotaMeter ==
    ASSUME TypeOK, QuotaInv, NEW r \in Reqs, Meter(r)
    PROVE  QuotaInv'
<1> DEFINE p == task[r].policy
<1>0. /\ task[r] \in Tasks /\ p \in Policies /\ task[r].stage = "quota"
      /\ {r} \in SUBSET Reqs
  BY DEF TypeOK, QuotaInv, Meter
<1>1. \A k \in Policies : r \notin owners[k]
  BY <1>0 DEF QuotaInv, PermitsReleased, Granted
<1>2. Goto(r, "connect") =>
        /\ task'[r].stage = "connect" /\ task'[r].policy = p
        /\ task'[r].limit = task[r].limit
        /\ \A q \in Reqs \ {r} : task'[q] = task[q]
  BY <1>0 DEF Goto, Update, TypeOK, Tasks
<1>d. DOMAIN size = Policies /\ DOMAIN owners = Policies
  BY DEF TypeOK
<1>3. CASE /\ task[r].limit = Unlimited /\ Goto(r, "connect")
           /\ UNCHANGED <<envVars, quotaVars>>
  <2>1. ASSUME NEW k \in Policies, NEW q \in owners'[k]
        PROVE  task'[q].stage \in Granted /\ task'[q].policy = k
    <3>1. q \in Reqs /\ q # r /\ q \in owners[k]
      BY <1>1, <1>3, <2>1 DEF quotaVars, TypeOK
    <3>2. task'[q] = task[q]  BY <1>2, <1>3, <3>1
    <3> QED  BY <3>1, <3>2 DEF QuotaInv, PermitsReleased
  <2>2. PermitsReleased'  BY <2>1 DEF PermitsReleased
  <2> QED  BY <1>2, <1>3, <2>2 DEF QuotaInv, quotaVars
<1>4. CASE /\ task[r].limit # Unlimited
           /\ size' = [size EXCEPT ![p] = SemaphoreSize(r)]
  <2>1. \A k \in Policies : owners[k] # {} => size'[k] = size[k]
    <3>1. ASSUME NEW k \in Policies, owners[k] # {}
          PROVE  size'[k] = size[k]
      <4>1. size[k] # Absent  BY <3>1, SemaphoreMade DEF Absent
      <4> QED  BY <1>0, <1>d, <1>4, <4>1 DEF SemaphoreSize
    <3> QED  BY <3>1
  <2>2. SemaphoreSize(r) \in Nat
    BY <1>0, <1>4, GatewayAssumption DEF SemaphoreSize, TypeOK, Tasks, Absent
  <2>3. CASE Finish({r}, "refuse")
    BY <1>0, <2>1, <2>3, QuotaFinish
  <2>4. CASE /\ Cardinality(owners[p]) < SemaphoreSize(r)
             /\ owners' = [owners EXCEPT ![p] = @ \cup {r}]
             /\ Goto(r, "connect")
    <3>2. /\ owners'[p] = owners[p] \cup {r}
          /\ \A k \in Policies \ {p} : owners'[k] = owners[k]
      BY <1>0, <1>d, <2>4
    <3>4. PermitsReleased'
      <4>1. ASSUME NEW k \in Policies, NEW q \in owners'[k]
            PROVE  task'[q].stage \in Granted /\ task'[q].policy = k
        <5>1. CASE q = r
          <6>1. k = p  BY <1>1, <3>2, <5>1
          <6> QED  BY <1>2, <2>4, <5>1, <6>1 DEF Granted
        <5>2. CASE q # r
          <6>1. q \in owners[k] /\ q \in Reqs  BY <1>0, <3>2, <5>2 DEF TypeOK
          <6>2. task'[q] = task[q]  BY <1>2, <2>4, <5>2, <6>1
          <6> QED  BY <6>1, <6>2 DEF QuotaInv, PermitsReleased
        <5> QED  BY <5>1, <5>2
      <4> QED  BY <4>1 DEF PermitsReleased
    <3>5. Cardinality(owners'[p]) <= size'[p]
      <4>1. IsFiniteSet(owners[p]) /\ Cardinality(owners[p]) \in Nat
        BY <1>0, ReqCard DEF TypeOK
      <4>2. Cardinality(owners'[p]) = Cardinality(owners[p]) + 1
        <5> HIDE DEF p
        <5>1. r \notin owners[p]  BY <1>0, <1>1
        <5>2. Cardinality(owners[p] \cup {r}) = Cardinality(owners[p]) + 1
          BY <4>1, <5>1, FS_AddElement
        <5> QED  BY <3>2, <5>2
      <4>3. size'[p] = SemaphoreSize(r)  BY <1>0, <1>d, <1>4
      <4>4. Cardinality(owners[p]) < SemaphoreSize(r)  BY <2>4
      <4> HIDE DEF p
      <4> QED  BY <2>2, <4>1, <4>2, <4>3, <4>4
    <3>6. ASSUME NEW k \in Policies \ {p}, owners'[k] # {}
          PROVE  Cardinality(owners'[k]) <= size'[k]
      BY <2>1, <3>2, <3>6 DEF QuotaInv
    <3>7. ASSUME NEW q \in Reqs
          PROVE  /\ task'[q].stage = "quota" => task'[q].policy \in Policies
                 /\ task'[q].stage \in Granted /\ task'[q].limit # Unlimited =>
                       /\ task'[q].policy \in Policies
                       /\ q \in owners'[task'[q].policy]
      <4>1. CASE q = r  BY <1>0, <1>2, <2>4, <3>2, <4>1
      <4>2. CASE q # r
        <5>1. task'[q] = task[q]  BY <1>2, <2>4, <4>2
        <5>2. \A k \in Policies : owners[k] \subseteq owners'[k]  BY <3>2
        <5> QED  BY <5>1, <5>2 DEF QuotaInv
      <4> QED  BY <4>1, <4>2
    <3> QED  BY <3>4, <3>5, <3>6, <3>7 DEF QuotaInv
  <2> QED  BY <1>4, <2>3, <2>4, Zenon DEF Meter
<1> QED  BY <1>3, <1>4 DEF Meter

(* The other steps of a request keep permits with the tasks that own them. *)
LEMMA QuotaRequest ==
    ASSUME TypeOK, QuotaInv, NEW r \in Reqs,
           RequestStep(r) \/ Accept(r) \/ Lapse(r)
    PROVE  QuotaInv'
<1>0. task[r] \in Tasks /\ {r} \in SUBSET Reqs  BY DEF TypeOK
<1>1. CASE Reject(r) \/ Close(r)
  BY <1>0, <1>1, QuotaFinish DEF Reject, Close
<1>2. ASSUME NEW s, Goto(r, s), UNCHANGED quotaVars, s # "quota",
             s \in Granted <=> task[r].stage \in Granted
      PROVE  QuotaInv'
  <2> DEFINE t == [task[r] EXCEPT !.stage = s]
  <2>1. t.stage = s /\ t.policy = task[r].policy /\ t.limit = task[r].limit
    BY <1>0 DEF Tasks
  <2>2. Update(r, t)  BY <1>2 DEF Goto
  <2> HIDE DEF t
  <2> QED  BY <1>2, <2>1, <2>2, QuotaLocal
<1>3. CASE Accept(r)
  <2> DEFINE t == [task[r] EXCEPT !.stage = "headers",
                      !.over = Cardinality(Live(ConnOf[r])) >= MaxTunnels]
  <2>1. t.stage = "headers" /\ t.policy = task[r].policy /\ t.limit = task[r].limit
    BY <1>0 DEF Tasks
  <2>2. Update(r, t) /\ task[r].stage = "idle" /\ UNCHANGED quotaVars
    BY <1>3 DEF Accept
  <2> HIDE DEF t
  <2> QED  BY <2>1, <2>2, QuotaLocal DEF Granted
<1>4. CASE Resolve(r) \/ Ready(r) \/ Respond(r)
  BY <1>1, <1>2, <1>4 DEF Resolve, Ready, Respond, Granted
<1>5. CASE Verify(r)
  <2>1. CASE Reject(r)  BY <1>1, <2>1
  <2>2. ASSUME NEW s \in Sids \cup {NoSid}, NEW e \in {"none", "ahead", "past"},
               Update(r, [task[r] EXCEPT !.stage = "check", !.sid = s, !.exp = e]),
               UNCHANGED quotaVars
        PROVE  QuotaInv'
    <3> DEFINE t == [task[r] EXCEPT !.stage = "check", !.sid = s, !.exp = e]
    <3>1. t.stage = "check" /\ t.policy = task[r].policy /\ t.limit = task[r].limit
      BY <1>0 DEF Tasks
    <3>2. Update(r, t)  BY <2>2
    <3>3. task[r].stage = "verify"  BY <1>5 DEF Verify
    <3> HIDE DEF t
    <3> QED  BY <2>2, <3>1, <3>2, <3>3, QuotaLocal DEF Granted
  <2> QED  BY <1>5, <2>1, <2>2 DEF Verify
<1>6. CASE Check(r)
  <2> DEFINE t == [task[r] EXCEPT !.stage = "track",
                                  !.armed = task[r].exp = "ahead"]
  <2>1. t.stage = "track" /\ t.policy = task[r].policy /\ t.limit = task[r].limit
    BY <1>0 DEF Tasks
  <2>2. /\ task[r].stage = "check"
        /\ \/ Reject(r)
           \/ (Update(r, t) \/ Goto(r, "policy")) /\ UNCHANGED quotaVars
    BY <1>6 DEF Check
  <2> HIDE DEF t
  <2> QED  BY <1>1, <1>2, <2>1, <2>2, QuotaLocal DEF Granted
<1>7. CASE Track(r)
  <2> DEFINE t == [task[r] EXCEPT !.stage = "policy", !.end = "tracked",
                                  !.unseen = FALSE]
  <2>1. t.stage = "policy" /\ t.policy = task[r].policy /\ t.limit = task[r].limit
    BY <1>0 DEF Tasks
  <2>2. Update(r, t) /\ task[r].stage = "track" /\ UNCHANGED quotaVars
    BY <1>7 DEF Track
  <2> HIDE DEF t
  <2> QED  BY <2>1, <2>2, QuotaLocal DEF Granted
<1>8. CASE Enforce(r)
  <2> SUFFICES ASSUME NEW p \in Policies, task[r].stage = "policy",
                      Update(r, [task[r] EXCEPT !.stage = "quota", !.policy = p,
                                                !.limit = rules[p]]),
                      UNCHANGED quotaVars
               PROVE  QuotaInv'
    BY <1>1, <1>8 DEF Enforce
  <2> DEFINE t == [task[r] EXCEPT !.stage = "quota", !.policy = p,
                                  !.limit = rules[p]]
  <2>1. t.stage = "quota" /\ t.policy = p  BY <1>0 DEF Tasks
  <2>2. Update(r, t)  OBVIOUS
  <2> HIDE DEF t
  <2> QED  BY <2>1, <2>2, QuotaLocal DEF Granted
<1>9. CASE Open(r)
  <2> DEFINE t == [task[r] EXCEPT !.stage = "respond",
                      !.end = IF @ = "tracked" THEN "attached" ELSE @]
  <2>1. t.stage = "respond" /\ t.policy = task[r].policy /\ t.limit = task[r].limit
    BY <1>0 DEF Tasks
  <2>2. /\ task[r].stage = "connect"
        /\ Reject(r) \/ (Update(r, t) /\ UNCHANGED quotaVars)
    BY <1>9 DEF Open
  <2> HIDE DEF t
  <2> QED  BY <1>1, <2>1, <2>2, QuotaLocal DEF Granted
<1>10. CASE PollEnd(r)
  <2> DEFINE t == [task[r] EXCEPT !.end = "watching", !.unseen = FALSE]
  <2>1. /\ t.stage = task[r].stage /\ t.policy = task[r].policy
        /\ t.limit = task[r].limit
    BY <1>0 DEF Tasks
  <2>2. Close(r) \/ (Update(r, t) /\ UNCHANGED quotaVars)
    BY <1>10 DEF PollEnd
  <2> HIDE DEF t
  <2> QED  BY <1>1, <2>1, <2>2, QuotaLocal DEF Granted
<1>11. CASE Lapse(r)
  <2> DEFINE t == [task[r] EXCEPT !.exp = "past"]
  <2>1. /\ t.stage = task[r].stage /\ t.policy = task[r].policy
        /\ t.limit = task[r].limit
    BY <1>0 DEF Tasks
  <2>2. Update(r, t) /\ UNCHANGED quotaVars  BY <1>11 DEF Lapse
  <2> HIDE DEF t
  <2> QED  BY <2>1, <2>2, QuotaLocal
<1>12. CASE Meter(r)
  BY <1>12, QuotaMeter
<1> QED
  BY <1>1, <1>3, <1>4, <1>5, <1>6, <1>7, <1>8, <1>9, <1>10, <1>11, <1>12
     DEF RequestStep, HeadersLost, Answered, Expire, RelayEnds

(* So does every other step.                                               *)
LEMMA QuotaNext == TypeOK /\ QuotaInv /\ [Next]_vars => QuotaInv'
<1> SUFFICES ASSUME TypeOK, QuotaInv, [Next]_vars PROVE QuotaInv'  OBVIOUS
<1>1. CASE UNCHANGED <<task, size, owners>>
  BY <1>1 DEF QuotaInv, PermitsReleased
<1>2. ASSUME NEW c \in Conns, Drained(c) \/ Lost(c)  PROVE  QuotaInv'
  BY <1>2, LiveType, QuotaFinish DEF Drained, Lost, EndConnection
<1>3. ASSUME NEW r \in Reqs, Accept(r) \/ RequestStep(r) \/ Lapse(r)
      PROVE  QuotaInv'
  BY <1>3, QuotaRequest
<1>4. ASSUME NEW S \in SUBSET Sids, Replace(S)  PROVE  QuotaInv'
  <2>1. \A t \in Tasks : LET u == [t EXCEPT !.unseen = TRUE]
                         IN /\ u.stage = t.stage /\ u.policy = t.policy
                            /\ u.limit = t.limit
    BY DEF Tasks
  <2>2. \A q \in Reqs : /\ task'[q].stage = task[q].stage
                        /\ task'[q].policy = task[q].policy
                        /\ task'[q].limit = task[q].limit
    BY <1>4, <2>1 DEF Replace, TypeOK
  <2> QED  BY <1>4, <2>2 DEF Replace, QuotaInv, PermitsReleased, quotaVars, TypeOK
<1>5. CASE Stop
  BY <1>5, QuotaFinish DEF Stop
<1>6. CASE \E c \in Conns : Incoming(c) \/ Handshake(c) \/ GoAway(c)
  BY <1>1, <1>6 DEF Incoming, Handshake, GoAway, quotaVars
<1>7. CASE Shutdown \/ UNCHANGED vars
  BY <1>1, <1>7 DEF Shutdown, vars, quotaVars
<1>8. CASE \E set \in [Policies -> Verdicts] : Store(set)
  BY <1>1, <1>8 DEF Store, quotaVars
<1> QED
  BY <1>2, <1>3, <1>4, <1>5, <1>6, <1>7, <1>8 DEF Next, Verdicts

\* The permits of a policy's semaphore and the tasks entitled to them agree
\* at every step: the inductive form of QuotaHolds.
THEOREM QuotaInvariant == Spec => []QuotaInv
<1>1. Init => QuotaInv
  <2> SUFFICES ASSUME Init PROVE QuotaInv  OBVIOUS
  <2>1. \A q \in Reqs : task[q].stage = "idle"  BY DEF Init, NoTask
  <2> QED  BY <2>1 DEF Init, QuotaInv, PermitsReleased, Granted
<1> QED  BY <1>1, QuotaNext, TypeCorrect, PTL DEF Spec

\* No path through serve_request, no abort and no drain leaks a permit.
THEOREM NoPermitLeaks == Spec => []PermitsReleased
<1>1. QuotaInv => PermitsReleased  BY DEF QuotaInv
<1> QED  BY <1>1, QuotaInvariant, PTL

\* limits.connections is respected: the tunnels relaying under a limited
\* decision of a policy never outnumber the semaphore made for it.
THEOREM QuotaRespected == Spec => []QuotaHolds
<1>1. TypeOK /\ QuotaInv => QuotaHolds
  <2> SUFFICES ASSUME TypeOK, QuotaInv, NEW p \in Policies,
                      {r \in Relaying : /\ task[r].policy = p
                                        /\ task[r].limit # Unlimited} # {}
               PROVE  Cardinality({r \in Relaying :
                                      /\ task[r].policy = p
                                      /\ task[r].limit # Unlimited}) <= size[p]
    BY DEF QuotaHolds
  <2> DEFINE limited == {r \in Relaying : /\ task[r].policy = p
                                          /\ task[r].limit # Unlimited}
  <2>1. limited \subseteq owners[p]
    BY DEF QuotaInv, Relaying, Granted
  <2>2. IsFiniteSet(owners[p]) /\ Cardinality(owners[p]) \in Nat
    BY ReqCard DEF TypeOK
  <2>3. owners[p] # {}  BY <2>1
  <2>4. Cardinality(owners[p]) <= size[p]  BY <2>3 DEF QuotaInv
  <2> HIDE DEF limited
  <2>5. /\ Cardinality(limited) <= Cardinality(owners[p])
        /\ Cardinality(limited) \in Nat
    BY <2>1, <2>2, FS_Subset, FS_CardinalityType
  <2>6. size[p] \in Int  BY DEF TypeOK, Absent
  <2>7. Cardinality(limited) <= size[p]  BY <2>2, <2>4, <2>5, <2>6
  <2> QED  BY <2>7 DEF limited
<1> QED  BY <1>1, QuotaInvariant, TypeCorrect, PTL

-----------------------------------------------------------------------------
(***************************************************************************)
(* The cap on the tunnels of a connection.                                 *)
(***************************************************************************)
Counted(t) == t.stage # "idle" /\ ~t.over /\ t.stage # "refuse"
Serving(c) == {r \in Reqs : ConnOf[r] = c /\ Counted(task[r])}
Capped == \A c \in Conns : Cardinality(Serving(c)) <= MaxTunnels

\* A step that brings no request under the cap's count keeps it.
LEMMA CapShrinks ==
    ASSUME Capped, \A q \in Reqs : Counted(task'[q]) => Counted(task[q])
    PROVE  Capped'
<1> SUFFICES ASSUME NEW c \in Conns
             PROVE  Cardinality(Serving(c)') <= MaxTunnels
  BY DEF Capped
<1>1. Serving(c)' \in SUBSET Serving(c) /\ Serving(c) \in SUBSET Reqs
  BY DEF Serving, Counted
<1>2. /\ Cardinality(Serving(c)') <= Cardinality(Serving(c))
      /\ Cardinality(Serving(c)') \in Nat /\ Cardinality(Serving(c)) \in Nat
  BY <1>1, ReqCard
<1> QED  BY <1>2, GatewayAssumption DEF Capped

\* The JoinSet counts refusals and exchanges too, so a request taken below
\* the cap finds room under it.
LEMMA CapAccept ==
    ASSUME TypeOK, Capped, NEW r \in Reqs, Accept(r)
    PROVE  Capped'
<1> DEFINE d == ConnOf[r]
           b == Cardinality(Live(d)) >= MaxTunnels
           t == [task[r] EXCEPT !.stage = "headers", !.over = b]
<1>0. /\ task[r] \in Tasks /\ task[r].stage = "idle" /\ d \in Conns
  BY GatewayAssumption DEF TypeOK, Accept
<1>1. task'[r] = t /\ \A q \in Reqs \ {r} : task'[q] = task[q]
  BY DEF Accept, Update, TypeOK
<1>2. (t.over <=> b) /\ t.stage = "headers"
  <2> HIDE DEF b
  <2> QED  BY <1>0 DEF Tasks
<1> HIDE DEF t
<1>3. CASE b
  BY <1>1, <1>2, <1>3, CapShrinks DEF Counted
<1>4. CASE ~b
  <2> SUFFICES ASSUME NEW c \in Conns
               PROVE  Cardinality(Serving(c)') <= MaxTunnels
    BY DEF Capped
  <2>1. CASE c = d
    <3>1. /\ Serving(d) \in SUBSET Live(d) /\ Live(d) \in SUBSET Reqs
          /\ r \notin Serving(d)
      BY <1>0 DEF Serving, Live, Counted
    <3>2. Serving(d)' = Serving(d) \cup {r}
      BY <1>0, <1>1, <1>2, <1>4 DEF Serving, Counted
    <3>3. /\ Cardinality(Serving(d)) <= Cardinality(Live(d))
          /\ Cardinality(Serving(d)) \in Nat /\ Cardinality(Live(d)) \in Nat
          /\ IsFiniteSet(Serving(d))
      BY <3>1, ReqCard
    <3>4. Cardinality(Serving(d)') = Cardinality(Serving(d)) + 1
      BY <3>1, <3>2, <3>3, FS_AddElement
    <3>5. Cardinality(Live(d)) < MaxTunnels
      BY <1>4, <3>3, GatewayAssumption
    <3> QED  BY <2>1, <3>3, <3>4, <3>5, GatewayAssumption
  <2>2. CASE c # d
    <3>1. Serving(c)' = Serving(c)  BY <1>1, <2>2 DEF Serving
    <3> QED  BY <3>1 DEF Capped
  <2> QED  BY <2>1, <2>2
<1> QED  BY <1>3, <1>4

(* Ending tasks makes room under the cap.                                  *)
LEMMA CapFinish ==
    ASSUME Capped, NEW R \in SUBSET Reqs, NEW s \in {"idle", "refuse"},
           Finish(R, s)
    PROVE  Capped'
<1>1. \A q \in R : task'[q].stage = s  BY DEF Finish, NoTask
<1>2. \A q \in Reqs \ R : task'[q] = task[q]  BY DEF Finish
<1>3. \A q \in Reqs : Counted(task'[q]) => Counted(task[q])
  BY <1>1, <1>2 DEF Counted
<1> QED  BY <1>3, CapShrinks

(* No step of a request already accepted adds one.                         *)
LEMMA CapRequest ==
    ASSUME TypeOK, Capped, NEW r \in Reqs, RequestStep(r) \/ Lapse(r)
    PROVE  Capped'
<1>0. task[r] \in Tasks /\ {r} \in SUBSET Reqs  BY DEF TypeOK
<1>1. CASE Finish({r}, "idle") \/ Finish({r}, "refuse")
  BY <1>0, <1>1, CapFinish
<1>2. ASSUME NEW t, Update(r, t), t.over = task[r].over,
             task[r].stage \notin {"idle", "refuse"}
      PROVE  Capped'
  <2>1. task'[r] = t /\ \A q \in Reqs \ {r} : task'[q] = task[q]
    BY <1>2 DEF Update, TypeOK
  <2>2. \A q \in Reqs : Counted(task'[q]) => Counted(task[q])
    BY <1>2, <2>1 DEF Counted
  <2> QED  BY <2>2, CapShrinks
<1>3. ASSUME NEW s, Goto(r, s), task[r].stage \notin {"idle", "refuse"}
      PROVE  Capped'
  <2>1. [task[r] EXCEPT !.stage = s].over = task[r].over  BY <1>0 DEF Tasks
  <2> QED  BY <1>2, <1>3, <2>1 DEF Goto
<1>4. CASE Resolve(r) \/ Ready(r) \/ Respond(r) \/ Meter(r)
  BY <1>1, <1>3, <1>4 DEF Resolve, Ready, Respond, Meter, Reject, Close
<1>5. CASE Verify(r)
  <2>1. \A s, e : [task[r] EXCEPT !.stage = "check", !.sid = s,
                                  !.exp = e].over = task[r].over
    BY <1>0 DEF Tasks
  <2> QED  BY <1>1, <1>2, <1>5, <2>1 DEF Verify, Reject
<1>6. CASE Check(r)
  <2> DEFINE t == [task[r] EXCEPT !.stage = "track",
                                  !.armed = task[r].exp = "ahead"]
  <2>1. t.over = task[r].over  BY <1>0 DEF Tasks
  <2>2. /\ task[r].stage = "check"
        /\ Reject(r) \/ Update(r, t) \/ Goto(r, "policy")
    BY <1>6 DEF Check
  <2> HIDE DEF t
  <2> QED  BY <1>1, <1>2, <1>3, <2>1, <2>2 DEF Reject
<1>7. CASE Track(r)
  <2>1. [task[r] EXCEPT !.stage = "policy", !.end = "tracked",
                        !.unseen = FALSE].over = task[r].over
    BY <1>0 DEF Tasks
  <2> QED  BY <1>2, <1>7, <2>1 DEF Track
<1>8. CASE Enforce(r)
  <2>1. \A p, l : [task[r] EXCEPT !.stage = "quota", !.policy = p,
                                  !.limit = l].over = task[r].over
    BY <1>0 DEF Tasks
  <2> QED  BY <1>1, <1>2, <1>8, <2>1 DEF Enforce, Reject
<1>9. CASE Open(r)
  <2> DEFINE t == [task[r] EXCEPT !.stage = "respond",
                      !.end = IF @ = "tracked" THEN "attached" ELSE @]
  <2>1. t.over = task[r].over  BY <1>0 DEF Tasks
  <2>2. task[r].stage = "connect" /\ (Reject(r) \/ Update(r, t))
    BY <1>9 DEF Open
  <2> HIDE DEF t
  <2> QED  BY <1>1, <1>2, <2>1, <2>2 DEF Reject
<1>10. CASE PollEnd(r)
  <2>1. [task[r] EXCEPT !.end = "watching", !.unseen = FALSE].over = task[r].over
    BY <1>0 DEF Tasks
  <2> QED  BY <1>1, <1>2, <1>10, <2>1 DEF PollEnd, Close
<1>11. CASE Lapse(r)
  <2> DEFINE t == [task[r] EXCEPT !.exp = "past"]
  <2>1. t.over = task[r].over /\ t.stage = task[r].stage  BY <1>0 DEF Tasks
  <2>2. task'[r] = t /\ \A q \in Reqs \ {r} : task'[q] = task[q]
    BY <1>11 DEF Lapse, Update, TypeOK
  <2> HIDE DEF t
  <2>3. \A q \in Reqs : Counted(task'[q]) => Counted(task[q])
    BY <2>1, <2>2 DEF Counted
  <2> QED  BY <2>3, CapShrinks
<1> QED
  BY <1>1, <1>4, <1>5, <1>6, <1>7, <1>8, <1>9, <1>10, <1>11
     DEF RequestStep, HeadersLost, Answered, Expire, RelayEnds, Close

(* Only Accept adds a task, and it compares with the cap first.            *)
LEMMA CapNext == TypeOK /\ Capped /\ [Next]_vars => Capped'
<1> SUFFICES ASSUME TypeOK, Capped, [Next]_vars PROVE Capped'  OBVIOUS
<1>1. CASE UNCHANGED task
  BY <1>1 DEF Capped, Serving, Counted
<1>2. ASSUME NEW c \in Conns, Drained(c) \/ Lost(c)  PROVE  Capped'
  BY <1>2, LiveType, CapFinish DEF Drained, Lost, EndConnection
<1>3. ASSUME NEW r \in Reqs, Accept(r) \/ RequestStep(r) \/ Lapse(r)
      PROVE  Capped'
  BY <1>3, CapAccept, CapRequest
<1>4. ASSUME NEW S \in SUBSET Sids, Replace(S)  PROVE  Capped'
  <2>1. \A t \in Tasks : LET u == [t EXCEPT !.unseen = TRUE]
                         IN u.stage = t.stage /\ u.over = t.over
    BY DEF Tasks
  <2>2. \A q \in Reqs : /\ task'[q].stage = task[q].stage
                        /\ task'[q].over = task[q].over
    BY <1>4, <2>1 DEF Replace, TypeOK
  <2> QED  BY <2>2, CapShrinks DEF Counted
<1>5. CASE Stop
  BY <1>5, CapFinish DEF Stop
<1>6. CASE \E c \in Conns : Incoming(c) \/ Handshake(c) \/ GoAway(c)
  BY <1>1, <1>6 DEF Incoming, Handshake, GoAway
<1>7. CASE Shutdown \/ UNCHANGED vars
  BY <1>1, <1>7 DEF Shutdown, vars
<1>8. CASE \E set \in [Policies -> Verdicts] : Store(set)
  BY <1>1, <1>8 DEF Store
<1> QED
  BY <1>2, <1>3, <1>4, <1>5, <1>6, <1>7, <1>8 DEF Next, Verdicts

\* No connection has more than max_tunnels_per_connection requests past the
\* cap, however it mixes tunnels, refusals and exchanges.
THEOREM TunnelCapHolds == Spec => []TunnelCap
<1>1. Init => Capped
  <2> SUFFICES ASSUME Init, NEW c \in Conns
               PROVE  Cardinality(Serving(c)) <= MaxTunnels
    BY DEF Capped
  <2>1. Serving(c) = {}  BY DEF Init, NoTask, Serving, Counted
  <2> QED  BY <2>1, FS_EmptySet, GatewayAssumption
<1>2. Capped => TunnelCap
  <2>1. ASSUME NEW c \in Conns
        PROVE  {r \in Live(c) : ~task[r].over /\ task[r].stage # "refuse"}
                  = Serving(c)
    BY DEF Live, Serving, Counted
  <2> QED  BY <2>1 DEF Capped, TunnelCap
<1> QED  BY <1>1, <1>2, CapNext, TypeCorrect, PTL DEF Spec

(***************************************************************************)
(* The router of a connection's datagrams.                                 *)
(***************************************************************************)
\* A tunnel's queue q when it took l last and a datagrams have arrived, and
\* the queue of a stream nobody claimed.
Ordered(q, l, a) ==
    \A i \in 1..Len(q) : q[i] > (IF i = 1 THEN l ELSE q[i - 1]) /\ q[i] <= a
Latest(q, a) ==
    /\ Len(q) <= MaxPendingPerStream /\ Len(q) <= a
    /\ \A i \in 1..Len(q) : q[i] = a - Len(q) + i

StreamQueues(s) ==
    /\ Len(inbound[s]) <= InboundCapacity
    /\ Ordered(inbound[s], last[s], arrived[s]) /\ Latest(pending[s], arrived[s])
    /\ phase[s] = "open" => pending[s] = <<>>
    /\ phase[s] # "open" => inbound[s] = <<>>
    /\ phase[s] = "new" => last[s] = 0
    /\ last[s] <= arrived[s]

RouterIInv ==
    /\ RouterTypeOK /\ Cardinality(Waiting) <= MaxPendingStreams
    /\ active = {s \in Streams : phase[s] = "open"}
    /\ \A s \in Streams : StreamQueues(s)

\* The inductive invariant gives RouterInv.
LEMMA RouterIInvGives == RouterIInv => RouterInv
BY DEF RouterIInv, StreamQueues, Ordered, Latest, RouterInv, MemoryBounded, NoneStranded,
   ArrivalOrder, LatestWait

\* A queue with one more behind it.
LEMMA AppendIs ==
    ASSUME NEW q \in Seq(Nat), NEW x \in Nat
    PROVE  /\ Append(q, x) \in Seq(Nat) /\ Len(Append(q, x)) = Len(q) + 1
           /\ \A i \in 1..Len(q) : Append(q, x)[i] = q[i]
           /\ Append(q, x)[Len(q) + 1] = x
OBVIOUS

\* A queue without its first.
LEMMA TailIs ==
    ASSUME NEW q \in Seq(Nat), q # <<>>
    PROVE  /\ Tail(q) \in Seq(Nat) /\ Len(q) \in Nat \ {0} /\ Len(Tail(q)) = Len(q) - 1
           /\ \A i \in 1..Len(Tail(q)) : Tail(q)[i] = q[i + 1]
           /\ Head(q) = q[1] /\ q[1] \in Nat
OBVIOUS

\* A queue stays in order when a datagram arrives and when it joins.
LEMMA OrderedGrows ==
    ASSUME NEW q \in Seq(Nat), NEW l \in Nat, NEW a \in Nat, l <= a, Ordered(q, l, a)
    PROVE  Ordered(q, l, a + 1) /\ Ordered(Append(q, a + 1), l, a + 1)
<1> DEFINE r == Append(q, a + 1)
<1>1. /\ r \in Seq(Nat) /\ Len(r) = Len(q) + 1
      /\ \A i \in 1..Len(q) : r[i] = q[i]
      /\ r[Len(q) + 1] = a + 1
  BY AppendIs
<1>2. \A i \in 1..Len(q) : q[i] \in Nat
  OBVIOUS
<1> HIDE DEF r
<1>3. Ordered(q, l, a + 1)
  BY <1>2 DEF Ordered
<1>4. ASSUME NEW i \in 1..Len(r)
      PROVE  r[i] > (IF i = 1 THEN l ELSE r[i - 1]) /\ r[i] <= a + 1
  <2>1. CASE i \in 1..Len(q)
    <3>1. r[i] = q[i] /\ q[i] \in Nat /\ q[i] <= a
      BY <1>1, <1>2, <2>1 DEF Ordered
    <3>2. i = 1 => q[i] > l
      BY <2>1 DEF Ordered
    <3>3. i # 1 => q[i] > q[i - 1]
      BY <2>1 DEF Ordered
    <3>4. i # 1 => r[i - 1] = q[i - 1]
      <4>1. i # 1 => i - 1 \in 1..Len(q)
        BY <2>1
      <4> QED
        BY <1>1, <4>1, ZenonT(30)
    <3> QED
      BY <3>1, <3>2, <3>3, <3>4
  <2>2. CASE i = Len(q) + 1
    <3>1. i # 1 => r[i - 1] = q[i - 1] /\ q[i - 1] \in Nat /\ q[i - 1] <= a
      BY <1>1, <1>2, <2>2 DEF Ordered
    <3> QED
      BY <1>1, <2>2, <3>1
  <2> QED
    BY <1>1, <2>1, <2>2
<1>5. Ordered(r, l, a + 1)
  BY <1>4 DEF Ordered
<1> QED
  BY <1>3, <1>5 DEF r

\* A queue stays in order behind the datagram taken from it.
LEMMA OrderedTail ==
    ASSUME NEW q \in Seq(Nat), q # <<>>, NEW l \in Nat, NEW a \in Nat, Ordered(q, l, a)
    PROVE  Ordered(Tail(q), Head(q), a) /\ Head(q) <= a
<1> DEFINE r == Tail(q)
<1>1. /\ r \in Seq(Nat) /\ Len(q) \in Nat \ {0} /\ Len(r) = Len(q) - 1
      /\ \A i \in 1..Len(r) : r[i] = q[i + 1]
      /\ Head(q) = q[1] /\ q[1] \in Nat
  BY TailIs
<1> HIDE DEF r
<1>2. ASSUME NEW i \in 1..Len(r)
      PROVE  r[i] > (IF i = 1 THEN q[1] ELSE r[i - 1]) /\ r[i] <= a
  <2>0. PICK j \in 1..Len(q) : j = i + 1 /\ j # 1 /\ j - 1 = i
    BY <1>1
  <2>1. r[i] = q[j] /\ q[j] > q[j - 1] /\ q[j] <= a
    BY <1>1, <2>0 DEF Ordered
  <2>2. ASSUME i # 1 PROVE r[i - 1] = q[i]
    <3>1. PICK k \in 1..Len(r) : k = i - 1 /\ k + 1 = i
      BY <1>1, <2>2
    <3> QED
      BY <1>1, <3>1
  <2> QED
    BY <2>0, <2>1, <2>2
<1>3. q[1] <= a
  BY <1>1 DEF Ordered
<1> QED
  BY <1>1, <1>2, <1>3 DEF Ordered, r

\* What waited for an unclaimed stream is in order.
LEMMA LatestOrdered ==
    ASSUME NEW q \in Seq(Nat), NEW a \in Nat, Latest(q, a)
    PROVE  Ordered(q, 0, a)
<1> Len(q) \in Nat
  OBVIOUS
<1> SUFFICES ASSUME NEW i \in 1..Len(q)
             PROVE  q[i] > (IF i = 1 THEN 0 ELSE q[i - 1]) /\ q[i] <= a
  BY DEF Ordered
<1>1. q[i] = a - Len(q) + i
  BY DEF Latest
<1>2. i # 1 => q[i - 1] = a - Len(q) + (i - 1)
  BY DEF Latest
<1>3. Len(q) <= a
  BY DEF Latest
<1> QED
  BY <1>1, <1>2, <1>3

\* The queue of an unclaimed stream takes the next datagram.
LEMMA PushKeepsLatest ==
    ASSUME NEW q \in Seq(Nat), NEW a \in Nat, Latest(q, a)
    PROVE  PushEvicting(q, a + 1) \in Seq(Nat) /\ Latest(PushEvicting(q, a + 1), a + 1)
<1> MaxPendingPerStream \in Nat /\ MaxPendingPerStream > 0 /\ Len(q) \in Nat
  BY RouterAssumption
<1> DEFINE t == IF Len(q) = MaxPendingPerStream THEN Tail(q) ELSE q
           r == Append(t, a + 1)
<1>1. /\ t \in Seq(Nat) /\ Len(t) \in Nat /\ Len(t) < MaxPendingPerStream /\ Len(t) <= a
      /\ \A i \in 1..Len(t) : t[i] = a - Len(t) + i
  <2>1. CASE Len(q) = MaxPendingPerStream
    <3> DEFINE u == Tail(q)
    <3>1. /\ u \in Seq(Nat) /\ Len(u) = Len(q) - 1
          /\ \A i \in 1..Len(u) : u[i] = q[i + 1]
      BY <2>1, TailIs
    <3>2. t = u
      BY <2>1
    <3> HIDE DEF u, t
    <3>3. \A i \in 1..Len(u) : u[i] = a - Len(u) + i
      BY <3>1 DEF Latest
    <3> QED
      BY <2>1, <3>1, <3>2, <3>3 DEF Latest
  <2>2. CASE Len(q) # MaxPendingPerStream
    <3>1. t = q /\ Len(q) < MaxPendingPerStream
      BY <2>2 DEF Latest
    <3> HIDE DEF t
    <3> QED
      BY <3>1 DEF Latest
  <2> QED
    BY <2>1, <2>2
<1> HIDE DEF t
<1>2. /\ r \in Seq(Nat) /\ Len(r) = Len(t) + 1
      /\ \A i \in 1..Len(t) : r[i] = t[i]
      /\ r[Len(t) + 1] = a + 1
  BY <1>1, AppendIs
<1> HIDE DEF r
<1>3. ASSUME NEW i \in 1..Len(r) PROVE r[i] = (a + 1) - Len(r) + i
  <2>1. CASE i \in 1..Len(t)
    BY <1>1, <1>2, <2>1
  <2>2. CASE i = Len(t) + 1
    BY <1>1, <1>2, <2>2
  <2> QED
    BY <1>1, <1>2, <2>1, <2>2
<1>4. PushEvicting(q, a + 1) = r
  BY DEF PushEvicting, r, t
<1>5. Len(r) <= MaxPendingPerStream /\ Len(r) <= a + 1
  BY <1>1, <1>2
<1>6. Latest(r, a + 1)
  BY <1>3, <1>5 DEF Latest
<1> QED
  BY <1>2, <1>4, <1>6

\* An empty queue is in order.
LEMMA EmptyQueues == \A l, a \in Nat : Ordered(<<>>, l, a) /\ Latest(<<>>, a)
BY RouterAssumption DEF Ordered, Latest
\* Nothing has arrived at first.
LEMMA RouterStarts == RouterInit => RouterIInv
<1> SUFFICES ASSUME RouterInit PROVE RouterIInv
  OBVIOUS
<1>1. Waiting = {}
  BY DEF RouterInit, Waiting
<1>2. Cardinality(Waiting) = 0
  BY <1>1, FS_EmptySet
<1>3. RouterTypeOK
  BY DEF RouterInit, RouterTypeOK
<1> QED
  BY <1>2, <1>3, EmptyQueues, RouterAssumption DEF RouterInit, RouterIInv, StreamQueues

\* Finitely many streams wait.
LEMMA WaitingIsFinite == Waiting \subseteq Streams /\ IsFiniteSet(Waiting)
BY RouterAssumption, FS_Subset DEF Waiting

\* No step that makes no stream wait exceeds the table.
LEMMA FewerWait ==
    ASSUME Waiting' \subseteq Waiting, Cardinality(Waiting) <= MaxPendingStreams
    PROVE  Cardinality(Waiting') <= MaxPendingStreams
<1>1. IsFiniteSet(Waiting) /\ IsFiniteSet(Waiting') /\ Cardinality(Waiting') <= Cardinality(Waiting)
  BY WaitingIsFinite, FS_Subset
<1> QED
  BY <1>1, FS_CardinalityType, RouterAssumption

\* A step that touches one stream keeps the invariant of the others.
LEMMA RouterStepOfOne ==
    ASSUME RouterIInv, NEW s \in Streams, RouterTypeOK', Cardinality(Waiting') <= MaxPendingStreams,
           active' = {u \in Streams : phase'[u] = "open"}, StreamQueues(s)',
           \A u \in Streams \ {s} : /\ phase'[u] = phase[u] /\ pending'[u] = pending[u]
                                    /\ inbound'[u] = inbound[u] /\ last'[u] = last[u]
                                    /\ arrived'[u] = arrived[u]
    PROVE  RouterIInv'
<1>1. ASSUME NEW u \in Streams \ {s} PROVE StreamQueues(u)'
  BY <1>1 DEF RouterIInv, StreamQueues
<1> QED
  BY <1>1 DEF RouterIInv

\* deliver, to a sink, to the table, or to nobody.
LEMMA DeliverKeepsInv == ASSUME RouterIInv, NEW s \in Streams, Deliver(s) PROVE RouterIInv'
<1> DEFINE n == arrived[s] + 1
<1> /\ InboundCapacity \in Nat /\ MaxPendingStreams \in Nat
  BY RouterAssumption
<1> /\ n \in Nat /\ arrived' = [arrived EXCEPT ![s] = n] /\ arrived[s] \in Nat
    /\ phase' = phase /\ active' = active /\ last' = last
    /\ inbound[s] \in Seq(Nat) /\ pending[s] \in Seq(Nat) /\ last[s] \in Nat
    /\ StreamQueues(s)
  BY DEF Deliver, RouterIInv, RouterTypeOK
<1>1. CASE s \in active
  <2> /\ pending' = pending
      /\ inbound' = IF Len(inbound[s]) < InboundCapacity
                    THEN [inbound EXCEPT ![s] = Append(@, n)] ELSE inbound
      /\ pending[s] = <<>>
    BY <1>1 DEF Deliver, RouterIInv, RouterTypeOK, StreamQueues
  <2>1. Cardinality(Waiting') <= MaxPendingStreams
    BY FewerWait DEF Waiting, RouterIInv
  <2>2. Ordered(inbound[s], last[s], n) /\ Ordered(Append(inbound[s], n), last[s], n)
    BY OrderedGrows DEF StreamQueues
  <2>3. Append(inbound[s], n) \in Seq(Nat) /\ Len(Append(inbound[s], n)) = Len(inbound[s]) + 1
    BY AppendIs
  <2>4. RouterTypeOK'
    BY <2>3 DEF RouterIInv, RouterTypeOK
  <2>5. Latest(<<>>, n)
    BY EmptyQueues
  <2>6. last[s] <= n
    BY DEF StreamQueues
  <2> HIDE DEF n
  <2>7. StreamQueues(s)'
    BY <1>1, <2>2, <2>3, <2>5, <2>6 DEF StreamQueues, RouterIInv, RouterTypeOK
  <2> QED
    BY <2>1, <2>4, <2>7, RouterStepOfOne DEF RouterIInv, RouterTypeOK
<1>2. CASE s \notin active
  <2> inbound' = inbound /\ inbound[s] = <<>> /\ phase[s] # "open"
    BY <1>2 DEF Deliver, RouterIInv, RouterTypeOK, StreamQueues
  <2>0. Ordered(<<>>, last[s], n) /\ Latest(<<>>, n) /\ last[s] <= n
    BY EmptyQueues DEF StreamQueues
  <2>1. CASE pending' = pending /\ s \notin Waiting
    <3>1. pending[s] = <<>>
      BY <2>1 DEF Waiting
    <3>2. Cardinality(Waiting') <= MaxPendingStreams
      BY <2>1, FewerWait DEF Waiting, RouterIInv
    <3> HIDE DEF n
    <3>3. RouterTypeOK' /\ StreamQueues(s)'
      BY <2>0, <2>1, <3>1 DEF RouterIInv, RouterTypeOK, StreamQueues
    <3> QED
      BY <2>1, <3>2, <3>3, RouterStepOfOne DEF RouterIInv, RouterTypeOK
  <2>2. CASE /\ Cardinality(Waiting) < MaxPendingStreams \/ s \in Waiting
             /\ pending' = [pending EXCEPT ![s] = PushEvicting(@, n)]
    <3> DEFINE r == PushEvicting(pending[s], n)
    <3>1. r \in Seq(Nat) /\ Latest(r, n)
      BY PushKeepsLatest DEF StreamQueues
    <3>2. pending' = [pending EXCEPT ![s] = r]
      BY <2>2
    <3> HIDE DEF n, r
    <3>3. Cardinality(Waiting') <= MaxPendingStreams
      <4>1. Waiting' \subseteq Waiting \cup {s}
        BY <3>2 DEF Waiting, RouterIInv, RouterTypeOK
      <4>2. CASE s \in Waiting
        BY <4>1, <4>2, FewerWait DEF RouterIInv
      <4>3. CASE s \notin Waiting
        <5>1. /\ IsFiniteSet(Waiting \cup {s})
              /\ Cardinality(Waiting \cup {s}) = Cardinality(Waiting) + 1
          BY <4>3, WaitingIsFinite, FS_AddElement
        <5>2. IsFiniteSet(Waiting') /\ Cardinality(Waiting') <= Cardinality(Waiting) + 1
          BY <4>1, <5>1, FS_Subset
        <5>3. Cardinality(Waiting) \in Nat /\ Cardinality(Waiting') \in Nat
          BY <5>2, WaitingIsFinite, FS_CardinalityType
        <5> QED
          BY <2>2, <4>3, <5>2, <5>3
      <4> QED
        BY <4>2, <4>3
    <3>4. RouterTypeOK' /\ StreamQueues(s)'
      BY <2>0, <3>1, <3>2 DEF RouterIInv, RouterTypeOK, StreamQueues
    <3> QED
      BY <3>2, <3>3, <3>4, RouterStepOfOne DEF RouterIInv, RouterTypeOK
  <2> QED
    BY <1>2, <2>1, <2>2, WaitingIsFinite, FS_CardinalityType DEF Deliver
<1> QED
  BY <1>1, <1>2

\* Every step of the router keeps the inductive invariant.
LEMMA RouterStepKeepsInv == ASSUME RouterIInv, [RouterNext]_routerVars PROVE RouterIInv'
<1> /\ InboundCapacity \in Nat /\ MaxPendingStreams \in Nat
    /\ MaxPendingPerStream \in Nat /\ MaxPendingPerStream <= InboundCapacity
  BY RouterAssumption
<1>1. ASSUME NEW s \in Streams, Register(s) PROVE RouterIInv'
  <2> USE <1>1 DEF Register, RouterIInv, RouterTypeOK
  <2>1. Cardinality(Waiting') <= MaxPendingStreams
    BY FewerWait DEF Waiting
  <2>2. Ordered(pending[s], 0, arrived[s]) /\ Latest(<<>>, arrived[s])
    BY LatestOrdered, EmptyQueues DEF StreamQueues
  <2>3. Len(pending[s]) <= InboundCapacity
    BY DEF StreamQueues, Latest
  <2>4. StreamQueues(s)'
    BY <2>2, <2>3 DEF StreamQueues
  <2>5. RouterTypeOK' /\ active' = {u \in Streams : phase'[u] = "open"}
    OBVIOUS
  <2> QED
    BY <2>1, <2>4, <2>5, RouterStepOfOne
<1>2. ASSUME NEW s \in Streams, Refused(s) PROVE RouterIInv'
  <2> USE <1>2 DEF Refused, RouterIInv, RouterTypeOK
  <2>1. Cardinality(Waiting') <= MaxPendingStreams
    BY FewerWait DEF Waiting
  <2>2. StreamQueues(s)'
    BY DEF StreamQueues
  <2> QED
    BY <2>1, <2>2, RouterStepOfOne
<1>3. ASSUME NEW s \in Streams, Receive(s) PROVE RouterIInv'
  <2> USE <1>3 DEF Receive, RouterIInv, RouterTypeOK
  <2>1. Cardinality(Waiting') <= MaxPendingStreams
    BY FewerWait DEF Waiting
  <2>2. inbound[s] \in Seq(Nat) /\ inbound[s] # <<>>
    OBVIOUS
  <2>3. Ordered(Tail(inbound[s]), Head(inbound[s]), arrived[s]) /\ Head(inbound[s]) <= arrived[s]
    BY <2>2, OrderedTail DEF StreamQueues
  <2>4. /\ Tail(inbound[s]) \in Seq(Nat) /\ Head(inbound[s]) \in Nat
        /\ Len(Tail(inbound[s])) = Len(inbound[s]) - 1 /\ Len(inbound[s]) \in Nat
    BY <2>2, TailIs
  <2>5. RouterTypeOK'
    BY <2>4
  <2>6. StreamQueues(s)'
    BY <2>3, <2>4 DEF StreamQueues
  <2> QED
    BY <2>1, <2>5, <2>6, RouterStepOfOne
<1>4. ASSUME NEW s \in Streams, Unregister(s) PROVE RouterIInv'
  <2> USE <1>4 DEF Unregister, RouterIInv, RouterTypeOK
  <2>1. Cardinality(Waiting') <= MaxPendingStreams
    BY FewerWait DEF Waiting
  <2>2. StreamQueues(s)'
    BY EmptyQueues DEF StreamQueues
  <2>3. RouterTypeOK' /\ active' = {u \in Streams : phase'[u] = "open"}
    OBVIOUS
  <2> QED
    BY <2>1, <2>2, <2>3, RouterStepOfOne
<1>5. CASE UNCHANGED routerVars
  BY <1>5 DEF routerVars, RouterIInv, RouterTypeOK, Waiting, StreamQueues
<1> QED
  BY <1>1, <1>2, <1>3, <1>4, <1>5, DeliverKeepsInv DEF RouterNext

\* DatagramRouter, for any streams and bounds: a tunnel that registers late
\* gets the newest of what came early, in order, nothing is left behind in the
\* table, and what a peer can make it hold is bounded.
THEOREM RouterSound == RouterSpec => []RouterInv
<1>1. RouterIInv /\ [RouterNext]_routerVars => RouterIInv'
  BY RouterStepKeepsInv
<1> QED
  BY <1>1, RouterStarts, RouterIInvGives, PTL DEF RouterSpec
=============================================================================
