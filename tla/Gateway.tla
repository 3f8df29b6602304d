------------------------------ MODULE Gateway ------------------------------
(***************************************************************************)
(* The life of a tunnel request on one gateway process: the connection     *)
(* task that accepts it, the layer stack that decides it (identity,        *)
(* revocation, policy, quota, proxy), the response, the relay raced        *)
(* against the end of its session, and the graceful shutdown.              *)
(*                                                                         *)
(* Every request runs as a task of its own on a multi-threaded runtime, so *)
(* a step here is a stretch of code between two reads or writes of shared  *)
(* state; the revoked set, the policy set and the quota table are shared.  *)
(* Reqs are request slots of a connection: a slot that falls idle again    *)
(* carries a later request of the same connection.                         *)
(***************************************************************************)
EXTENDS Integers, FiniteSets

CONSTANTS Conns,          \* client connections
          Reqs,           \* request slots
          ConnOf,         \* the connection each slot belongs to
          Sids,           \* session ids
          NoSid,          \* a credential that names no session
          Policies,       \* quota keys: policy names, or org/policy pairs
          NoPolicy,
          Limits,         \* values a policy's limits.connections takes
          Denied,         \* the policy set denies the request
          Unlimited,      \* allowed, no limits.connections
          MaxTunnels,     \* max_tunnels_per_connection
          MaxConcurrent   \* permits of GlobalConcurrencyLimitLayer

ASSUME GatewayAssumption ==
    /\ IsFiniteSet(Reqs)
    /\ ConnOf \in [Reqs -> Conns]
    /\ Limits \subseteq Nat
    /\ Denied \notin Nat /\ Unlimited \notin Nat /\ Denied # Unlimited
    /\ NoSid \notin Sids /\ NoPolicy \notin Policies
    /\ MaxTunnels \in Nat \ {0} /\ MaxConcurrent \in Nat \ {0}

VARIABLES gateway,   \* run_until: serving, draining or stopped
          conn,      \* serve_connection, per connection
          task,      \* each request's task, a record (see NoTask)
          revoked,   \* Revocations: the set now in the watch channel
          rules,     \* the policy set in force: the verdict of each policy
          size,      \* QuotaLayer.permits: the size of each semaphore made
          owners     \* the permits taken from each, by request

vars == <<gateway, conn, task, revoked, rules, size, owners>>
quotaVars == <<size, owners>>
envVars == <<gateway, conn, revoked, rules>>

Absent == -1

\* Mutant: the setup limit would also count the tunnels that relay.
Setup_WholeTunnel ==
    {"verify", "check", "track", "policy", "quota", "connect", "respond",
     "relay"}

\* A permit of the setup limit rides on the future of the whole stack.
Setup == {"verify", "check", "track", "policy", "quota", "connect"}
Stages == {"idle", "headers", "refuse", "exchange", "ready", "respond",
           "relay"} \cup Setup
\* Stages past the quota layer, where a permit may be held.
Granted == {"connect", "respond", "relay"}

NoTask ==
    [stage |-> "idle",     \* where the task is
     over |-> FALSE,       \* over_limit, computed when it was accepted
     sid |-> NoSid,        \* WorkloadIdentity.sid of the credential
     exp |-> "none",       \* its exp claim: none, ahead of the clock, past
     end |-> "none",       \* TunnelEnd: none, tracked, attached, watching
     armed |-> FALSE,      \* TunnelEnd.deadline is set
     unseen |-> FALSE,     \* TunnelEnd.rx has a version it has not seen
     policy |-> NoPolicy,  \* the policy that allowed the request
     limit |-> Unlimited]  \* the limits.connections of that decision

Tasks == [stage : Stages, over : BOOLEAN, sid : Sids \cup {NoSid},
          exp : {"none", "ahead", "past"},
          end : {"none", "tracked", "attached", "watching"},
          armed : BOOLEAN, unseen : BOOLEAN,
          policy : Policies \cup {NoPolicy}, limit : Limits \cup {Unlimited}]

Live(c) == {r \in Reqs : ConnOf[r] = c /\ task[r].stage # "idle"}
InSetup == {r \in Reqs : task[r].stage \in Setup}

Init ==
    /\ gateway = "serving"
    /\ conn = [c \in Conns |-> "none"]
    /\ task = [r \in Reqs |-> NoTask]
    /\ revoked = {}
    /\ rules \in [Policies -> Limits \cup {Denied, Unlimited}]
    /\ size = [p \in Policies |-> Absent]
    /\ owners = [p \in Policies |-> {}]

(***************************************************************************)
(* Dropping what tasks own.  A permit is released when the value that      *)
(* carries it (Meter's future, then the guards of Accepted) is dropped; a  *)
(* TunnelEnd goes with the future or the relay that holds it.              *)
(***************************************************************************)
DropPermits(R) == owners' = [p \in Policies |-> owners[p] \ R]

\* The tasks R go to stage s and drop all they hold.
Finish(R, s) ==
    /\ task' = [r \in Reqs |-> IF r \in R THEN [NoTask EXCEPT !.stage = s]
                                         ELSE task[r]]
    /\ DropPermits(R)

Update(r, t) == task' = [task EXCEPT ![r] = t]
Goto(r, s) == Update(r, [task[r] EXCEPT !.stage = s])

\* A layer answered Err(Rejection): the stack's future is done and
\* serve_request sends the rejection.
Reject(r) == Finish({r}, "refuse") /\ UNCHANGED <<size, envVars>>
Close(r) == Finish({r}, "idle") /\ UNCHANGED <<size, envVars>>

(***************************************************************************)
(* serve_connection.                                                       *)
(***************************************************************************)
Incoming(c) ==
    /\ gateway = "serving" /\ conn[c] = "none"
    /\ conn' = [conn EXCEPT ![c] = "handshake"]
    /\ UNCHANGED <<gateway, task, revoked, rules, quotaVars>>

\* The handshake does not watch the drain: it may finish after shutdown.
Handshake(c) ==
    /\ conn[c] = "handshake"
    /\ \E to \in {"open", "none"} : conn' = [conn EXCEPT ![c] = to]
    /\ UNCHANGED <<gateway, task, revoked, rules, quotaVars>>

\* The connection's loop polls h3.accept() in every round, also while it drains
\* and waits for the requests in flight.
Accepting(c) == conn[c] = "open" \/ (conn[c] = "goaway" /\ Live(c) # {})

\* External: after shutdown(0), h3 resets the requests that race the GOAWAY and
\* accept() does not yield them ("h3 rejects any that race it").
H3Yields(c) == conn[c] # "goaway"

\* Mutant: off by one in the per-connection cap.
Accept_OffByOne(r) ==
    /\ Accepting(ConnOf[r]) /\ H3Yields(ConnOf[r]) /\ task[r].stage = "idle"
    /\ Update(r, [task[r] EXCEPT !.stage = "headers",
           !.over = Cardinality(Live(ConnOf[r])) > MaxTunnels])
    /\ UNCHANGED <<envVars, quotaVars>>

\* h3.accept() yields a request; finished tasks are reaped, so the JoinSet's
\* length is the number of live tasks, of whatever kind.
Accept(r) ==
    /\ Accepting(ConnOf[r]) /\ H3Yields(ConnOf[r]) /\ task[r].stage = "idle"
    /\ Update(r, [task[r] EXCEPT !.stage = "headers",
           !.over = Cardinality(Live(ConnOf[r])) >= MaxTunnels])
    /\ UNCHANGED <<envVars, quotaVars>>

\* drain.changed(): the GOAWAY goes out; that it fails is only logged.
GoAway(c) ==
    /\ gateway = "draining" /\ conn[c] = "open"
    /\ conn' = [conn EXCEPT ![c] = "goaway"]
    /\ UNCHANGED <<gateway, task, revoked, rules, quotaVars>>

\* The loop ends; tunnels.shutdown() aborts the requests still in flight.
EndConnection(c) ==
    /\ conn' = [conn EXCEPT ![c] = "none"]
    /\ Finish(Live(c), "idle")
    /\ UNCHANGED <<gateway, revoked, rules, size>>

\* Mutant: the loop does not look at its own draining flag.
Drained_FlagForgotten(c) ==
    conn[c] = "handshake" /\ Live(c) = {} /\ EndConnection(c)

Drained(c) == conn[c] = "goaway" /\ Live(c) = {} /\ EndConnection(c)
Lost(c) == conn[c] \in {"open", "goaway"} /\ EndConnection(c)

(***************************************************************************)
(* A request's task: serve_request and the layer stack below it.           *)
(***************************************************************************)
HeadersLost(r) == task[r].stage = "headers" /\ Close(r)

\* Over the cap: 503.  Otherwise a request that does not parse, a token
\* exchange, or a tunnel request that waits for service.ready().
Resolve(r) ==
    /\ task[r].stage = "headers"
    /\ \/ Reject(r)
       \/ /\ ~task[r].over
          /\ \E to \in {"exchange", "ready"} : Goto(r, to)
          /\ UNCHANGED <<envVars, quotaVars>>

\* The rejection, or the answer to the exchange, has been sent (or failed).
Answered(r) == task[r].stage \in {"refuse", "exchange"} /\ Close(r)

Ready(r) ==
    /\ task[r].stage = "ready"
    /\ Cardinality(InSetup) < MaxConcurrent
    /\ Goto(r, "verify")
    /\ UNCHANGED <<envVars, quotaVars>>

\* Identify: the verifier accepts the credential, with a leeway on exp, so
\* one that is already past can get through; or there is none or it is bad.
Verify(r) ==
    /\ task[r].stage = "verify"
    /\ \/ Reject(r)
       \/ /\ \E s \in Sids \cup {NoSid}, e \in {"none", "ahead", "past"} :
                 Update(r, [task[r] EXCEPT !.stage = "check", !.sid = s,
                     !.exp = e])
          /\ UNCHANGED <<envVars, quotaVars>>

\* Revoked: no session passes through; a revoked or expired one is refused;
\* the deadline is computed before the set is subscribed to.
Check(r) ==
    /\ task[r].stage = "check"
    /\ \/ /\ task[r].sid = NoSid
          /\ Goto(r, "policy")
          /\ UNCHANGED <<envVars, quotaVars>>
       \/ /\ task[r].sid # NoSid
          /\ task[r].sid \in revoked \/ task[r].exp = "past"
          /\ Reject(r)
       \/ /\ task[r].sid \notin revoked \cup {NoSid} /\ task[r].exp # "past"
          /\ Update(r, [task[r] EXCEPT !.stage = "track",
                 !.armed = task[r].exp = "ahead"])
          /\ UNCHANGED <<envVars, quotaVars>>

\* Revocations::track: a receiver subscribed now has seen the current set.
Track(r) ==
    /\ task[r].stage = "track"
    /\ Update(r, [task[r] EXCEPT !.stage = "policy", !.end = "tracked",
           !.unseen = FALSE])
    /\ UNCHANGED <<envVars, quotaVars>>

\* Mutant: the decision is passed on without looking for a denial.
Enforce_DenialIgnored(r) ==
    /\ task[r].stage = "policy"
    /\ \E p \in Policies :
          Update(r, [task[r] EXCEPT !.stage = "quota", !.policy = p,
              !.limit = rules[p]])
    /\ UNCHANGED <<envVars, quotaVars>>

\* Enforce reads the live set once and decides.
Enforce(r) ==
    /\ task[r].stage = "policy"
    /\ \E p \in Policies :
          \/ rules[p] = Denied /\ Reject(r)
          \/ /\ rules[p] # Denied
             /\ Update(r, [task[r] EXCEPT !.stage = "quota", !.policy = p,
                    !.limit = rules[p]])
             /\ UNCHANGED <<envVars, quotaVars>>

\* semaphore_for: made with the limit of the first decision that asks.
SemaphoreSize(r) ==
    IF size[task[r].policy] = Absent THEN task[r].limit
                                     ELSE size[task[r].policy]

\* Mutant: the permit is not put on the Accepted (no hold).
Meter_NotHeld(r) ==
    LET p == task[r].policy IN
    /\ task[r].stage = "quota"
    /\ task[r].limit # Unlimited => Cardinality(owners[p]) < SemaphoreSize(r)
    /\ Goto(r, "connect")
    /\ size' = IF task[r].limit = Unlimited THEN size
               ELSE [size EXCEPT ![p] = SemaphoreSize(r)]
    /\ UNCHANGED <<envVars, owners>>

\* Meter: a decision with a limit needs a permit of its policy's semaphore.
Meter(r) ==
    LET p == task[r].policy IN
    /\ task[r].stage = "quota"
    /\ \/ /\ task[r].limit = Unlimited
          /\ Goto(r, "connect")
          /\ UNCHANGED <<envVars, quotaVars>>
       \/ /\ task[r].limit # Unlimited
          /\ size' = [size EXCEPT ![p] = SemaphoreSize(r)]
          /\ \/ /\ Cardinality(owners[p]) < SemaphoreSize(r)
                /\ owners' = [owners EXCEPT ![p] = @ \cup {r}]
                /\ Goto(r, "connect")
             \/ /\ Cardinality(owners[p]) >= SemaphoreSize(r)
                /\ Finish({r}, "refuse")
          /\ UNCHANGED envVars

\* Mutant: the quota layer outside the revocation layer, so with_limits
\* comes after with_end and replaces it.
Open_LayersSwapped(r) ==
    /\ task[r].stage = "connect"
    /\ Update(r, [task[r] EXCEPT !.stage = "respond",
           !.end = IF @ = "tracked" /\ task[r].limit = Unlimited
                   THEN "attached" ELSE "none"])
    /\ UNCHANGED <<envVars, quotaVars>>

\* open_tunnel / open_tcp_tunnel: resolve, floor, connect.  On success the
\* Accepted passes Meter (which replaces its limits) and then Revoked (which
\* attaches the TunnelEnd to them).
Open(r) ==
    /\ task[r].stage = "connect"
    /\ \/ Reject(r)
       \/ /\ Update(r, [task[r] EXCEPT !.stage = "respond",
                 !.end = IF @ = "tracked" THEN "attached" ELSE @])
          /\ UNCHANGED <<envVars, quotaVars>>

\* Mutant: the early return leaks the guards.
Respond_GuardsLeaked(r) ==
    /\ task[r].stage = "respond"
    /\ \E to \in {"idle", "relay"} : Goto(r, to)
    /\ UNCHANGED <<envVars, quotaVars>>

\* send_response: a failure returns and drops the guards.
Respond(r) ==
    /\ task[r].stage = "respond"
    /\ \/ Close(r)
       \/ /\ Goto(r, "relay")
          /\ UNCHANGED <<envVars, quotaVars>>

\* Mutant: ended() waits for a change before it first reads the set.
PollEnd_ChangeFirst(r) ==
    /\ task[r].stage = "relay"
    /\ \/ /\ task[r].end = "attached"
          /\ Update(r, [task[r] EXCEPT !.end = "watching"])
          /\ UNCHANGED <<envVars, quotaVars>>
       \/ /\ task[r].end = "watching" /\ task[r].unseen
          /\ task[r].sid \in revoked
          /\ Close(r)

\* TunnelEnd::ended inside until_ended: the first poll reads the set whatever
\* the receiver has seen; a later one follows changed().
PollEnd(r) ==
    /\ task[r].stage = "relay"
    /\ \/ task[r].end = "attached"
       \/ task[r].end = "watching" /\ task[r].unseen
    /\ \/ task[r].sid \in revoked /\ Close(r)
       \/ /\ task[r].sid \notin revoked
          /\ Update(r, [task[r] EXCEPT !.end = "watching", !.unseen = FALSE])
          /\ UNCHANGED <<envVars, quotaVars>>

\* Mutant: the deadline is looked at on the first poll and not raced after.
Expire_OnFirstPoll(r) ==
    /\ task[r].stage = "relay" /\ task[r].end = "attached"
    /\ task[r].armed /\ task[r].exp = "past"
    /\ Close(r)

\* ... or its deadline passes.
Expire(r) ==
    /\ task[r].stage = "relay" /\ task[r].end # "none"
    /\ task[r].armed /\ task[r].exp = "past"
    /\ Close(r)

\* The relay ends by itself: see TcpRelay and UdpRelay.
RelayEnds(r) == task[r].stage = "relay" /\ Close(r)

(***************************************************************************)
(* The rest of the process.                                                *)
(***************************************************************************)
\* Revocations::replace, a no-op for an equal set, wakes every receiver.
Replace(S) ==
    /\ S # revoked
    /\ revoked' = S
    /\ task' = [r \in Reqs |-> IF task[r].end = "none" THEN task[r]
                               ELSE [task[r] EXCEPT !.unseen = TRUE]]
    /\ UNCHANGED <<gateway, conn, rules, quotaVars>>

\* The clock passes the credential's exp.
Lapse(r) ==
    /\ task[r].exp = "ahead"
    /\ Update(r, [task[r] EXCEPT !.exp = "past"])
    /\ UNCHANGED <<envVars, quotaVars>>

\* PolicyHandle::store.
Store(set) ==
    /\ rules' = set
    /\ UNCHANGED <<gateway, conn, task, revoked, quotaVars>>

Shutdown ==
    /\ gateway = "serving"
    /\ gateway' = "draining"
    /\ UNCHANGED <<conn, task, revoked, rules, quotaVars>>

\* Every connection has ended, or the grace period has: close and abort.
Stop ==
    /\ gateway = "draining"
    /\ gateway' = "stopped"
    /\ conn' = [c \in Conns |-> "none"]
    /\ Finish(Reqs, "idle")
    /\ UNCHANGED <<revoked, rules, size>>

RequestStep(r) ==
    \/ HeadersLost(r) \/ Resolve(r) \/ Answered(r) \/ Ready(r) \/ Verify(r)
    \/ Check(r) \/ Track(r) \/ Enforce(r) \/ Meter(r) \/ Open(r)
    \/ Respond(r) \/ PollEnd(r) \/ Expire(r) \/ RelayEnds(r)

Next ==
    \/ \E c \in Conns : \/ Incoming(c) \/ Handshake(c) \/ GoAway(c)
                        \/ Drained(c) \/ Lost(c)
    \/ \E r \in Reqs : Accept(r) \/ RequestStep(r) \/ Lapse(r)
    \/ \E S \in SUBSET Sids : Replace(S)
    \/ \E set \in [Policies -> Limits \cup {Denied, Unlimited}] : Store(set)
    \/ Shutdown
    \/ Stop

Spec == Init /\ [][Next]_vars

(***************************************************************************)
(* Fairness.  A woken task is polled and a timer that is due fires; the    *)
(* steps of the stack up to the open are bounded by the timeouts of the    *)
(* verifier's HTTP client, the resolver and the kernel's connect; tokio's  *)
(* semaphore is first come, first served.  Nothing makes a peer take a     *)
(* response or a relay end.                                                *)
(***************************************************************************)
Fairness ==
    /\ \A r \in Reqs :
          /\ WF_vars(PollEnd(r)) /\ WF_vars(Expire(r))
          /\ WF_vars(Verify(r)) /\ WF_vars(Check(r)) /\ WF_vars(Track(r))
          /\ WF_vars(Enforce(r)) /\ WF_vars(Meter(r)) /\ WF_vars(Open(r))
          /\ SF_vars(Ready(r))
    /\ \A c \in Conns : WF_vars(GoAway(c)) /\ WF_vars(Drained(c))

FairSpec == Spec /\ Fairness

-----------------------------------------------------------------------------
TypeOK ==
    /\ gateway \in {"serving", "draining", "stopped"}
    /\ conn \in [Conns -> {"none", "handshake", "open", "goaway"}]
    /\ task \in [Reqs -> Tasks]
    /\ revoked \subseteq Sids
    /\ rules \in [Policies -> Limits \cup {Denied, Unlimited}]
    /\ size \in [Policies -> Nat \cup {Absent}]
    /\ owners \in [Policies -> SUBSET Reqs]

Relaying == {r \in Reqs : task[r].stage = "relay"}

\* A relaying tunnel whose session is in the revoked set always has a poll of
\* its TunnelEnd due: a revocation that lands anywhere between the check of
\* Revoked::call and the first poll of TunnelEnd::ended is not missed.
RevocationPending ==
    \A r \in Relaying :
        task[r].sid \in revoked =>
            \/ task[r].end = "attached"
            \/ task[r].end = "watching" /\ task[r].unseen

\* A relaying tunnel of a session whose credential states an expiry carries
\* the deadline, whatever limits the quota layer gave it in between.
ExpiryArmed ==
    \A r \in Relaying :
        task[r].sid # NoSid /\ task[r].exp # "none" =>
            task[r].end # "none" /\ task[r].armed

\* Tunnels relaying under a policy with limits.connections never outnumber
\* the semaphore first made for that policy, across reloads of the limit,
\* failures of every later step, aborts and drains.
QuotaHolds ==
    \A p \in Policies :
        LET limited == {r \in Relaying : /\ task[r].policy = p
                                         /\ task[r].limit # Unlimited}
        IN  limited # {} => Cardinality(limited) <= size[p]

\* A permit out of the semaphore belongs to a task that is opening or
\* carrying a tunnel of that policy: no path through serve_request leaks one.
PermitsReleased ==
    \A p \in Policies : \A r \in owners[p] :
        task[r].stage \in Granted /\ task[r].policy = p

\* At most max_tunnels_per_connection requests of a connection get past the
\* cap at once, whatever mix of refusals and exchanges it carries.
TunnelCap ==
    \A c \in Conns :
        Cardinality({r \in Live(c) :
                        ~task[r].over /\ task[r].stage # "refuse"})
            <= MaxTunnels

(***************************************************************************)
(* What makes these inductive: where the TunnelEnd is at every stage, and  *)
(* that a limited decision past the quota layer has its permit.            *)
(***************************************************************************)
SessionKept(t) ==
    /\ t.sid # NoSid =>
          /\ t.stage \in {"policy", "quota", "connect"} => t.end = "tracked"
          /\ t.stage \in {"respond", "relay"} => t.end \in {"attached", "watching"}
          /\ /\ t.stage \in {"track", "policy", "quota"} \cup Granted
             /\ t.exp # "none"
             => t.armed
    /\ t.end = "watching" =>
          t.stage = "relay" /\ (t.sid \in revoked => t.unseen)

SessionInv == \A r \in Reqs : SessionKept(task[r])

QuotaInv ==
    /\ PermitsReleased
    /\ \A p \in Policies :
          owners[p] # {} => Cardinality(owners[p]) <= size[p]
    /\ \A r \in Reqs :
          /\ task[r].stage = "quota" => task[r].policy \in Policies
          /\ task[r].stage \in Granted /\ task[r].limit # Unlimited =>
                task[r].policy \in Policies /\ r \in owners[task[r].policy]

SessionOver(r) ==
    task[r].sid # NoSid /\ (task[r].sid \in revoked \/ task[r].exp = "past")

\* A tunnel whose session stays revoked, or whose credential has expired,
\* ends: TunnelEnd::ended resolves and until_ended drops the relay.
SessionEndClosesTunnel ==
    \A r \in Reqs :
        (task[r].stage = "relay" /\ SessionOver(r)) ~>
            (task[r].stage # "relay" \/ ~SessionOver(r))

\* A request waiting for the setup limit gets its turn: tunnels that relay
\* for ever do not hold the permits of GlobalConcurrencyLimitLayer.
SetupIsNotStarved ==
    \A r \in Reqs : task[r].stage = "ready" ~> task[r].stage # "ready"

\* A drain takes its course on every connection: one that is open leaves that
\* state, one whose last request has finished goes away, and one that stays
\* does so for a client that has to send or to read something or for a relay,
\* never for its own layer stack (serve_connection's loop, "the loop ends when
\* `tunnels` empties").
DrainEnds ==
    \A c \in Conns :
        /\ (gateway = "draining" /\ conn[c] = "open") ~> conn[c] # "open"
        /\ (conn[c] = "goaway" /\ Live(c) = {}) ~> conn[c] = "none"
        /\ []<>(\/ conn[c] # "goaway"
                \/ \E r \in Live(c) : task[r].stage \notin Setup \cup {"ready"})

============================================================================
