----------------------------- MODULE MCLimits ------------------------------
(***************************************************************************)
(* What the gateway rations, for TLC: the bucket that paces the tunnels of *)
(* a policy, the accept loop's buckets (aX) and the addresses leased to IP *)
(* tunnels (pX).  A behaviour moves one of the three and leaves the others *)
(* where they start.                                                       *)
(***************************************************************************)
EXTENDS RateLimiter

CONSTANTS Sources, MaxSources, Scale, SourceRate, Burst, GlobalRate,
          GlobalBurst, MaxConnections, MaxTime, MaxExtra,
          LastMark,  \* see Admission
          Width, V4Width, Clients, ChannelCap   \* see IpPool

ASSUME AdmissionAssumption ==
    /\ MaxSources \in Nat /\ Scale \in Nat \ {0}
    /\ SourceRate \in Nat /\ Burst \in Nat
    /\ GlobalRate \in Nat /\ GlobalBurst \in Nat

\* The last conjunct is a law of exponents, of which the provers know little.
ASSUME PoolAssumption ==
    /\ Width \in Nat /\ V4Width \in 0..Width
    /\ \A n \in 0..Width : 2 ^ n \in Nat \ {0}
    /\ \A n, m \in 0..Width : n <= m => 2 ^ m = 2 ^ (m - n) * 2 ^ n

VARIABLES limit,   \* the limit that runs: pacing, admission or leasing
          aNow, aBuckets, aGlobal, aOpen, aIdeal, aExtra, aEvicted, aMark,
          aGranted,
          pPrefix, pCursor, pLeased, pSession, pAttached

admissionVars == <<aNow, aBuckets, aGlobal, aOpen, aIdeal, aExtra, aEvicted,
                   aMark, aGranted>>

Accept == INSTANCE Admission WITH
    Rate <- SourceRate, now <- aNow, buckets <- aBuckets, global <- aGlobal,
    open <- aOpen, ideal <- aIdeal, extra <- aExtra, evicted <- aEvicted,
    mark <- aMark, granted <- aGranted

poolVars == <<pPrefix, pCursor, pLeased, pSession, pAttached>>

Pool == INSTANCE IpPool WITH
    prefix <- pPrefix, cursor <- pCursor, leased <- pLeased,
    session <- pSession, attached <- pAttached

allVars == <<limit, vars, admissionVars, poolVars>>

OnPacing(A) ==
    limit = "pacing" /\ A /\ UNCHANGED <<limit, admissionVars, poolVars>>
OnAdmission(A) ==
    limit = "admission" /\ A /\ UNCHANGED <<limit, vars, poolVars>>
OnLeasing(A) ==
    limit = "leasing" /\ A /\ UNCHANGED <<limit, vars, admissionVars>>

\* The prefix matters only where addresses are leased.
MCInit ==
    /\ limit \in {"pacing", "admission", "leasing"}
    /\ Init /\ Accept!Init /\ Pool!Init
    /\ limit # "leasing" => pPrefix = [v6 |-> FALSE, host |-> 0, base |-> 0]

MCNext ==
    OnPacing(Next) \/ OnAdmission(Accept!Next) \/ OnLeasing(Pool!Next)

MCSpec ==
    /\ MCInit /\ [][MCNext]_allVars
    /\ WF_allVars(OnPacing(Tick))
    /\ \A r \in Relays : WF_allVars(OnPacing(Spend(r))) /\ WF_allVars(OnPacing(Sleep(r)))

-----------------------------------------------------------------------------
\* The accept loop.  connection_rate: over any window, connections are accepted
\* at no more than the burst and the sustained rate, however the refills fall.
\* PerSourceRate: its table is bounded at MAX_SOURCES; sweeping refilled
\* buckets changes no source's allowance, and "eviction is fail-open for that
\* source": no source is admitted less than by a table without a bound.
AdmissionInv ==
    /\ Accept!RateHolds
    /\ Accept!TableBounded /\ Accept!SweepIsExact /\ Accept!EvictionFailsOpen

\* IpAddressPool: every leased address belongs to exactly one live session and
\* is one a client may have, and a tunnel is refused only when none is left.
PoolInv == Pool!LeasedOnce /\ Pool!OnlyLeasable /\ Pool!RefusesOnlyWhenFull
=============================================================================
