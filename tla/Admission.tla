----------------------------- MODULE Admission -----------------------------
(***************************************************************************)
(* The accept loop's ceilings (run_until): the cap on open connections,    *)
(* the token bucket of each source address, and the global one.  Buckets   *)
(* refill when they are looked at.  The table of sources is bounded: a     *)
(* full one drops its refilled buckets, then the least recently seen.      *)
(* ExchangeRateLimiter is the same table behind a mutex.                   *)
(*                                                                         *)
(* Buckets count in fractions of a token, Scale to the token.              *)
(***************************************************************************)
EXTENDS Integers, FiniteSets

CONSTANTS Sources, MaxSources,   \* MAX_SOURCES
          Scale,
          Rate, Burst,           \* per_source_rate
          GlobalRate, GlobalBurst, \* connection_rate
          MaxConnections,        \* max_connections
          MaxTime,               \* bound: clock ticks
          MaxExtra,              \* bound: admissions beyond the ideal table's
          LastMark               \* bound: when the observed window may start

VARIABLES now,
          buckets,  \* PerSourceRate.buckets
          global,   \* the bucket of connection_rate
          open,     \* the JoinSet of connection tasks
          ideal,    \* history: the buckets of a table without a bound
          extra,    \* history: admissions by source beyond the ideal table's
          evicted,  \* history: sources dropped before they had refilled
          mark,     \* history: the start of some window,
          granted   \* and the connections accepted in it

vars == <<now, buckets, global, open, ideal, extra, evicted, mark, granted>>

SourceCapacity == Burst * Scale
GlobalCapacity == GlobalBurst * Scale
Full(cap) == [tokens |-> cap, last |-> now]

Level(b, rate, cap) ==
    LET filled == b.tokens + (now - b.last) * rate
    IN IF filled < cap THEN filled ELSE cap

\* TokenBucket::try_take: whether there is a token, and what is left.
Has(b, rate, cap) == Level(b, rate, cap) >= Scale

Taken(b, rate, cap) ==
    [tokens |-> IF Has(b, rate, cap) THEN Level(b, rate, cap) - Scale
                                     ELSE Level(b, rate, cap),
     last |-> now]

Init ==
    /\ now = 0 /\ open = 0 /\ mark = 0 /\ granted = 0
    /\ buckets = [s \in {} |-> Full(SourceCapacity)]
    /\ global = Full(GlobalCapacity)
    /\ ideal = [s \in Sources |-> Full(SourceCapacity)]
    /\ extra = [s \in Sources |-> 0] /\ evicted = {}

\* Mutant: a bucket with one token left counts as idle.
IsFull_OneLeft(s) == Level(buckets[s], Rate, SourceCapacity) >= Scale

IsFull(s) == Level(buckets[s], Rate, SourceCapacity) >= SourceCapacity

\* make_room, when a new source meets a full table: what may be kept.
Keep(s) ==
    LET busy == {t \in DOMAIN buckets : ~IsFull(t)}
        oldest == {t \in busy : \A u \in busy : buckets[t].last <= buckets[u].last}
    IN IF s \in DOMAIN buckets \/ Cardinality(DOMAIN buckets) < MaxSources
       THEN {DOMAIN buckets}
       ELSE IF Cardinality(busy) < MaxSources THEN {busy}
       ELSE {busy \ {t} : t \in oldest}

Bucket(s) == IF s \in DOMAIN buckets THEN buckets[s] ELSE Full(SourceCapacity)

\* PerSourceRate::try_take, beside the table that never forgets.
TakeSource(s) ==
    \E K \in Keep(s) :
        /\ buckets' = [t \in K \cup {s} |->
                          IF t = s THEN Taken(Bucket(s), Rate, SourceCapacity)
                                   ELSE buckets[t]]
        /\ evicted' = evicted \cup {t \in DOMAIN buckets \ K : ~IsFull(t)}
        /\ ideal' = [ideal EXCEPT ![s] = Taken(@, Rate, SourceCapacity)]
        /\ extra' = [extra EXCEPT ![s] =
                        @ + (IF Has(Bucket(s), Rate, SourceCapacity) THEN 1 ELSE 0)
                          - (IF Has(ideal[s], Rate, SourceCapacity) THEN 1 ELSE 0)]

\* Mutant: the global bucket's refill does not move its clock.
Incoming_ClockStands(s) ==
    /\ open < MaxConnections /\ extra[s] < MaxExtra
    /\ TakeSource(s)
    /\ IF Has(Bucket(s), Rate, SourceCapacity)
       THEN /\ global' = [Taken(global, GlobalRate, GlobalCapacity)
                             EXCEPT !.last = global.last]
            /\ IF Has(global, GlobalRate, GlobalCapacity)
               THEN open' = open + 1 /\ granted' = granted + 1
               ELSE UNCHANGED <<open, granted>>
       ELSE UNCHANGED <<open, granted, global>>
    /\ UNCHANGED <<now, mark>>

\* An incoming connection: over the cap nothing is spent; over its source's
\* rate the global bucket is not asked; a connection the global bucket
\* refuses has spent its source's token.
Incoming(s) ==
    /\ open < MaxConnections /\ extra[s] < MaxExtra
    /\ TakeSource(s)
    /\ IF Has(Bucket(s), Rate, SourceCapacity)
       THEN /\ global' = Taken(global, GlobalRate, GlobalCapacity)
            /\ IF Has(global, GlobalRate, GlobalCapacity)
               THEN open' = open + 1 /\ granted' = granted + 1
               ELSE UNCHANGED <<open, granted>>
       ELSE UNCHANGED <<open, granted, global>>
    /\ UNCHANGED <<now, mark>>

ConnectionEnds ==
    /\ open > 0
    /\ open' = open - 1
    /\ UNCHANGED <<now, buckets, global, ideal, extra, evicted, mark, granted>>

Tick ==
    /\ now < MaxTime
    /\ now' = now + 1
    /\ UNCHANGED <<buckets, global, open, ideal, extra, evicted, mark, granted>>

\* Start observing a window.
Mark ==
    /\ mark < now /\ now <= LastMark
    /\ mark' = now /\ granted' = 0
    /\ UNCHANGED <<now, buckets, global, open, ideal, extra, evicted>>

Next ==
    \/ \E s \in Sources : Incoming(s)
    \/ ConnectionEnds \/ Tick \/ Mark

Spec == Init /\ [][Next]_vars

-----------------------------------------------------------------------------
\* ConnectionRate: over any window, connections are accepted at no more than
\* the burst and the sustained rate, however the refills fall.
RateHolds == granted * Scale <= GlobalCapacity + GlobalRate * (now - mark)

\* "fully-refilled (idle) buckets, which are indistinguishable from absent
\* ones": sweeping them changes no source's allowance.
SweepIsExact ==
    \A s \in Sources \ evicted :
        Level(Bucket(s), Rate, SourceCapacity) = Level(ideal[s], Rate, SourceCapacity)

\* "eviction is fail-open for that source and cannot itself be used to deny a
\* victim": no source has ever been admitted less than by a table without a
\* bound.
EvictionFailsOpen == \A s \in Sources : extra[s] >= 0

\* "The map of buckets is bounded at MAX_SOURCES", whatever arrives.
TableBounded == Cardinality(DOMAIN buckets) <= MaxSources
============================================================================
