---------------------------- MODULE RateLimiter ----------------------------
(***************************************************************************)
(* RateLimiter::consume: the bucket that paces every tunnel a policy       *)
(* allows.  The relays that share it take what they need under a mutex, or *)
(* sleep for as long as the missing budget takes to come in, at most NapMax*)
(* ticks, and look again.  Nobody queues.                                  *)
(***************************************************************************)
EXTENDS Integers

CONSTANTS Relays,    \* the relay tasks that share the bucket
          Units,     \* the sizes of their chunks or datagrams
          Rate,      \* units_per_sec, by the tick
          Capacity,  \* the burst allowance, floored
          NapMax,    \* the longest nap
          MaxSpan    \* bound: the longest window observed

ASSUME RateLimiterAssumption ==
    /\ Rate \in Nat \ {0} /\ Capacity \in Nat \ {0}
    /\ Units \subseteq Nat \ {0}
    /\ NapMax \in Nat \ {0} /\ MaxSpan \in Nat

VARIABLES tokens,   \* BucketState.tokens
          elapsed,  \* ticks since BucketState.last, as far as they matter
          want,     \* per relay: the units it waits for; 0: not in consume
          nap,      \* per relay: ticks it still sleeps
          granted,  \* history: units spent in some window,
          span      \* and its length

vars == <<tokens, elapsed, want, nap, granted, span>>

Init ==
    /\ tokens = Capacity /\ elapsed = 0
    /\ want = [r \in Relays |-> 0] /\ nap = [r \in Relays |-> 0]
    /\ granted = 0 /\ span = 0

\* Mutant: a chunk above the burst allowance waits for all of itself.
Need_NotCapped(units) == units

\* The budget a chunk of this size needs.
Need(units) == IF units < Capacity THEN units ELSE Capacity

Level ==
    LET filled == tokens + elapsed * Rate
    IN IF filled < Capacity THEN filled ELSE Capacity

\* A relay has a chunk to move.
Ask(r) ==
    /\ want[r] = 0
    /\ \E u \in Units : want' = [want EXCEPT ![r] = Need(u)]
    /\ UNCHANGED <<tokens, elapsed, nap, granted, span>>

\* Mutant: the refill is not capped at the capacity.
Spend_Uncapped(r) ==
    /\ want[r] > 0 /\ nap[r] = 0 /\ tokens + elapsed * Rate >= want[r]
    /\ tokens' = tokens + elapsed * Rate - want[r] /\ elapsed' = 0
    /\ granted' = granted + want[r]
    /\ want' = [want EXCEPT ![r] = 0]
    /\ UNCHANGED <<nap, span>>

\* Mutant: the refill does not move the bucket's clock.
Spend_ClockStands(r) ==
    /\ want[r] > 0 /\ nap[r] = 0 /\ Level >= want[r]
    /\ tokens' = Level - want[r]
    /\ granted' = granted + want[r]
    /\ want' = [want EXCEPT ![r] = 0]
    /\ UNCHANGED <<elapsed, nap, span>>

\* Under the lock, with enough in the bucket.
Spend(r) ==
    /\ want[r] > 0 /\ nap[r] = 0 /\ Level >= want[r]
    /\ tokens' = Level - want[r] /\ elapsed' = 0
    /\ granted' = granted + want[r]
    /\ want' = [want EXCEPT ![r] = 0]
    /\ UNCHANGED <<nap, span>>

\* With too little: the refill is kept, and the relay naps for what is missing.
Sleep(r) ==
    LET missing == want[r] - Level
        wait == (missing + Rate - 1) \div Rate
    IN /\ want[r] > 0 /\ nap[r] = 0 /\ missing > 0
       /\ tokens' = Level /\ elapsed' = 0
       /\ nap' = [nap EXCEPT ![r] = IF wait < NapMax THEN wait ELSE NapMax]
       /\ UNCHANGED <<want, granted, span>>

\* The relay is dropped while it waits.
Cancel(r) ==
    /\ want[r] > 0
    /\ want' = [want EXCEPT ![r] = 0] /\ nap' = [nap EXCEPT ![r] = 0]
    /\ UNCHANGED <<tokens, elapsed, granted, span>>

\* A window that has reached its bound gives way to a new one.
Tick ==
    /\ elapsed' = IF elapsed < Capacity THEN elapsed + 1 ELSE elapsed
    /\ nap' = [r \in Relays |-> IF nap[r] > 0 THEN nap[r] - 1 ELSE 0]
    /\ IF span < MaxSpan THEN span' = span + 1 /\ UNCHANGED granted
       ELSE span' = 0 /\ granted' = 0
    /\ UNCHANGED <<tokens, want>>

\* Start observing a window.
Mark ==
    /\ span > 0
    /\ span' = 0 /\ granted' = 0
    /\ UNCHANGED <<tokens, elapsed, want, nap>>

Next ==
    \/ \E r \in Relays : Ask(r) \/ Spend(r) \/ Sleep(r) \/ Cancel(r)
    \/ Tick \/ Mark

Spec == Init /\ [][Next]_vars

\* Time passes, and a task whose sleep is over is polled again.
FairSpec ==
    /\ Spec /\ WF_vars(Tick)
    /\ \A r \in Relays : WF_vars(Spend(r)) /\ WF_vars(Sleep(r))

-----------------------------------------------------------------------------
\* The bucket never holds more than its capacity, and a nap is capped.
TypeOK ==
    /\ tokens \in 0..Capacity /\ elapsed \in 0..Capacity
    /\ want \in [Relays -> Nat] /\ nap \in [Relays -> 0..NapMax]
    /\ granted \in Nat /\ span \in 0..MaxSpan

\* A policy's limit is shared: over any window, all its relays together spend
\* no more budget than one burst and the sustained rate give, whichever of
\* them refills the bucket.
AggregateRate == granted <= Capacity + Rate * span

\* Its inductive form: what is in the bucket has not been spent.
BudgetInv == granted + Level <= Capacity + Rate * span

\* "consume cannot wait forever for a bucket that will never hold enough":
\* while relays wait, one of them gets on (nothing says which).
SomeoneServed ==
    \/ []<>(\A r \in Relays : want[r] = 0)
    \/ []<><<\E r \in Relays : want[r] > 0 /\ want'[r] = 0>>_vars
============================================================================
