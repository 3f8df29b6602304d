--------------------------- MODULE RevocationSync --------------------------
(***************************************************************************)
(* How the list of ended sessions reaches a gateway: run_revocation_sync,  *)
(* the cache fetch_revocations writes, and the load at startup.  The       *)
(* answer of a long poll is cached (best effort), then applied; the        *)
(* process may crash in between, and the control plane be out of reach.    *)
(* What Revocations::replace then does to tunnels is Gateway's Replace.    *)
(***************************************************************************)
EXTENDS Integers, FiniteSets

CONSTANTS Sids,       \* sessions
          MaxFaults   \* bound: crashes, failed cache writes, broken answers

ASSUME RevocationSyncAssumption == IsFiniteSet(Sids) /\ MaxFaults \in Nat

VARIABLES session,     \* live, ended, or over: no credential of it is left
          listGen,     \* the generation of the control plane's list
          reach,       \* the control plane can be reached
          answer,      \* the list on its way to the gateway
          cache,       \* revocations.json; generation 0: there is none
          stage,       \* down, poll, body, staged, apply or backoff
          generation,  \* the last one applied; 0: None
          revoked,     \* Revocations
          faults,
          refused,     \* history: the sessions ever in revoked
          uncached     \* history: of these, the ones a cache write failed for

vars == <<session, listGen, reach, answer, cache, stage, generation, revoked,
          faults, refused, uncached>>
plane == <<session, listGen, reach>>

Listed == {s \in Sids : session[s] = "ended"}
NoList == [generation |-> 0, sids |-> {}]

Init ==
    /\ session = [s \in Sids |-> "live"] /\ listGen = 1 /\ reach = TRUE
    /\ answer = NoList /\ cache = NoList /\ stage = "down"
    /\ generation = 0 /\ revoked = {} /\ faults = 0
    /\ refused = {} /\ uncached = {}

Fault == faults < MaxFaults /\ faults' = faults + 1

(***************************************************************************)
(* The control plane lists a session from its end until its last           *)
(* credential has run out.                                                 *)
(***************************************************************************)
ChangeList(s) ==
    /\ session' = [session EXCEPT ![s] =
                      CASE @ = "live" -> "ended" [] @ = "ended" -> "over"]
    /\ listGen' = listGen + 1
    /\ UNCHANGED <<reach, answer, cache, stage, generation, revoked, faults,
                   refused, uncached>>

Reach ==
    /\ reach' = ~reach
    /\ UNCHANGED <<session, listGen, answer, cache, stage, generation, revoked,
                   faults, refused, uncached>>

(***************************************************************************)
(* The gateway.                                                            *)
(***************************************************************************)
Crash ==
    /\ stage # "down" /\ Fault
    /\ stage' = "down" /\ revoked' = {} /\ generation' = 0 /\ answer' = NoList
    /\ UNCHANGED <<plane, cache, refused, uncached>>

\* Mutant: traffic is taken before the cached list is in force.
Start_CacheForgotten ==
    /\ stage = "down"
    /\ stage' = "poll"
    /\ UNCHANGED <<plane, answer, cache, generation, revoked, faults, refused,
                   uncached>>

\* The cached list is in force before traffic is taken; its generation is not
\* kept, so the first poll brings the whole list.
Start ==
    /\ stage = "down"
    /\ stage' = "poll" /\ revoked' = cache.sids
    /\ refused' = refused \cup revoked'
    /\ UNCHANGED <<plane, answer, cache, generation, faults, uncached>>

PollFails ==
    /\ stage = "poll" /\ ~reach
    /\ stage' = "backoff"
    /\ UNCHANGED <<plane, answer, cache, generation, revoked, faults, refused,
                   uncached>>

BackedOff ==
    /\ stage = "backoff"
    /\ stage' = "poll"
    /\ UNCHANGED <<plane, answer, cache, generation, revoked, faults, refused,
                   uncached>>

\* Mutant: the generation is noted before the list has been read.
Answered_GenerationFirst ==
    /\ stage = "poll" /\ reach /\ generation # listGen
    /\ answer' = [generation |-> listGen, sids |-> Listed]
    /\ stage' = "body" /\ generation' = listGen
    /\ UNCHANGED <<plane, cache, revoked, faults, refused, uncached>>

\* The list has changed: it is sent (an unchanged one is a 304).
Answered ==
    /\ stage = "poll" /\ reach /\ generation # listGen
    /\ answer' = [generation |-> listGen, sids |-> Listed]
    /\ stage' = "body"
    /\ UNCHANGED <<plane, cache, generation, revoked, faults, refused, uncached>>

BodyLost ==
    /\ stage = "body" /\ Fault
    /\ stage' = "backoff" /\ answer' = NoList
    /\ UNCHANGED <<plane, cache, generation, revoked, refused, uncached>>

\* cache_revocations writes a staging file, which a crash leaves unread ...
Staged ==
    /\ stage = "body"
    /\ stage' = "staged"
    /\ UNCHANGED <<plane, answer, cache, generation, revoked, faults, refused,
                   uncached>>

\* ... and renames it into place.
Renamed ==
    /\ stage = "staged"
    /\ cache' = answer /\ stage' = "apply"
    /\ UNCHANGED <<plane, answer, generation, revoked, faults, refused, uncached>>

\* Either may fail; the list is applied all the same.
NotCached ==
    /\ stage \in {"body", "staged"} /\ Fault
    /\ stage' = "apply" /\ uncached' = uncached \cup answer.sids
    /\ UNCHANGED <<plane, answer, cache, generation, revoked, refused>>

Apply ==
    /\ stage = "apply"
    /\ revoked' = answer.sids /\ generation' = answer.generation
    /\ refused' = refused \cup revoked'
    /\ uncached' = IF cache = answer THEN {} ELSE uncached
    /\ stage' = "poll" /\ answer' = NoList
    /\ UNCHANGED <<plane, cache, faults>>

Gateway ==
    \/ Start \/ PollFails \/ BackedOff \/ Answered \/ Staged \/ Renamed \/ Apply

Next ==
    \/ \E s \in Sids : session[s] # "over" /\ ChangeList(s)
    \/ Reach \/ Crash \/ BodyLost \/ NotCached \/ Gateway

Spec == Init /\ [][Next]_vars

\* The sync task runs, and a supervisor starts the process again.
FairSpec == Spec /\ WF_vars(Gateway)

-----------------------------------------------------------------------------
TypeOK ==
    /\ session \in [Sids -> {"live", "ended", "over"}]
    /\ listGen \in Nat /\ generation \in Nat /\ reach \in BOOLEAN
    /\ answer \in [generation : Nat, sids : SUBSET Sids]
    /\ cache \in [generation : Nat, sids : SUBSET Sids]
    /\ stage \in {"down", "poll", "body", "staged", "apply", "backoff"}
    /\ revoked \subseteq Sids /\ refused \subseteq Sids /\ uncached \subseteq Sids
    /\ faults \in 0..MaxFaults

\* "so a restart during a control-plane outage does not revive them": a
\* session the gateway has once refused, whose credentials still verify, is
\* refused for good, unless the cache of the list that named it was not
\* written.
NotRevived ==
    stage # "down" =>
        \A s \in refused \ uncached : session[s] = "ended" => s \in revoked

(***************************************************************************)
(* What makes it inductive: the cache holds every refused session that     *)
(* matters, and so does a list on its way, which is cached or known not to *)
(* be before it is applied.                                                *)
(***************************************************************************)
RevocationInv ==
    /\ \A s \in refused \ uncached : session[s] = "ended" => s \in cache.sids
    /\ \A s \in answer.sids \cup cache.sids \cup refused : session[s] # "live"
    /\ stage \in {"body", "staged", "apply"} =>
          \A s \in refused : session[s] = "ended" => s \in answer.sids
    /\ stage = "apply" => cache = answer \/ answer.sids \subseteq uncached

\* "a missed update can never leave the gateway permanently out of step": once
\* the control plane stays in reach, what is refused is the control plane's
\* list.
UpToDate == stage # "down" /\ revoked = Listed
CatchesUp == <>[]reach => <>[]UpToDate
============================================================================
