------------------------------ MODULE Exchange ------------------------------
(***************************************************************************)
(* The token exchange of a gateway (serve_exchange): an identity token is  *)
(* checked against the issuer's published keys, which are cached for a     *)
(* time (JwksCache) and fetched again once when a token names a key that   *)
(* the cache does not have (OidcVerifier::verify_claims).  Exchanges       *)
(* overlap: two may fetch at once, and the older answer may be stored      *)
(* last.  The issuer publishes and withdraws keys meanwhile.               *)
(*                                                                         *)
(* Ages and waits count ticks; an age stops at Limit, beyond which no      *)
(* property tells two ages apart.                                          *)
(***************************************************************************)
EXTENDS Integers, FiniteSets

CONSTANTS Requests,   \* exchanges
          Keys,       \* signing keys the issuer may come to use
          Ttl,        \* JWKS_TTL
          FetchMax    \* the HTTP client's timeout

ASSUME ExchangeConstants ==
    /\ IsFiniteSet(Requests) /\ IsFiniteSet(Keys) /\ Keys # {}
    /\ Ttl \in Nat \ {0} /\ FetchMax \in Nat \ {0}

VARIABLES live,      \* the keys the issuer publishes
          unused,    \* keys it has not published yet
          goneFor,   \* for each key, how long ago it was withdrawn
          cached,    \* the cached key set and its age, or no entry
          call       \* the exchanges

evars == <<live, unused, goneFor, cached, call>>

Limit == Ttl + FetchMax

Older(age, top) == IF age < top THEN age + 1 ELSE top

\* What a presented token is, as far as its checks tell apart.
Forms == {"missing", "malformed", "not_rs256", "bad_claim", "good"}

Fetching == {"discover", "fetch", "answered"}
Answers == {200, 401, 403, 404, 429, 502}

\* `round` counts the fetches of an exchange, `answered` whether a fetch has
\* its keys, `missed` whether the issuer was seen without the token's key at
\* some time during the exchange, `lag` how long the key had been withdrawn
\* when the token was accepted.
Call == [stage : {"idle", "mint", "done"} \cup Fetching, kid : Keys, form : Forms,
         round : 0..2, wait : 0..FetchMax, keys : SUBSET Keys,
         missed : BOOLEAN, lag : 0..Limit, status : {0} \cup Answers,
         why : {"none", "unknown_key", "other"}]

Idle == [stage |-> "idle", kid |-> CHOOSE k \in Keys : TRUE, form |-> "missing", round |-> 0,
            wait |-> 0, keys |-> {}, missed |-> FALSE, lag |-> 0,
            status |-> 0, why |-> "none"]

NoEntry == [present |-> FALSE, keys |-> {}, age |-> 0]

ETypeOK ==
    /\ live \subseteq Keys /\ unused \subseteq Keys /\ live \cap unused = {}
    /\ goneFor \in [Keys -> 0..Limit]
    /\ cached \in [present : BOOLEAN, keys : SUBSET Keys, age : 0..Ttl]
    /\ call \in [Requests -> Call]

EInit ==
    /\ live = {Idle.kid} /\ unused = Keys \ live
    /\ goneFor = [k \in Keys |-> Limit]
    /\ cached = NoEntry
    /\ call = [r \in Requests |-> Idle]

-----------------------------------------------------------------------------
\* Verifier::verify, in the order of its checks.
Verify(form, kid, keys) ==
    CASE form = "malformed" -> "malformed"
      [] form = "not_rs256" -> "algorithm"
      [] kid \notin keys -> "unknown_key"
      [] form = "bad_claim" -> "claims"
      [] OTHER -> "ok"

\* JwksCache::keys: the cached keys answer while they are younger than the TTL.
Fresh(entry) == entry.present /\ entry.age < Ttl

\* HttpJwksProvider::fetch starts with the discovery document.
StartFetch(c, round) ==
    [c EXCEPT !.stage = "discover", !.wait = 0, !.round = round, !.keys = {}]

Done(c, status, why) ==
    [Idle EXCEPT !.stage = "done", !.status = status, !.why = why, !.lag = c.lag,
                 !.missed = c.missed /\ why = "unknown_key"]

\* Mutant: a key the cache does not have is not looked for.
Judge_NoRefetch(c, keys) ==
    LET v == Verify(c.form, c.kid, keys)
    IN CASE v = "ok" -> [Idle EXCEPT !.stage = "mint",
                                     !.lag = IF c.kid \in live THEN 0 ELSE goneFor[c.kid]]
         [] OTHER -> Done(c, 403, IF v = "unknown_key" THEN v ELSE "other")

\* OidcVerifier::verify_claims with a key set at hand: an unknown key costs one
\* more fetch, the second time it is final.
Judge(c, keys) ==
    LET v == Verify(c.form, c.kid, keys)
    IN CASE v = "ok" -> [Idle EXCEPT !.stage = "mint",
                                     !.lag = IF c.kid \in live THEN 0 ELSE goneFor[c.kid]]
         [] v = "unknown_key" /\ c.round < 2 -> StartFetch(c, 2)
         [] OTHER -> Done(c, 403, IF v = "unknown_key" THEN v ELSE "other")

\* serve_exchange up to the first await: no minter, the source's rate, no
\* bearer token, then the minter's verification.
Begin(r, kid, form, minter, throttled) ==
    /\ call[r].stage = "idle"
    /\ LET c == [call[r] EXCEPT !.kid = kid, !.form = form, !.missed = kid \notin live]
       IN call' = [call EXCEPT ![r] =
            CASE ~minter -> Done(c, 404, "other")
              [] minter /\ throttled -> Done(c, 429, "other")
              [] minter /\ ~throttled /\ form = "missing" -> Done(c, 401, "other")
              [] minter /\ ~throttled /\ form # "missing" /\ Fresh(cached) ->
                    Judge(c, cached.keys)
              [] OTHER -> StartFetch(c, 1)]
    /\ UNCHANGED <<live, unused, goneFor, cached>>

\* The discovery document arrives and the key set is asked for.
Discovered(r) ==
    /\ call[r].stage = "discover"
    /\ call' = [call EXCEPT ![r] = [@ EXCEPT !.stage = "fetch", !.wait = 0]]
    /\ UNCHANGED <<live, unused, goneFor, cached>>

\* The issuer answers with the keys it publishes at that moment.
IssuerAnswers(r) ==
    /\ call[r].stage = "fetch"
    /\ call' = [call EXCEPT ![r] = [@ EXCEPT !.stage = "answered", !.keys = live]]
    /\ UNCHANGED <<live, unused, goneFor, cached>>

\* JwksCache::refresh: the answer is stored over whatever the cache holds, and
\* the token is checked against the answer itself.
Store(r) ==
    /\ call[r].stage = "answered"
    /\ cached' = [present |-> TRUE, keys |-> call[r].keys, age |-> 0]
    /\ call' = [call EXCEPT ![r] = Judge(@, call[r].keys)]
    /\ UNCHANGED <<live, unused, goneFor>>

\* A fetch that fails, or is not answered within the client's timeout, makes
\* the exchange unavailable; what the cache holds stays.
FetchFails(r) ==
    /\ call[r].stage \in Fetching
    /\ call' = [call EXCEPT ![r] = Done(@, 502, "other")]
    /\ UNCHANGED <<live, unused, goneFor, cached>>

\* OidcMinter::mint, past the verification: the gateway signs by itself.
OidcMint == 200

\* RemoteMinter::mint, past the verification: the control plane signs; when it
\* does not, for whatever reason, the gateway does if it has a fallback.
RemoteMint(signed, fallback) == IF signed \/ fallback THEN 200 ELSE 502

Minted == {OidcMint} \cup {RemoteMint(signed, fallback) : signed, fallback \in BOOLEAN}

\* The minter answers a verified token.
Mint(r) ==
    /\ call[r].stage = "mint"
    /\ \E status \in Minted : call' = [call EXCEPT ![r] = Done(@, status, "other")]
    /\ UNCHANGED <<live, unused, goneFor, cached>>

\* The client takes its answer and may come again.
Leave(r) ==
    /\ call[r].stage = "done"
    /\ call' = [call EXCEPT ![r] = Idle]
    /\ UNCHANGED <<live, unused, goneFor, cached>>

-----------------------------------------------------------------------------
\* The issuer starts to publish another key.
Publish(k) ==
    /\ k \in unused
    /\ live' = live \cup {k} /\ unused' = unused \ {k}
    /\ UNCHANGED <<goneFor, cached, call>>

\* The issuer withdraws a key; it publishes at least one.
Withdraw(k) ==
    /\ k \in live /\ live # {k}
    /\ live' = live \ {k}
    /\ goneFor' = [goneFor EXCEPT ![k] = 0]
    /\ call' = [r \in Requests |->
                  IF call[r].stage \in Fetching /\ call[r].kid = k THEN [call[r] EXCEPT !.missed = TRUE] ELSE call[r]]
    /\ UNCHANGED <<unused, cached>>

\* Time passes, but no fetch waits beyond its timeout.
Tick ==
    /\ \A r \in Requests : call[r].stage \in Fetching => call[r].wait < FetchMax
    /\ goneFor' = [k \in Keys |-> Older(goneFor[k], Limit)]
    /\ cached' = [cached EXCEPT !.age = IF cached.present THEN Older(@, Ttl) ELSE 0]
    /\ call' = [r \in Requests |->
                  IF call[r].stage \in Fetching
                  THEN [call[r] EXCEPT !.wait = @ + 1] ELSE call[r]]
    /\ UNCHANGED <<live, unused>>

Serve(r) ==
    \/ Discovered(r) \/ IssuerAnswers(r) \/ Store(r) \/ FetchFails(r) \/ Mint(r)

ENext ==
    \/ \E r \in Requests : Serve(r) \/ Leave(r)
    \/ \E r \in Requests, kid \in Keys, form \in Forms, minter, throttled \in BOOLEAN :
          Begin(r, kid, form, minter, throttled)
    \/ \E k \in Keys : Publish(k) \/ Withdraw(k)
    \/ Tick

ESpec == EInit /\ [][ENext]_evars

-----------------------------------------------------------------------------
\* A withdrawn key is trusted for less than the cache's lifetime and one fetch:
\* an older answer that is stored last, or one that was slow, does not keep
\* extending the life of a key the issuer has rotated out (JwksCache::refresh).
WithdrawnKeyExpires == \A r \in Requests : call[r].status = 200 => call[r].lag < Limit

\* verify_claims refuses a token for its key only if the issuer was without
\* that key at some time during the exchange: whatever other exchanges store
\* meanwhile, "the key set is refreshed once ... before giving up".
PublishedKeyIsFound ==
    \A r \in Requests : call[r].why = "unknown_key" => call[r].missed

ExchangeInv == ETypeOK /\ WithdrawnKeyExpires /\ PublishedKeyIsFound
=============================================================================
