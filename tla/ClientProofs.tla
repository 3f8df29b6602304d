---------------------------- MODULE ClientProofs ----------------------------
(***************************************************************************)
(* Proofs about what a client has: its token, in the exchanges at a        *)
(* gateway, for any exchanges, keys, cache lifetime and fetch timeout; its *)
(* credential, for any lifetimes and intervals such that two exchanges fit *)
(* into the lead time; and a TCP flow of its native TUN, for any buffers.  *)
(***************************************************************************)
EXTENDS Exchange, Credentials, NetStream, TLAPS

(***************************************************************************)
(* The token exchange.                                                     *)
(***************************************************************************)
(* What an exchange in progress knows: nothing yet while idle; a key it    *)
(* accepted was withdrawn less than Limit ago; the issuer was without a    *)
(* key that is neither published nor among the answered keys; and a key    *)
(* that was answered has not been withdrawn for longer than it waits.      *)
Traced(c) ==
    /\ c.stage = "idle" => c = Idle
    /\ c.lag < Limit
    /\ c.why = "unknown_key" => c.missed
    /\ c.stage \in Fetching /\ c.kid \notin live => c.missed
    /\ c.stage = "answered" =>
        /\ c.kid \in c.keys \/ c.missed
        /\ \A k \in c.keys : k \in live \/ goneFor[k] <= c.wait

(* A cached key was withdrawn no longer ago than the answer was stored and *)
(* one fetch before that.                                                  *)
CacheTraced ==
    /\ ~cached.present => cached.keys = {}
    /\ \A k \in cached.keys : k \in live \/ goneFor[k] <= cached.age + FetchMax

ExchangeIInv == ETypeOK /\ CacheTraced /\ \A r \in Requests : Traced(call[r])

(* The bounds of ages and waits, as the provers need them.                 *)
LEMMA LimitIs ==
    /\ Limit \in Nat /\ 0 < Limit /\ FetchMax < Limit /\ 0 \in 0..Limit /\ Limit \in 0..Limit
    /\ FetchMax \in Nat /\ 0 \in 0..FetchMax /\ Ttl \in Nat /\ 0 \in 0..Ttl /\ Limit = Ttl + FetchMax
BY ExchangeConstants DEF Limit

(* The record of a request slot without an exchange.                       *)
LEMMA IdleIs ==
    /\ Idle \in Call /\ Idle.stage = "idle" /\ Idle.lag = 0 /\ Idle.why = "none" /\ Idle.round = 0
    /\ Idle.kid \in Keys /\ Idle.lag < Limit
<1>1. (CHOOSE k \in Keys : TRUE) \in Keys
    BY ExchangeConstants
<1> QED BY <1>1, LimitIs DEF Idle, Call, Forms

(* finish_json: an answered exchange.                                      *)
LEMMA DoneIs ==
    ASSUME NEW c \in Call, c.lag < Limit, NEW status \in Answers, NEW why \in {"unknown_key", "other"},
           why = "unknown_key" => c.missed
    PROVE  Done(c, status, why) \in Call /\ Traced(Done(c, status, why))
<1> DEFINE m == c.missed /\ why = "unknown_key"
           n == [Idle EXCEPT !.stage = "done", !.status = status, !.why = why, !.lag = c.lag,
                             !.missed = m]
<1>1. Done(c, status, why) = n /\ m \in BOOLEAN /\ (why = "unknown_key" => m) /\ c.lag \in 0..Limit
    BY DEF Done, Call
<1> HIDE DEF m
<1>2. n \in Call
    BY <1>1, IdleIs DEF Call
<1>3. n.stage = "done" /\ n.lag = c.lag /\ n.why = why /\ n.missed = m
    BY IdleIs DEF Call
<1> HIDE DEF n
<1>4. Traced(n)
    BY <1>1, <1>3 DEF Traced, Fetching
<1> QED BY <1>1, <1>2, <1>4

(* HttpJwksProvider: an exchange that begins a fetch.                      *)
LEMMA StartFetchIs ==
    ASSUME NEW c \in Call, c.lag < Limit, c.why = "unknown_key" => c.missed,
           c.kid \notin live => c.missed, NEW n \in {1, 2}
    PROVE  StartFetch(c, n) \in Call /\ Traced(StartFetch(c, n))
<1> DEFINE d == [c EXCEPT !.stage = "discover", !.wait = 0, !.round = n, !.keys = {}]
<1>0. 0 \in 0..FetchMax /\ n \in 0..2 /\ {} \in SUBSET Keys
    BY ExchangeConstants
<1>1. d \in Call
    BY <1>0 DEF Call, Fetching
<1>x. d.stage = "discover" /\ d.lag = c.lag /\ d.why = c.why /\ d.missed = c.missed /\ d.kid = c.kid
    BY DEF Call
<1>2. StartFetch(c, n) = d
    BY DEF StartFetch
<1> HIDE DEF d
<1>3. Traced(d)
    BY <1>x DEF Traced
<1> QED BY <1>1, <1>2, <1>3

(* A judged token is accepted for a key withdrawn less than Limit ago,     *)
(* looked for once more, or refused.                                       *)
LEMMA JudgeIs ==
    ASSUME NEW c \in Call, NEW keys \in SUBSET Keys, goneFor \in [Keys -> 0..Limit],
           c.lag < Limit, c.why = "unknown_key" => c.missed, c.kid \notin live => c.missed,
           c.round < 2 \/ c.kid \in keys \/ c.missed,
           \A k \in keys : k \in live \/ goneFor[k] < Limit
    PROVE  Judge(c, keys) \in Call /\ Traced(Judge(c, keys))
<1> DEFINE v == Verify(c.form, c.kid, keys)
           w == IF v = "unknown_key" THEN v ELSE "other"
           l == IF c.kid \in live THEN 0 ELSE goneFor[c.kid]
           n == [Idle EXCEPT !.stage = "mint", !.lag = l]
<1>1. /\ v \in {"malformed", "algorithm", "unknown_key", "claims", "ok"}
      /\ v = "ok" => c.kid \in keys
      /\ v = "unknown_key" => c.kid \notin keys
    BY DEF Verify
<1> HIDE DEF v
<1>2. CASE v = "ok"
  <2>1. l \in 0..Limit /\ l < Limit
      BY <1>1, <1>2, LimitIs DEF Call
  <2> HIDE DEF l
  <2>2. n \in Call /\ n.stage = "mint" /\ n.lag = l /\ n.why = "none"
      BY <2>1, IdleIs DEF Call
  <2>3. Judge(c, keys) = n
      BY <1>2 DEF Judge, v, l
  <2> HIDE DEF n
  <2>4. Traced(n)
      BY <2>1, <2>2 DEF Traced, Fetching
  <2> QED BY <2>2, <2>3, <2>4
<1>3. CASE v = "unknown_key" /\ c.round < 2
  <2>1. Judge(c, keys) = StartFetch(c, 2)
      BY <1>3 DEF Judge, v
  <2> QED BY <2>1, StartFetchIs
<1>4. CASE v # "ok" /\ ~(v = "unknown_key" /\ c.round < 2)
  <2>1. Judge(c, keys) = Done(c, 403, w)
      BY <1>4 DEF Judge, v
  <2>2. w \in {"unknown_key", "other"} /\ (w = "unknown_key" => c.missed)
      BY <1>1, <1>4
  <2> HIDE DEF w
  <2> QED BY <2>1, <2>2, DoneIs DEF Answers
<1> QED BY <1>1, <1>2, <1>3, <1>4

(* A step of one exchange that may store keys leaves the others traced.    *)
LEMMA CallChanges ==
    ASSUME ExchangeIInv, NEW r \in Requests, NEW n \in Call, Traced(n),
           call' = [call EXCEPT ![r] = n], UNCHANGED <<live, unused, goneFor>>,
           cached' \in [present : BOOLEAN, keys : SUBSET Keys, age : 0..Ttl], CacheTraced'
    PROVE  ExchangeIInv'
<1>1. ETypeOK'
    BY DEF ExchangeIInv, ETypeOK
<1>2. ASSUME NEW q \in Requests PROVE Traced(call[q])'
    BY <1>2 DEF ExchangeIInv, ETypeOK, Traced
<1> QED BY <1>1, <1>2 DEF ExchangeIInv

(* A step of one exchange that stores none leaves the others traced.       *)
LEMMA CallMoves ==
    ASSUME ExchangeIInv, NEW r \in Requests, NEW n \in Call, Traced(n),
           call' = [call EXCEPT ![r] = n], UNCHANGED <<live, unused, goneFor, cached>>
    PROVE  ExchangeIInv'
<1>1. cached' \in [present : BOOLEAN, keys : SUBSET Keys, age : 0..Ttl] /\ CacheTraced'
    BY DEF ExchangeIInv, ETypeOK, CacheTraced
<1> QED BY <1>1, CallChanges

(* serve_exchange up to its first wait.                                    *)
LEMMA BeginTraced ==
    ASSUME ExchangeIInv, NEW r \in Requests, NEW kid \in Keys, NEW form \in Forms,
           NEW minter \in BOOLEAN, NEW throttled \in BOOLEAN,
           Begin(r, kid, form, minter, throttled)
    PROVE  ExchangeIInv'
<1> DEFINE m == kid \notin live
           c == [call[r] EXCEPT !.kid = kid, !.form = form, !.missed = m]
           n == CASE ~minter -> Done(c, 404, "other")
                  [] minter /\ throttled -> Done(c, 429, "other")
                  [] minter /\ ~throttled /\ form = "missing" -> Done(c, 401, "other")
                  [] minter /\ ~throttled /\ form # "missing" /\ Fresh(cached) ->
                        Judge(c, cached.keys)
                  [] OTHER -> StartFetch(c, 1)
<1>1. call[r] = Idle
    BY DEF ExchangeIInv, Traced, Begin
<1>2. call' = [call EXCEPT ![r] = n] /\ UNCHANGED <<live, unused, goneFor, cached>>
    BY DEF Begin
<1>3. m \in BOOLEAN /\ (kid \notin live => m)
    OBVIOUS
<1> HIDE DEF m
<1>4. c \in Call /\ c.lag < Limit /\ c.why = "none" /\ c.round = 0 /\ c.kid = kid
    BY <1>1, <1>3, IdleIs DEF Call
<1>5. c.missed = m
    BY <1>1, IdleIs DEF Call
<1> HIDE DEF c
<1>6. c.lag < Limit /\ c.why # "unknown_key" /\ (c.kid \notin live => c.missed) /\ c.round < 2
  <2>1. c.kid \notin live => c.missed
      BY <1>3, <1>4, <1>5
  <2>2. c.round < 2
      BY <1>4
  <2>3. c.why # "unknown_key"
      BY <1>4
  <2> QED BY <1>4, <2>1, <2>2, <2>3, Zenon
<1>7. ASSUME NEW s \in {401, 404, 429}
      PROVE  Done(c, s, "other") \in Call /\ Traced(Done(c, s, "other"))
  <2>1. s \in Answers
      BY <1>7 DEF Answers
  <2> QED BY <1>4, <1>6, <2>1, DoneIs
<1>8. StartFetch(c, 1) \in Call /\ Traced(StartFetch(c, 1))
    BY <1>4, <1>6, StartFetchIs
<1>9. ASSUME Fresh(cached) PROVE Judge(c, cached.keys) \in Call /\ Traced(Judge(c, cached.keys))
  <2>1. /\ cached.keys \in SUBSET Keys /\ cached.age \in Nat /\ cached.age < Ttl
        /\ goneFor \in [Keys -> 0..Limit]
      BY <1>9, ExchangeConstants DEF ExchangeIInv, ETypeOK, Fresh
  <2>2. \A k \in cached.keys : k \in live \/ goneFor[k] < Limit
      BY <2>1, ExchangeConstants DEF ExchangeIInv, CacheTraced, Limit
  <2> QED BY <1>4, <1>6, <2>1, <2>2, JudgeIs
<1>10. n \in Call /\ Traced(n)
  <2>1. \/ n = Done(c, 404, "other") \/ n = Done(c, 429, "other") \/ n = Done(c, 401, "other")
        \/ Fresh(cached) /\ n = Judge(c, cached.keys)
        \/ n = StartFetch(c, 1)
      OBVIOUS
  <2> HIDE DEF n
  <2> QED BY <1>7, <1>8, <1>9, <2>1
<1> HIDE DEF n
<1> QED BY <1>2, <1>10, CallMoves

(* The later steps of an exchange, its answer included.                    *)
LEMMA ServeTraced ==
    ASSUME ExchangeIInv, NEW r \in Requests, Serve(r) \/ Leave(r)
    PROVE  ExchangeIInv'
<1>0. /\ call[r] \in Call /\ Traced(call[r]) /\ live \subseteq Keys
      /\ goneFor \in [Keys -> 0..Limit]
    BY DEF ExchangeIInv, ETypeOK
<1>1. CASE Discovered(r)
  <2> DEFINE n == [call[r] EXCEPT !.stage = "fetch", !.wait = 0]
  <2>1. call' = [call EXCEPT ![r] = n] /\ UNCHANGED <<live, unused, goneFor, cached>>
      BY <1>1 DEF Discovered
  <2>2. 0 \in 0..FetchMax
      BY ExchangeConstants
  <2>3. n \in Call
      BY <1>0, <2>2 DEF Call, Fetching
  <2>4. /\ n.stage = "fetch" /\ n.lag = call[r].lag /\ n.why = call[r].why
        /\ n.missed = call[r].missed /\ n.kid = call[r].kid
      BY <1>0 DEF Call
  <2> HIDE DEF n
  <2>5. Traced(n)
      BY <1>0, <1>1, <2>4 DEF Traced, Fetching, Discovered
  <2> QED BY <2>1, <2>3, <2>5, CallMoves
<1>2. CASE IssuerAnswers(r)
  <2> DEFINE n == [call[r] EXCEPT !.stage = "answered", !.keys = live]
  <2>1. call' = [call EXCEPT ![r] = n] /\ UNCHANGED <<live, unused, goneFor, cached>>
      BY <1>2 DEF IssuerAnswers
  <2>3. n \in Call
      BY <1>0 DEF Call, Fetching
  <2>4. /\ n.stage = "answered" /\ n.lag = call[r].lag /\ n.why = call[r].why
        /\ n.missed = call[r].missed /\ n.kid = call[r].kid /\ n.keys = live
      BY <1>0 DEF Call
  <2> HIDE DEF n
  <2>5. Traced(n)
      BY <1>0, <1>2, <2>4 DEF Traced, Fetching, IssuerAnswers
  <2> QED BY <2>1, <2>3, <2>5, CallMoves
<1>3. CASE Store(r)
  <2> DEFINE n == Judge(call[r], call[r].keys)
  <2>1. /\ call' = [call EXCEPT ![r] = n] /\ UNCHANGED <<live, unused, goneFor>>
        /\ cached' = [present |-> TRUE, keys |-> call[r].keys, age |-> 0]
      BY <1>3 DEF Store
  <2>2. /\ call[r].keys \in SUBSET Keys /\ call[r].wait \in 0..FetchMax
        /\ call[r].kid \in call[r].keys \/ call[r].missed
        /\ \A k \in call[r].keys : k \in live \/ goneFor[k] <= call[r].wait
      BY <1>0, <1>3 DEF Store, Traced, Call
  <2>3. \A k \in call[r].keys : k \in live \/ (goneFor[k] <= FetchMax /\ goneFor[k] < Limit)
    <3> SUFFICES ASSUME NEW k \in call[r].keys, k \notin live
                 PROVE  goneFor[k] <= FetchMax /\ goneFor[k] < Limit
        OBVIOUS
    <3>1. goneFor[k] \in Int /\ goneFor[k] <= call[r].wait /\ call[r].wait \in Int
          /\ call[r].wait <= FetchMax /\ FetchMax \in Int /\ Limit \in Int /\ FetchMax < Limit
        BY <1>0, <2>2, LimitIs
    <3> QED BY <3>1
  <2>4. n \in Call /\ Traced(n)
      BY <1>0, <1>3, <2>2, <2>3, JudgeIs DEF Traced, Fetching, Store
  <2>5. cached' \in [present : BOOLEAN, keys : SUBSET Keys, age : 0..Ttl]
      BY <2>1, <2>2, ExchangeConstants
  <2>6. CacheTraced'
    <3>1. cached'.present = TRUE /\ cached'.keys = call[r].keys /\ cached'.age + FetchMax = FetchMax
        BY <2>1, ExchangeConstants
    <3> QED BY <2>1, <2>3, <3>1 DEF CacheTraced
  <2> HIDE DEF n
  <2> QED BY <2>1, <2>4, <2>5, <2>6, CallChanges
<1>4. CASE FetchFails(r)
  <2>1. Done(call[r], 502, "other") \in Call /\ Traced(Done(call[r], 502, "other"))
      BY <1>0, DoneIs DEF Traced, Answers
  <2> QED BY <1>4, <2>1, CallMoves DEF FetchFails
<1>5. CASE Mint(r)
  <2>1. PICK s \in Minted : call' = [call EXCEPT ![r] = Done(call[r], s, "other")]
      BY <1>5 DEF Mint
  <2>2. s \in Answers
      BY DEF Minted, OidcMint, RemoteMint, Answers
  <2>3. Done(call[r], s, "other") \in Call /\ Traced(Done(call[r], s, "other"))
      BY <1>0, <2>2, DoneIs DEF Traced
  <2> QED BY <1>5, <2>1, <2>3, CallMoves DEF Mint
<1>6. CASE Leave(r)
  <2>1. Traced(Idle)
      BY IdleIs DEF Traced, Fetching
  <2> QED BY <1>6, <2>1, IdleIs, CallMoves DEF Leave
<1> QED BY <1>1, <1>2, <1>3, <1>4, <1>5, <1>6 DEF Serve

(* The issuer publishes or withdraws a key while exchanges run.            *)
LEMMA IssuerTraced ==
    ASSUME ExchangeIInv, NEW k \in Keys, Publish(k) \/ Withdraw(k)
    PROVE  ExchangeIInv'
<1>0. ETypeOK /\ CacheTraced
    BY DEF ExchangeIInv
<1>1. CASE Publish(k)
  <2>1. ETypeOK'
      BY <1>0, <1>1 DEF Publish, ETypeOK
  <2>2. CacheTraced'
      BY <1>0, <1>1 DEF Publish, CacheTraced
  <2>3. ASSUME NEW r \in Requests PROVE Traced(call[r])'
      BY <1>1 DEF Publish, Traced, ExchangeIInv
  <2> QED BY <2>1, <2>2, <2>3 DEF ExchangeIInv
<1>2. CASE Withdraw(k)
  <2>0. /\ live' = live \ {k} /\ UNCHANGED <<unused, cached>>
        /\ goneFor' \in [Keys -> 0..Limit] /\ goneFor'[k] = 0
        /\ \A o \in Keys \ {k} : goneFor'[o] = goneFor[o]
    <3>1. 0 \in 0..Limit /\ goneFor \in [Keys -> 0..Limit] /\ goneFor' = [goneFor EXCEPT ![k] = 0]
        BY <1>0, <1>2, LimitIs DEF Withdraw, ETypeOK
    <3> QED BY <1>2, <3>1 DEF Withdraw
  <2>1. ASSUME NEW r \in Requests PROVE call'[r] \in Call /\ Traced(call[r])'
    <3>0. /\ call[r] \in Call /\ Traced(call[r]) /\ call[r].keys \subseteq Keys
          /\ call[r].wait \in Nat
      <4>1. call[r] \in Call /\ Traced(call[r])
          BY DEF ExchangeIInv, ETypeOK
      <4>2. call[r].keys \subseteq Keys /\ call[r].wait \in 0..FetchMax
          BY <4>1 DEF Call
      <4> QED BY <4>1, <4>2
    <3>1. CASE call[r].stage \in Fetching /\ call[r].kid = k
      <4> DEFINE n == [call[r] EXCEPT !.missed = TRUE]
      <4>1. call'[r] = n
          BY <1>2, <3>1 DEF Withdraw
      <4>2. n \in Call
          BY <3>0 DEF Call
      <4>3. /\ n.stage = call[r].stage /\ n.lag = call[r].lag /\ n.missed = TRUE
            /\ n.keys = call[r].keys /\ n.wait = call[r].wait
          BY <3>0 DEF Call
      <4> HIDE DEF n
      <4>4. /\ call'[r].stage = call[r].stage /\ call'[r].lag = call[r].lag /\ call'[r].missed = TRUE
            /\ call'[r].keys = call[r].keys /\ call'[r].wait = call[r].wait
          BY <4>1, <4>3
      <4>5. Traced(call[r])'
          BY <2>0, <3>0, <3>1, <4>4 DEF Traced, Fetching
      <4> QED BY <4>1, <4>2, <4>5
    <3>2. CASE ~(call[r].stage \in Fetching /\ call[r].kid = k)
      <4>1. call'[r] = call[r]
          BY <1>2, <3>2 DEF Withdraw
      <4>2. Traced(call[r])'
          BY <2>0, <3>0, <3>2, <4>1 DEF Traced, Fetching
      <4> QED BY <3>0, <4>1, <4>2
    <3> QED BY <3>1, <3>2
  <2>2. ETypeOK'
    <3>1. call' = [r \in Requests |-> call'[r]]
        BY <1>2 DEF Withdraw
    <3>2. call' \in [Requests -> Call]
        BY <2>1, <3>1
    <3> QED BY <1>0, <2>0, <3>2 DEF ETypeOK
  <2>3. CacheTraced'
    <3>1. cached.keys \subseteq Keys /\ cached.age \in Nat
        BY <1>0, ExchangeConstants DEF ETypeOK
    <3> QED BY <1>0, <2>0, <3>1, ExchangeConstants DEF CacheTraced
  <2> QED BY <2>1, <2>2, <2>3 DEF ExchangeIInv
<1> QED BY <1>1, <1>2

(* Time ages the cache, the fetches and the withdrawn keys alike.          *)
LEMMA TickTraced ==
    ASSUME ExchangeIInv, Tick
    PROVE  ExchangeIInv'
<1>0. /\ ETypeOK /\ CacheTraced /\ goneFor \in [Keys -> 0..Limit] /\ call \in [Requests -> Call]
      /\ cached \in [present : BOOLEAN, keys : SUBSET Keys, age : 0..Ttl]
      /\ Limit \in Nat /\ FetchMax \in Nat /\ Ttl \in Nat /\ Limit = Ttl + FetchMax
    BY LimitIs DEF ExchangeIInv, ETypeOK
<1>1. /\ goneFor' \in [Keys -> 0..Limit]
      /\ \A k \in Keys : goneFor'[k] <= goneFor[k] + 1
  <2>1. \A k \in Keys : Older(goneFor[k], Limit) \in 0..Limit
                        /\ Older(goneFor[k], Limit) <= goneFor[k] + 1
      BY <1>0 DEF Older
  <2> QED BY <2>1 DEF Tick
<1>2. ASSUME NEW r \in Requests PROVE call'[r] \in Call /\ Traced(call[r])'
  <2>0. call[r] \in Call /\ Traced(call[r]) /\ call[r].wait \in 0..FetchMax
        /\ call[r].keys \subseteq Keys
      BY <1>0 DEF ExchangeIInv, Call
  <2>1. CASE call[r].stage \in Fetching
    <3> DEFINE n == [call[r] EXCEPT !.wait = call[r].wait + 1]
    <3>1. call'[r] = n
        BY <2>0, <2>1 DEF Tick, Call
    <3>2. call[r].wait + 1 \in 0..FetchMax
        BY <1>0, <2>0, <2>1 DEF Tick
    <3>3. n \in Call
        BY <2>0, <3>2 DEF Call
    <3>4. /\ n.stage = call[r].stage /\ n.lag = call[r].lag /\ n.missed = call[r].missed
          /\ n.keys = call[r].keys /\ n.wait = call[r].wait + 1 /\ n.kid = call[r].kid
          /\ n.why = call[r].why
        BY <2>0 DEF Call
    <3> HIDE DEF n
    <3>5. /\ call'[r].stage = call[r].stage /\ call'[r].lag = call[r].lag
          /\ call'[r].missed = call[r].missed
          /\ call'[r].keys = call[r].keys /\ call'[r].wait = call[r].wait + 1
          /\ call'[r].kid = call[r].kid /\ call'[r].why = call[r].why
        BY <3>1, <3>4
    <3>6. ASSUME call[r].stage = "answered", NEW k \in call[r].keys
          PROVE  k \in live \/ goneFor'[k] <= call[r].wait + 1
      <4>1. k \in live \/ goneFor[k] <= call[r].wait
          BY <2>0, <3>6 DEF Traced
      <4>2. goneFor'[k] <= goneFor[k] + 1 /\ goneFor[k] \in Int /\ goneFor'[k] \in Int
            /\ call[r].wait \in Int
          BY <1>0, <1>1, <2>0, <3>6
      <4> QED BY <4>1, <4>2
    <3>7. call[r].stage # "idle" /\ live' = live
        BY <2>1 DEF Fetching, Tick
    <3>8. Traced(call[r])'
        BY <2>0, <3>5, <3>6, <3>7 DEF Traced, Fetching
    <3> QED BY <3>1, <3>3, <3>8
  <2>2. CASE call[r].stage \notin Fetching
    <3>1. call'[r] = call[r] /\ live' = live
        BY <2>2 DEF Tick
    <3>2. Traced(call[r])'
        BY <2>0, <2>2, <3>1 DEF Traced, Fetching
    <3> QED BY <2>0, <3>1, <3>2
  <2> QED BY <2>1, <2>2
<1>3. cached' \in [present : BOOLEAN, keys : SUBSET Keys, age : 0..Ttl] /\ CacheTraced'
  <2> DEFINE a == IF cached.present THEN Older(cached.age, Ttl) ELSE 0
  <2>1. cached' = [cached EXCEPT !.age = a]
      BY DEF Tick
  <2>2. /\ cached.age \in 0..Ttl /\ a \in 0..Ttl /\ cached.keys \subseteq Keys
        /\ cached.present => (a = Ttl \/ a = cached.age + 1)
      BY <1>0 DEF Older
  <2> HIDE DEF a
  <2>3. /\ cached' \in [present : BOOLEAN, keys : SUBSET Keys, age : 0..Ttl]
        /\ cached'.present = cached.present /\ cached'.keys = cached.keys /\ cached'.age = a
      BY <1>0, <2>1, <2>2
  <2>4. ASSUME NEW k \in cached.keys PROVE k \in live \/ goneFor'[k] <= a + FetchMax
    <3>1. cached.present
        BY <1>0, <2>4 DEF CacheTraced
    <3>2. k \in live \/ goneFor[k] <= cached.age + FetchMax
        BY <1>0, <2>4 DEF CacheTraced
    <3>3. /\ goneFor[k] \in Int /\ goneFor'[k] \in Int /\ goneFor'[k] <= Limit
          /\ goneFor'[k] <= goneFor[k] + 1
        BY <1>0, <1>1, <2>2, <2>4
    <3> QED BY <1>0, <2>2, <3>1, <3>2, <3>3
  <2>5. CacheTraced'
      BY <1>0, <2>3, <2>4 DEF CacheTraced, Tick
  <2> QED BY <2>3, <2>5
<1>4. call' \in [Requests -> Call]
  <2>1. call' = [r \in Requests |-> call'[r]]
      BY DEF Tick
  <2> QED BY <1>2, <2>1
<1>5. ETypeOK'
    BY <1>0, <1>1, <1>3, <1>4 DEF Tick, ETypeOK
<1> QED BY <1>2, <1>3, <1>5 DEF ExchangeIInv

(* However exchanges overlap, and whenever the issuer publishes and        *)
(* withdraws keys: a token is accepted for a withdrawn key only within the *)
(* cache's lifetime and one fetch, and refused for an unknown key only if  *)
(* the issuer was without it meanwhile (JwksCache, verify_claims).         *)
THEOREM ExchangeSound == ESpec => []ExchangeInv
<1>1. ASSUME EInit PROVE ExchangeIInv
  <2>2. NoEntry \in [present : BOOLEAN, keys : SUBSET Keys, age : 0..Ttl] /\ NoEntry.keys = {}
      BY LimitIs DEF NoEntry
  <2>3. ETypeOK
      BY <1>1, <2>2, IdleIs, LimitIs DEF EInit, ETypeOK
  <2>4. CacheTraced
      BY <1>1, <2>2 DEF EInit, CacheTraced
  <2>5. Traced(Idle)
      BY IdleIs DEF Traced, Fetching
  <2>6. \A r \in Requests : call[r] = Idle
      BY <1>1 DEF EInit
  <2> QED BY <2>3, <2>4, <2>5, <2>6 DEF ExchangeIInv
<1>2. ASSUME ExchangeIInv, [ENext]_evars PROVE ExchangeIInv'
  <2>1. CASE UNCHANGED evars
      BY <1>2, <2>1, Zenon DEF evars, ExchangeIInv, ETypeOK, CacheTraced, Traced
  <2>2. CASE ENext
      BY <1>2, <2>2, ServeTraced, BeginTraced, IssuerTraced, TickTraced, Zenon DEF ENext
  <2> QED BY <1>2, <2>1, <2>2
<1>3. ExchangeIInv => ExchangeInv
  <2> SUFFICES ASSUME ExchangeIInv PROVE ExchangeInv
      OBVIOUS
  <2>1. ETypeOK /\ \A r \in Requests : Traced(call[r])
      BY DEF ExchangeIInv
  <2> QED BY <2>1 DEF ExchangeInv, Traced, WithdrawnKeyExpires, PublishedKeyIsFound
<1>4. ESpec => []ExchangeIInv
    BY <1>1, <1>2, PTL DEF ESpec
<1> QED BY <1>3, <1>4, PTL

(***************************************************************************)
(* The life of a credential.                                               *)
(***************************************************************************)
CredentialType == [signer : Nat, secret : Nat, left : Int]
Unexpiring(c) == IF c.signer = 0 THEN FallbackTtl ELSE OrgTtl

AgentType ==
    [stage : {"nap", "asking", "minted"}, left : Nat, got : CredentialType, late : BOOLEAN]

ClientTypes ==
    /\ cred \in CredentialType
    /\ agent \in AgentType

GatewayType ==
    [up : BOOLEAN, keys : SUBSET Nat, disk : SUBSET Nat, secret : Nat, behind : BOOLEAN]
RefresherType == [stage : {"nap", "got"}, left : Nat, keys : SUBSET Nat]

GatewayTypes ==
    /\ orgKey \in Nat \ {0} /\ served \in BOOLEAN
    /\ gateway \in GatewayType /\ refresher \in RefresherType

(* What is left of a lifetime covers what is left of a nap and one more     *)
(* exchange, as long as exchanges succeed; a minted credential is no older *)
(* than its exchange.                                                      *)
TimesLeft ==
    /\ agent.stage # "nap" => agent.left <= ExchangeMax
    /\ agent.stage = "minted" =>
        agent.got.left >= (Unexpiring(agent.got) - ExchangeMax) + agent.left
    /\ ~agent.late => cred.left >= agent.left
    /\ ~agent.late /\ agent.stage = "nap" => cred.left >= agent.left + ExchangeMax

(* A live credential is signed by a served key, and a gateway that is not  *)
(* behind has the served keys, in hand or already in its verifier.         *)
Signed(c) == Unexpired(c) => c.signer \in {0} \cup ServedKeys

KeysKnown ==
    /\ Signed(cred) /\ Signed(agent.got)
    /\ ~gateway.up => refresher.stage = "nap"
    /\ ~gateway.behind =>
        /\ gateway.disk = ServedKeys
        /\ gateway.up /\ refresher.stage = "nap" => gateway.keys = ServedKeys
        /\ refresher.stage = "got" => refresher.keys = ServedKeys

CredentialIInv == ClientTypes /\ GatewayTypes /\ TimesLeft /\ KeysKnown

(* refresh_lead_time: two exchanges fit between the end of a nap and the   *)
(* expiry.                                                                 *)
LEMMA NapIs ==
    /\ Nap(RefreshRetry) \in Nat
    /\ \A ttl \in {OrgTtl, FallbackTtl} :
        ttl \in Nat /\ Nap(ttl) \in Nat /\ ttl - ExchangeMax >= Nap(ttl) + ExchangeMax
<1>1. ASSUME NEW ttl \in Nat
      PROVE  LeadTime(ttl) \in Nat /\ LeadTime(ttl) <= ttl \div 2 /\ ttl \div 2 <= ttl
    BY CredentialAssumption DEF LeadTime, LeastOf, MostOf
<1>2. ASSUME NEW ttl \in Nat PROVE Nap(ttl) \in Nat /\ Nap(ttl) = ttl - LeadTime(ttl)
  <2>1. LeadTime(ttl) \in Nat /\ LeadTime(ttl) <= ttl
    <3>1. ttl \div 2 \in Int
        BY <1>2
    <3> QED BY <1>1, <1>2, <3>1
  <2> HIDE DEF LeadTime
  <2> QED BY <1>2, <2>1 DEF Nap, MostOf
<1>3. ASSUME NEW ttl \in Nat, LeadTime(ttl) >= 2 * ExchangeMax
      PROVE  ttl - ExchangeMax >= Nap(ttl) + ExchangeMax
    BY <1>1, <1>2, <1>3, CredentialAssumption
<1> QED BY <1>2, <1>3, CredentialAssumption

(* A credential's remaining life runs down by one and stays expired once   *)
(* it is.                                                                  *)
LEMMA LowerIs ==
    ASSUME NEW l \in Int
    PROVE  /\ Lower(l) \in Int /\ Lower(l) >= l - 1
           /\ l < 0 - Leeway => Lower(l) < 0 - Leeway
BY CredentialAssumption DEF Lower, MostOf

(* What the minters sign is new and signed by a key they have.             *)
LEMMA FreshIs ==
    ASSUME GatewayTypes
    PROVE  /\ OfOrg(orgKey) \in CredentialType /\ OfOrg(orgKey).left = Unexpiring(OfOrg(orgKey))
           /\ Signed(OfOrg(orgKey))
           /\ OfGateway(gateway.secret) \in CredentialType /\ Signed(OfGateway(gateway.secret))
           /\ OfGateway(gateway.secret).left = Unexpiring(OfGateway(gateway.secret))
           /\ ServedKeys \in SUBSET Nat
BY CredentialAssumption DEF GatewayTypes, GatewayType, OfOrg, OfGateway, CredentialType, Unexpiring, Signed, ServedKeys

(* The client's steps: the gateway stays as it is.                         *)
LEMMA ClientKeeps ==
    ASSUME CredentialIInv, ClientTypes', TimesLeft', Signed(cred)', Signed(agent.got)',
           UNCHANGED <<orgKey, served, gateway, refresher>>
    PROVE  CredentialIInv'
BY Zenon DEF CredentialIInv, GatewayTypes, KeysKnown, ServedKeys

(* The refresh loop's wake-up, answer, installation and failure.           *)
LEMMA ClientStep ==
    ASSUME CredentialIInv, Client
    PROVE  CredentialIInv'
<1>0. /\ ClientTypes /\ GatewayTypes /\ TimesLeft /\ KeysKnown
      /\ cred \in CredentialType /\ agent \in AgentType /\ cred.left \in Int /\ ExchangeMax \in Nat
    BY CredentialAssumption DEF CredentialIInv, ClientTypes, CredentialType
<1>1. CASE Wake
  <2> DEFINE n == [agent EXCEPT !.stage = "asking", !.left = ExchangeMax]
  <2>1. agent' = n /\ agent.stage = "nap" /\ agent.left = 0
        /\ UNCHANGED <<orgKey, served, gateway, refresher, cred>>
      BY <1>1 DEF Wake
  <2>2. n \in AgentType
      BY <1>0 DEF AgentType
  <2>3. n.stage = "asking" /\ n.left = ExchangeMax /\ n.got = agent.got /\ n.late = agent.late
      BY <1>0 DEF AgentType
  <2> HIDE DEF n
  <2>4. TimesLeft'
      BY <1>0, <2>1, <2>3 DEF TimesLeft
  <2>5. Signed(cred)' /\ Signed(agent.got)'
      BY <1>0, <2>1, <2>3 DEF KeysKnown, Signed, ServedKeys, Unexpired
  <2> QED BY <1>0, <2>1, <2>2, <2>4, <2>5, ClientKeeps DEF ClientTypes
<1>2. CASE Answered
  <2>1. PICK g \in CredentialType :
            /\ agent' = [agent EXCEPT !.stage = "minted", !.got = g] /\ agent.stage = "asking"
            /\ Signed(g) /\ g.left = Unexpiring(g)
            /\ UNCHANGED <<orgKey, served, gateway, refresher, cred>>
      BY <1>0, <1>2, FreshIs DEF Answered
  <2> DEFINE n == [agent EXCEPT !.stage = "minted", !.got = g]
  <2>2. n \in AgentType /\ agent.left \in Nat
      BY <1>0 DEF AgentType
  <2>3. n.stage = "minted" /\ n.left = agent.left /\ n.got = g /\ n.late = agent.late
      BY <1>0 DEF AgentType
  <2>4. agent' = n
      BY <2>1
  <2> HIDE DEF n
  <2>5. TimesLeft'
    <3>1. Unexpiring(agent.got)' = Unexpiring(g) /\ Unexpiring(g) \in Nat
        BY <2>3, <2>4, CredentialAssumption DEF Unexpiring
    <3> QED BY <1>0, <2>1, <2>2, <2>3, <2>4, <3>1 DEF TimesLeft
  <2>6. Signed(cred)' /\ Signed(agent.got)'
      BY <1>0, <2>1, <2>3, <2>4 DEF KeysKnown, Signed, ServedKeys, Unexpired
  <2> QED BY <1>0, <2>1, <2>2, <2>4, <2>5, <2>6, ClientKeeps DEF ClientTypes
<1>3. CASE Install
  <2> DEFINE l == Nap(IF agent.got.signer = 0 THEN FallbackTtl ELSE OrgTtl)
             n == [agent EXCEPT !.stage = "nap", !.late = FALSE, !.left = l]
  <2>1. /\ agent' = n /\ agent.stage = "minted" /\ cred' = agent.got
        /\ UNCHANGED <<orgKey, served, gateway, refresher>>
      BY <1>3 DEF Install
  <2>2. l \in Nat /\ Unexpiring(agent.got) - ExchangeMax >= l + ExchangeMax
        /\ Unexpiring(agent.got) \in Nat
      BY NapIs DEF Unexpiring
  <2> HIDE DEF l
  <2>3. n \in AgentType
      BY <1>0, <2>2 DEF AgentType
  <2>4. n.stage = "nap" /\ n.left = l /\ n.got = agent.got
      BY <1>0 DEF AgentType
  <2>5. agent.left \in Nat /\ agent.got \in CredentialType /\ agent.got.left \in Int
      BY <1>0 DEF AgentType, CredentialType
  <2> HIDE DEF n
  <2>6. agent.got.left >= l + ExchangeMax
      BY <1>0, <2>1, <2>2, <2>5 DEF TimesLeft
  <2>7. TimesLeft'
      BY <1>0, <2>1, <2>2, <2>4, <2>5, <2>6 DEF TimesLeft
  <2>8. Signed(cred)' /\ Signed(agent.got)'
      BY <1>0, <2>1, <2>4 DEF KeysKnown, Signed, ServedKeys, Unexpired
  <2> QED BY <1>0, <2>1, <2>3, <2>5, <2>7, <2>8, ClientKeeps DEF ClientTypes
<1>4. CASE ExchangeFails
  <2> DEFINE n == [agent EXCEPT !.stage = "nap", !.left = Nap(RefreshRetry), !.late = TRUE,
                                !.got = cred]
  <2>1. agent' = n /\ UNCHANGED <<orgKey, served, gateway, refresher, cred>>
      BY <1>4 DEF ExchangeFails
  <2>2. n \in AgentType
      BY <1>0, NapIs DEF AgentType
  <2>3. n.stage = "nap" /\ n.late = TRUE /\ n.got = cred
      BY <1>0 DEF AgentType
  <2> HIDE DEF n
  <2>4. TimesLeft'
      BY <2>1, <2>3 DEF TimesLeft
  <2>5. Signed(cred)' /\ Signed(agent.got)'
      BY <1>0, <2>1, <2>3 DEF KeysKnown, Signed, ServedKeys, Unexpired
  <2> QED BY <1>0, <2>1, <2>2, <2>4, <2>5, ClientKeeps DEF ClientTypes
<1> QED BY <1>1, <1>2, <1>3, <1>4 DEF Client

(* Time passes for the credential and for the loop's nap together.         *)
LEMMA TimeStep ==
    ASSUME CredentialIInv, TimePasses
    PROVE  CredentialIInv'
<1>0. /\ ClientTypes /\ GatewayTypes /\ TimesLeft /\ KeysKnown
      /\ cred \in CredentialType /\ agent \in AgentType /\ cred.left \in Int
      /\ agent.left \in Nat /\ agent.left > 0 /\ agent.got \in CredentialType /\ agent.got.left \in Int
      /\ refresher \in RefresherType /\ refresher.left \in Nat /\ ExchangeMax \in Nat
    BY CredentialAssumption DEF CredentialIInv, ClientTypes, GatewayTypes, CredentialType, AgentType,
       RefresherType, TimePasses
<1> DEFINE c == [cred EXCEPT !.left = Lower(cred.left)]
           d == [agent.got EXCEPT !.left = Lower(agent.got.left)]
           g == IF agent.stage = "minted" THEN d ELSE c
           n == [agent EXCEPT !.left = agent.left - 1, !.got = g]
           l == IF gateway.up THEN refresher.left - 1 ELSE refresher.left
           q == [refresher EXCEPT !.left = l]
<1>1. /\ cred' = c /\ agent' = n /\ refresher' = q
      /\ UNCHANGED <<orgKey, served, gateway>>
    BY <1>0 DEF TimePasses, CredentialType
<1>2. /\ c \in CredentialType /\ c.signer = cred.signer /\ c.left = Lower(cred.left)
      /\ c.left \in Int /\ c.left >= cred.left - 1
    BY <1>0, LowerIs DEF CredentialType
<1>3. /\ d \in CredentialType /\ d.signer = agent.got.signer /\ d.left = Lower(agent.got.left)
      /\ d.left \in Int /\ d.left >= agent.got.left - 1
    BY <1>0, LowerIs DEF CredentialType
<1>4. Signed(c) /\ Signed(d)
  <2>1. Unexpired(c) => Unexpired(cred)
      BY <1>0, <1>2, LowerIs, CredentialAssumption DEF Unexpired
  <2>2. Unexpired(d) => Unexpired(agent.got)
      BY <1>0, <1>3, LowerIs, CredentialAssumption DEF Unexpired
  <2> QED BY <1>0, <1>2, <1>3, <2>1, <2>2 DEF KeysKnown, Signed
<1> HIDE DEF c, d
<1>5. g \in CredentialType /\ Signed(g) /\ (agent.stage = "minted" => g = d)
    BY <1>2, <1>3, <1>4
<1>6. agent.left - 1 \in Nat
    BY <1>0
<1> HIDE DEF g
<1>7. n \in AgentType
    BY <1>0, <1>5, <1>6 DEF AgentType
<1>8. n.stage = agent.stage /\ n.left = agent.left - 1 /\ n.got = g /\ n.late = agent.late
    BY <1>0 DEF AgentType
<1> HIDE DEF n
<1>9. l \in Nat
  <2>1. gateway.up => refresher.left > 0
      BY DEF TimePasses
  <2> QED BY <1>0, <2>1
<1> HIDE DEF l
<1>10. q \in RefresherType
    BY <1>0, <1>9 DEF RefresherType
<1>11. q.stage = refresher.stage /\ q.keys = refresher.keys
    BY <1>0 DEF RefresherType
<1> HIDE DEF q
<1>12. TimesLeft'
  <2>1. agent.stage = "minted" =>
            g.left >= (Unexpiring(g) - ExchangeMax) + (agent.left - 1)
    <3>1. agent.stage = "minted" => g = d /\ Unexpiring(g) = Unexpiring(agent.got)
        BY <1>3, <1>5 DEF Unexpiring
    <3>2. Unexpiring(agent.got) \in Nat
        BY CredentialAssumption DEF Unexpiring
    <3> QED BY <1>0, <1>3, <3>1, <3>2 DEF TimesLeft
  <2>2. ~agent.late => c.left >= agent.left - 1
      BY <1>0, <1>2 DEF TimesLeft
  <2>3. ~agent.late /\ agent.stage = "nap" => c.left >= (agent.left - 1) + ExchangeMax
      BY <1>0, <1>2 DEF TimesLeft
  <2>4. agent.stage # "nap" => agent.left - 1 <= ExchangeMax
      BY <1>0 DEF TimesLeft
  <2>5. Unexpiring(agent.got)' = Unexpiring(g)
      BY <1>1, <1>8 DEF Unexpiring
  <2> QED BY <1>1, <1>8, <2>1, <2>2, <2>3, <2>4, <2>5 DEF TimesLeft
<1>13. KeysKnown'
    BY <1>0, <1>1, <1>4, <1>5, <1>8, <1>11 DEF KeysKnown, Signed, ServedKeys, Unexpired
<1> QED BY <1>0, <1>1, <1>2, <1>7, <1>10, <1>12, <1>13 DEF CredentialIInv, ClientTypes, GatewayTypes

(* The steps of the gateway and the control plane: the client stays.       *)
LEMMA GatewayKeeps ==
    ASSUME CredentialIInv, GatewayTypes', KeysKnown', UNCHANGED <<cred, agent>>
    PROVE  CredentialIInv'
BY Zenon DEF CredentialIInv, ClientTypes, TimesLeft, Unexpiring

(* Rotations, the gateway's key refresh, outages and restarts.             *)
LEMMA GatewayStep ==
    ASSUME CredentialIInv, KeyRefresh \/ Rotate \/ Outage \/ Recover \/ Stop \/ Start
    PROVE  CredentialIInv'
<1>0. /\ GatewayTypes /\ KeysKnown /\ ServedKeys \in SUBSET Nat
      /\ gateway \in GatewayType /\ refresher \in RefresherType /\ KeyInterval \in Nat
      /\ ExchangeMax \in Nat /\ orgKey \in Nat \ {0} /\ served \in BOOLEAN
    BY FreshIs, CredentialAssumption DEF CredentialIInv, GatewayTypes
<1> DEFINE rest == [stage |-> "nap", left |-> KeyInterval, keys |-> {}]
<1>1. rest \in RefresherType /\ rest.stage = "nap"
    BY <1>0 DEF RefresherType
<1> HIDE DEF rest
<1>2. CASE FetchKeys /\ reachable
  <2> DEFINE n == [gateway EXCEPT !.disk = ServedKeys, !.behind = FALSE]
             q == [stage |-> "got", left |-> ExchangeMax, keys |-> ServedKeys]
  <2>1. /\ gateway' = n /\ refresher' = q /\ gateway.up
        /\ UNCHANGED <<orgKey, served, cred, agent>>
      BY <1>0, <1>2 DEF FetchKeys, GatewayType
  <2>2. n \in GatewayType /\ n.disk = ServedKeys /\ n.up = gateway.up
      BY <1>0 DEF GatewayType
  <2>3. q \in RefresherType /\ q.stage = "got" /\ q.keys = ServedKeys
      BY <1>0 DEF RefresherType
  <2> HIDE DEF n, q
  <2>4. KeysKnown'
      BY <1>0, <2>1, <2>2, <2>3 DEF KeysKnown, Signed, ServedKeys, Unexpired
  <2> QED BY <1>0, <2>1, <2>2, <2>3, <2>4, GatewayKeeps DEF GatewayTypes
<1>3. CASE FetchKeys /\ ~reachable
  <2> DEFINE q == [refresher EXCEPT !.left = KeyInterval]
  <2>1. gateway' = gateway /\ refresher' = q /\ UNCHANGED <<orgKey, served, cred, agent>>
      BY <1>0, <1>3 DEF FetchKeys, GatewayType
  <2>2. q \in RefresherType /\ q.stage = refresher.stage /\ q.keys = refresher.keys
      BY <1>0 DEF RefresherType
  <2> HIDE DEF q
  <2>3. KeysKnown'
      BY <1>0, <2>1, <2>2 DEF KeysKnown, Signed, ServedKeys, Unexpired
  <2> QED BY <1>0, <2>1, <2>2, <2>3, GatewayKeeps DEF GatewayTypes
<1>4. CASE SwapKeys
  <2> DEFINE n == [gateway EXCEPT !.keys = refresher.keys]
  <2>1. /\ gateway' = n /\ refresher' = rest /\ refresher.stage = "got"
        /\ UNCHANGED <<orgKey, served, cred, agent>>
      BY <1>4 DEF SwapKeys, rest
  <2>2. n \in GatewayType
      BY <1>0 DEF GatewayType, RefresherType
  <2>3. n.keys = refresher.keys /\ n.disk = gateway.disk /\ n.behind = gateway.behind
      BY <1>0 DEF GatewayType
  <2> HIDE DEF n
  <2>4. KeysKnown'
      BY <1>0, <1>1, <2>1, <2>3 DEF KeysKnown, Signed, ServedKeys, Unexpired
  <2> QED BY <1>0, <1>1, <2>1, <2>2, <2>4, GatewayKeeps DEF GatewayTypes
<1>5. CASE SwapFails
  <2> DEFINE n == [gateway EXCEPT !.behind = TRUE]
  <2>1. gateway' = n /\ refresher' = rest /\ UNCHANGED <<orgKey, served, cred, agent>>
      BY <1>5 DEF SwapFails, rest
  <2>2. n \in GatewayType /\ n.behind
      BY <1>0 DEF GatewayType
  <2> HIDE DEF n
  <2>3. KeysKnown'
      BY <1>0, <1>1, <2>1, <2>2 DEF KeysKnown, Signed, ServedKeys, Unexpired
  <2> QED BY <1>0, <1>1, <2>1, <2>2, <2>3, GatewayKeeps DEF GatewayTypes
<1>6. CASE Rotate
  <2> DEFINE n == [gateway EXCEPT !.behind = TRUE]
  <2>1. /\ gateway' = n /\ orgKey' = orgKey + 1 /\ served' = TRUE
        /\ UNCHANGED <<refresher, cred, agent>>
        /\ \A c \in {cred, agent.got} : c.signer \in {0, orgKey} \/ ~Unexpired(c)
      BY <1>6 DEF Rotate
  <2>2. n \in GatewayType /\ n.behind /\ n.up = gateway.up
      BY <1>0 DEF GatewayType
  <2> HIDE DEF n
  <2>3. orgKey \in ServedKeys' /\ orgKey' \in Nat \ {0}
      BY <1>0, <2>1 DEF ServedKeys
  <2>4. KeysKnown'
      BY <1>0, <2>1, <2>2, <2>3 DEF KeysKnown, Signed, Unexpired
  <2> QED BY <1>0, <2>1, <2>2, <2>3, <2>4, GatewayKeeps DEF GatewayTypes
<1>7. CASE Outage \/ Recover
  <2>1. UNCHANGED <<orgKey, served, gateway, refresher, cred, agent>>
      BY <1>7 DEF Outage, Recover
  <2> QED BY <1>0, <2>1, GatewayKeeps DEF GatewayTypes, KeysKnown, Signed, ServedKeys, Unexpired
<1>8. CASE Stop
  <2> DEFINE n == [gateway EXCEPT !.up = FALSE, !.keys = {}]
  <2>1. gateway' = n /\ refresher' = rest /\ UNCHANGED <<orgKey, served, cred, agent>>
      BY <1>8 DEF Stop, rest
  <2>2. n \in GatewayType
      BY <1>0 DEF GatewayType
  <2>3. ~n.up /\ n.disk = gateway.disk /\ n.behind = gateway.behind
      BY <1>0 DEF GatewayType
  <2> HIDE DEF n
  <2>4. KeysKnown'
      BY <1>0, <1>1, <2>1, <2>3 DEF KeysKnown, Signed, ServedKeys, Unexpired
  <2> QED BY <1>0, <1>1, <2>1, <2>2, <2>4, GatewayKeeps DEF GatewayTypes
<1>9. CASE Start
  <2> DEFINE k == IF reachable THEN ServedKeys ELSE gateway.disk
             b == gateway.behind /\ ~reachable
             t == IF conf.secret THEN 1 ELSE gateway.secret + 1
             n == [up |-> TRUE, keys |-> k, disk |-> k, secret |-> t, behind |-> b]
  <2>1. gateway' = n /\ ~gateway.up /\ UNCHANGED <<orgKey, served, refresher, cred, agent>>
      BY <1>9 DEF Start
  <2>2. /\ k \in SUBSET Nat /\ t \in Nat /\ b \in BOOLEAN /\ (~b => k = ServedKeys)
      BY <1>0 DEF GatewayType, KeysKnown
  <2> HIDE DEF k, b, t
  <2>3. n \in GatewayType
      BY <2>2 DEF GatewayType
  <2>4. n.up /\ n.keys = k /\ n.disk = k /\ n.behind = b
      OBVIOUS
  <2> HIDE DEF n
  <2>6. KeysKnown'
      BY <1>0, <2>1, <2>2, <2>4 DEF KeysKnown, Signed, ServedKeys, Unexpired
  <2> QED BY <1>0, <2>1, <2>3, <2>6, GatewayKeeps DEF GatewayTypes
<1> QED BY <1>2, <1>3, <1>4, <1>5, <1>6, <1>7, <1>8, <1>9 DEF KeyRefresh

(* However exchanges take and fail, keys rotate, and the gateway and the   *)
(* control plane go down: a client whose exchanges succeed never sends an  *)
(* expired credential, and a gateway that has fetched the keys since the   *)
(* last rotation accepts what either key signed (refresh_lead_time,        *)
(* run_signing_key_refresh).  It rests on CredentialAssumption: two        *)
(* exchanges fit into the lead time.                                       *)
THEOREM CredentialsLast == CSpec => []CredentialInv
<1>1. ASSUME CInit PROVE CredentialIInv
  <2>1. /\ OfOrg(1) \in CredentialType /\ OfOrg(1).signer = 1 /\ OfOrg(1).left = OrgTtl
      BY CredentialAssumption DEF OfOrg, CredentialType
  <2>2. /\ agent = [stage |-> "nap", left |-> Nap(OrgTtl), got |-> OfOrg(1), late |-> FALSE]
        /\ cred = OfOrg(1)
      BY <1>1 DEF CInit
  <2> HIDE DEF OfOrg
  <2>3. agent \in AgentType /\ agent.stage = "nap" /\ agent.left = Nap(OrgTtl) /\ agent.got = OfOrg(1)
      BY <2>1, <2>2, NapIs DEF AgentType
  <2>4. TimesLeft
      BY <2>1, <2>2, <2>3, NapIs, CredentialAssumption DEF TimesLeft
  <2>5. GatewayTypes
    <3>1. gateway \in GatewayType
        BY <1>1 DEF CInit, GatewayType
    <3>2. refresher \in RefresherType
        BY <1>1, CredentialAssumption DEF CInit, RefresherType
    <3>3. orgKey = 1 /\ served \in BOOLEAN
        BY <1>1, Zenon DEF CInit
    <3> QED BY <3>1, <3>2, <3>3 DEF GatewayTypes
  <2>6. /\ gateway.keys = {1} /\ gateway.disk = {1} /\ refresher.stage = "nap" /\ ServedKeys = {1}
      BY <1>1 DEF CInit, ServedKeys
  <2>7. KeysKnown
      BY <2>1, <2>2, <2>3, <2>6 DEF KeysKnown, Signed
  <2> QED BY <2>1, <2>2, <2>3, <2>4, <2>5, <2>7 DEF CredentialIInv, ClientTypes
<1>2. ASSUME CredentialIInv, [CNext]_cvars PROVE CredentialIInv'
  <2>1. CASE UNCHANGED cvars
      BY <1>2, <2>1, Zenon DEF cvars, CredentialIInv, ClientTypes, GatewayTypes, TimesLeft, KeysKnown,
         Unexpiring, Signed, ServedKeys, Unexpired
  <2> QED BY <1>2, <2>1, ClientStep, GatewayStep, TimeStep, Zenon DEF CNext
<1>3. CredentialIInv => CredentialInv
  <2> SUFFICES ASSUME CredentialIInv PROVE CredentialInv
      OBVIOUS
  <2>1. NeverLapses
    <3>1. agent.left \in Nat /\ cred.left \in Int
        BY DEF CredentialIInv, ClientTypes, AgentType, CredentialType
    <3> QED BY <3>1 DEF NeverLapses, CredentialIInv, TimesLeft
  <2>2. RotationIsSmooth
      BY DEF RotationIsSmooth, Accepts, CredentialIInv, KeysKnown, Signed
  <2> QED BY <2>1, <2>2 DEF CredentialInv
<1>4. CSpec => []CredentialIInv
    BY <1>1, <1>2, PTL DEF CSpec
<1> QED BY <1>3, <1>4, PTL

(***************************************************************************)
(* A TCP flow of the native TUN.                                           *)
(***************************************************************************)
SockStates ==
    {"Listen", "SynReceived", "Established", "FinWait1", "FinWait2", "Closing", "TimeWait",
     "CloseWait", "LastAck", "Closed"}

AppType == [sent : Nat, fin : BOOLEAN, got : Nat, gotFin : BOOLEAN, reset : BOOLEAN]
SockType == [state : SockStates, rx : 0..RecvBuffer, tx : 0..SendBuffer]
CtlType == [recvState : {"Normal", "Close", "Closed"},
            sendState : {"Normal", "Close", "Closing", "Closed"},
            recv : 0..RecvBuffer, send : 0..SendBuffer, recvWaker : BOOLEAN, sendWaker : BOOLEAN]

StreamTypes ==
    /\ app \in AppType /\ sock \in SockType /\ ctl \in CtlType
    /\ taken \in Nat /\ given \in Nat /\ notified \in BOOLEAN
    /\ dropped \in BOOLEAN /\ removed \in BOOLEAN

\* What the state of a socket that is in the set says of the rest.
SockInv ==
    ~removed =>
        /\ sock.state \in {"Listen", "SynReceived"} => sock.rx = 0
        /\ sock.state \in {"Listen", "SynReceived", "FinWait2", "TimeWait", "Closed"} => sock.tx = 0
        /\ sock.state \in {"CloseWait", "LastAck", "Closing", "TimeWait"} => app.fin
        /\ sock.state \in {"FinWait1", "FinWait2", "Closing", "LastAck", "TimeWait"}
             => ctl.send = 0 /\ ctl.sendState = "Closing"
        /\ ctl.recvState = "Closed" => sock.rx = 0 /\ (sock.state = "Closed" \/ app.fin)
        /\ app.gotFin => sock.state \in {"FinWait2", "TimeWait", "Closed"}

\* What is final.
EndInv ==
    /\ app.gotFin => ctl.sendState \in {"Closing", "Closed"}
    /\ reader = "eof" => ctl.recvState = "Closed" /\ ctl.recv = 0
    /\ ~dropped => ctl.recvState # "Close"
    /\ removed => /\ ctl.recvState = "Closed" /\ ctl.sendState = "Closed"
                  /\ sock.state = "Closed"

StreamIInv ==
    /\ StreamTypes /\ SockInv /\ EndInv
    /\ UnitsKept /\ EofExact /\ FinBehindData
    /\ NoLostWake /\ NoSleepOnWork

\* The inductive invariant gives StreamInv.
LEMMA StreamIInvGives == StreamIInv => StreamInv
BY DEF StreamIInv, StreamTypes, SockType, CtlType, StreamInv, STypeOK

\* A flow starts listening, with nothing sent.
LEMMA StreamStarts == SInit => StreamIInv
<1> SUFFICES ASSUME SInit PROVE StreamIInv
  OBVIOUS
<1>1. StreamTypes
  <2>1. app \in AppType
    BY DEF SInit, AppType
  <2>2. sock \in SockType
    BY StreamAssumption DEF SInit, SockType, SockStates
  <2>3. ctl \in CtlType
    BY StreamAssumption DEF SInit, CtlType
  <2> QED
    BY <2>1, <2>2, <2>3 DEF SInit, StreamTypes
<1>2. SockInv /\ EndInv
  BY DEF SInit, SockInv, EndInv
<1>3. UnitsKept
  BY DEF SInit, UnitsKept
<1>4. EofExact /\ FinBehindData /\ NoLostWake /\ NoSleepOnWork
  BY DEF SInit, EofExact, FinBehindData, NoLostWake,
         NoSleepOnWork, MaySend
<1> QED
  BY <1>1, <1>2, <1>3, <1>4 DEF StreamIInv

\* A packet of the application notifies the loop and leaves its relay alone.
LEMMA PacketKeepsInv ==
    ASSUME StreamIInv,
           Packet(Answering \/ AppSends \/ AppCloses \/ AppResets)
    PROVE  StreamIInv'
<1>1. /\ ~removed /\ sock.state # "Closed" /\ notified' = TRUE
      /\ UNCHANGED <<ctl, loop, reader, writer, taken, given, dropped, removed>>
      /\ Answering \/ AppSends \/ AppCloses \/ AppResets
  BY DEF Packet
<1>2. NoLostWake' /\ NoSleepOnWork'
  BY <1>1 DEF StreamIInv, NoLostWake, NoSleepOnWork
<1> USE DEF StreamIInv, StreamTypes, AppType, SockType, CtlType, SockStates
<1>3. StreamTypes'
  <2>1. CASE Handshake \/ Expires
    <3>1. app' \in AppType
      BY <2>1 DEF Handshake, Expires
    <3>2. sock' \in SockType
      BY <2>1, StreamAssumption DEF Handshake, Expires, Wire
    <3> QED
      BY <1>1, <3>1, <3>2
  <2>2. CASE AppReceives \/ AppSends
    <3>1. app' \in AppType
      BY <2>2 DEF AppReceives, AppSends
    <3>2. sock' \in SockType
      BY <2>2, StreamAssumption DEF AppReceives, AppSends, Wire
    <3> QED
      BY <1>1, <3>1, <3>2
  <2>3. CASE FinAcked \/ AppCloses \/ AppResets
    <3>1. app' \in AppType
      BY <2>3 DEF FinAcked, AppCloses, AppResets
    <3>2. sock' \in SockType
      BY <2>3, StreamAssumption DEF FinAcked, AppCloses, AppResets, Wire
    <3> QED
      BY <1>1, <3>1, <3>2
  <2> QED
    BY <1>1, <2>1, <2>2, <2>3 DEF Answering
<1>4. SockInv' /\ EndInv'
  <2>1. CASE Answering
    BY <1>1, <2>1 DEF Answering, Handshake, AppReceives, FinAcked,
       Expires, Wire, SockInv, EndInv
  <2>2. CASE AppSends
    BY <1>1, <2>2 DEF AppSends, Wire, SockInv, EndInv
  <2>3. CASE AppCloses \/ AppResets
    BY <1>1, <2>3 DEF AppCloses, AppResets, Wire, SockInv, EndInv
  <2> QED
    BY <1>1, <2>1, <2>2, <2>3
<1>5. UnitsKept' /\ EofExact' /\ FinBehindData'
  <2>1. CASE Answering
    BY <1>1, <2>1 DEF Answering, Handshake, AppReceives, FinAcked,
       Expires, Wire, SockInv, EndInv, UnitsKept, EofExact,
       FinBehindData
  <2>2. CASE AppSends
    BY <1>1, <2>2 DEF AppSends, Wire, SockInv, EndInv, UnitsKept,
       EofExact, FinBehindData
  <2>3. CASE AppCloses \/ AppResets
    BY <1>1, <2>3 DEF AppCloses, AppResets, Wire, SockInv, EndInv,
       UnitsKept, EofExact, FinBehindData
  <2> QED
    BY <1>1, <2>1, <2>2, <2>3
<1> HIDE DEF StreamTypes
<1> QED
  BY <1>2, <1>3, <1>4, <1>5

\* A visit that removes the socket.
LEMMA RemoveKeepsInv ==
    ASSUME StreamIInv, Visit, ~removed, ctl.recvState = "Close" \/ sock.state = "Closed"
    PROVE  StreamIInv'
<1>1. /\ removed' = TRUE /\ loop' = "park"
      /\ sock' = [sock EXCEPT !.state = "Closed"]
      /\ ctl' = [ctl EXCEPT !.recvState = "Closed", !.sendState = "Closed",
                            !.recvWaker = FALSE, !.sendWaker = FALSE]
      /\ WakeReader /\ WakeWriter
      /\ UNCHANGED <<app, notified, taken, given, dropped>>
  BY DEF Visit, RemoveSocket
<1> USE DEF StreamIInv
<1>2. StreamTypes'
  <2>1. sock' \in SockType /\ ctl' \in CtlType
    BY <1>1 DEF StreamTypes, SockType, CtlType, SockStates
  <2> QED
    BY <1>1, <2>1 DEF StreamTypes
<1>3. SockInv' /\ EndInv' /\ NoSleepOnWork'
  BY <1>1 DEF StreamTypes, SockType, CtlType, SockInv, EndInv, NoSleepOnWork, WakeReader
<1>4. UnitsKept' /\ EofExact' /\ FinBehindData'
  BY <1>1 DEF StreamTypes, SockType, CtlType, UnitsKept, EofExact,
     FinBehindData, WakeReader
<1>5. NoLostWake'
  BY <1>1 DEF NoLostWake, WakeReader, WakeWriter
<1> QED
  BY <1>2, <1>3, <1>4, <1>5

\* What a visit that serves the socket moves: all that is there, as far as there is room.
LEMMA LeastIs ==
    ASSUME NEW m \in Nat, NEW n \in Nat
    PROVE  /\ Least(m, n) \in Nat /\ Least(m, n) <= m /\ Least(m, n) <= n
           /\ Least(m, n) = m \/ Least(m, n) = n
BY DEF Least

\* A visit that serves the socket keeps every unit and wakes who waits for it.
LEMMA ServeKeepsInv ==
    ASSUME StreamIInv, Visit, ~removed, ctl.recvState # "Close", sock.state # "Closed"
    PROVE  StreamIInv'
<1> DEFINE state == IF Closing THEN CloseSocket(sock.state) ELSE sock.state
           take == Least(sock.rx, RecvBuffer - ctl.recv)
           put == IF MaySend(state) THEN Least(ctl.send, SendBuffer - sock.tx) ELSE 0
           ends == ReadHalfEnds(state, sock.rx - take)
           wakes == WakesSender(put)
           recvWaker == ctl.recvWaker /\ ~ends /\ take = 0
           sendWaker == ctl.sendWaker /\ ~wakes
<1>1. /\ sock' = [state |-> state, rx |-> sock.rx - take, tx |-> sock.tx + put]
      /\ ctl' = [recvState |-> IF ends THEN "Closed" ELSE ctl.recvState,
                 sendState |-> IF Closing THEN "Closing" ELSE ctl.sendState,
                 recv |-> ctl.recv + take, send |-> ctl.send - put,
                 recvWaker |-> recvWaker, sendWaker |-> sendWaker]
      /\ IF ends \/ take > 0 THEN WakeReader ELSE UNCHANGED reader
      /\ IF wakes THEN WakeWriter ELSE UNCHANGED writer
      /\ loop' = "park"
      /\ UNCHANGED <<app, notified, taken, given, dropped, removed>>
  BY DEF Visit, ServeSocket, Wire
<1>2. /\ sock.rx \in 0..RecvBuffer /\ ctl.recv \in 0..RecvBuffer /\ sock.state \in SockStates
      /\ sock.tx \in 0..SendBuffer /\ ctl.send \in 0..SendBuffer
      /\ sock.rx \in Nat /\ ctl.send \in Nat
      /\ RecvBuffer - ctl.recv \in Nat /\ SendBuffer - sock.tx \in Nat
  BY StreamAssumption DEF StreamIInv, StreamTypes, SockType, CtlType
<1>3. /\ take \in Nat /\ take <= sock.rx /\ take <= RecvBuffer - ctl.recv
      /\ take = sock.rx \/ take = RecvBuffer - ctl.recv
  BY <1>2, LeastIs
<1>4. /\ put \in Nat /\ put <= ctl.send /\ put <= SendBuffer - sock.tx
      /\ MaySend(state) => put = ctl.send \/ put = SendBuffer - sock.tx
      /\ ~MaySend(state) => put = 0
  <2>1. CASE MaySend(state)
    <3>1. put = Least(ctl.send, SendBuffer - sock.tx)
      BY <2>1
    <3> QED
      BY <1>2, <2>1, <3>1, LeastIs
  <2>2. CASE ~MaySend(state)
    BY <1>2, <2>2
  <2> QED
    BY <2>1, <2>2
<1>5. recvWaker \in BOOLEAN /\ sendWaker \in BOOLEAN
  OBVIOUS
<1>6. state \in SockStates
  BY <1>2 DEF CloseSocket, SockStates
<1> HIDE DEF take, put, recvWaker, sendWaker
<1>7. /\ sock'.state = state /\ sock'.rx = sock.rx - take /\ sock'.tx = sock.tx + put
      /\ ctl'.recvState = IF ends THEN "Closed" ELSE ctl.recvState
      /\ ctl'.sendState = IF Closing THEN "Closing" ELSE ctl.sendState
      /\ ctl'.recv = ctl.recv + take /\ ctl'.send = ctl.send - put
  BY <1>1
<1>8. ctl'.recvWaker = recvWaker /\ ctl'.sendWaker = sendWaker
  BY <1>1
<1>9. StreamTypes'
  <2>1. sock' \in SockType
    BY <1>1, <1>2, <1>3, <1>4, <1>6, StreamAssumption DEF SockType
  <2>2. /\ ctl'.recvState \in {"Normal", "Close", "Closed"}
        /\ ctl'.sendState \in {"Normal", "Close", "Closing", "Closed"}
    BY <1>7 DEF StreamIInv, StreamTypes, CtlType
  <2>3. ctl'.recv \in 0..RecvBuffer /\ ctl'.send \in 0..SendBuffer
    BY <1>7, <1>2, <1>3, <1>4, StreamAssumption
  <2>4. ctl' \in CtlType
    BY <1>1, <1>5, <2>2, <2>3 DEF CtlType
  <2> QED
    BY <1>1, <2>1, <2>4 DEF StreamIInv, StreamTypes
<1> HIDE DEF state
<1>10. /\ Closing => ctl.sendState = "Close" /\ ctl.send = 0 /\ state = CloseSocket(sock.state)
       /\ ~Closing => state = sock.state /\ ~(ctl.sendState = "Close" /\ ctl.send = 0)
  BY DEF state, Closing
<1>11. ends => /\ ctl.recvState = "Normal" /\ sock.rx - take = 0
               /\ state \in {"CloseWait", "LastAck", "Closing", "TimeWait", "Closed"}
  BY <1>2, <1>3, <1>6 DEF ReadHalfEnds, MayRecv, SockStates
<1> HIDE DEF ends, wakes
<1>12. SockInv'
  BY <1>1, <1>2, <1>3, <1>4, <1>6, <1>7, <1>10, <1>11
     DEF StreamIInv, SockInv, CloseSocket, MaySend, SockStates
<1>13. EndInv'
  BY <1>1, <1>2, <1>3, <1>7, <1>10, <1>11 DEF StreamIInv, EndInv, SockInv, WakeReader
<1>14. UnitsKept'
  BY <1>1, <1>2, <1>3, <1>4, <1>7 DEF StreamIInv, UnitsKept, StreamTypes, AppType
<1>15. EofExact'
  BY <1>1, <1>7, <1>10, <1>11 DEF StreamIInv, EofExact, WakeReader, CloseSocket
<1>16. FinBehindData'
  BY <1>1 DEF StreamIInv, FinBehindData
<1>17. NoLostWake'
  <2> SUFFICES ASSUME ~dropped PROVE NoLostWake'
    BY <1>1 DEF NoLostWake
  <2>1. ASSUME reader' = "wait"
        PROVE  ctl'.recvWaker /\ ctl'.recv = 0 /\ ctl'.recvState = "Normal"
    <3>1. reader = "wait" /\ ~ends /\ ~(take > 0) /\ ctl.recvWaker /\ ctl.recv = 0 /\ ctl.recvState = "Normal"
      BY <1>1, <2>1 DEF StreamIInv, NoLostWake, WakeReader
    <3>2. take = 0
      BY <1>3, <3>1
    <3>3. recvWaker
      BY <3>1, <3>2 DEF recvWaker
    <3> QED
      BY <1>2, <1>7, <1>8, <3>1, <3>2, <3>3
  <2>2. ASSUME writer' = "full"
        PROVE  ctl'.sendWaker /\ ctl'.send = SendBuffer /\ ctl'.sendState = "Normal"
    <3>1. writer = "full" /\ ~wakes /\ ctl.sendWaker /\ ctl.send = SendBuffer /\ ctl.sendState = "Normal"
      BY <1>1, <2>2 DEF StreamIInv, NoLostWake, WakeWriter
    <3>2. put = 0 /\ ~Closing
      BY <1>4, <3>1 DEF wakes, WakesSender
    <3>3. sendWaker
      BY <3>1 DEF sendWaker
    <3> QED
      BY <1>2, <1>7, <1>8, <3>1, <3>2, <3>3
  <2>3. ASSUME writer' = "shutting"
        PROVE  ctl'.sendWaker /\ ctl'.sendState = "Close"
    <3>1. writer = "shutting" /\ ~wakes /\ ctl.sendWaker /\ ctl.sendState = "Close"
      BY <1>1, <2>3 DEF StreamIInv, NoLostWake, WakeWriter
    <3>2. ~Closing
      BY <3>1 DEF wakes, WakesSender
    <3>3. sendWaker
      BY <3>1 DEF sendWaker
    <3> QED
      BY <1>7, <1>8, <3>1, <3>2, <3>3
  <2> QED
    BY <2>1, <2>2, <2>3 DEF NoLostWake
<1>18. NoSleepOnWork'
  <2>1. sock'.rx = 0 \/ ctl'.recv = RecvBuffer
    BY <1>2, <1>3, <1>7, StreamAssumption
  <2>2. MaySend(sock'.state) => ctl'.send = 0 \/ sock'.tx = SendBuffer
    BY <1>2, <1>4, <1>7, StreamAssumption
  <2>3. ctl'.recvState # "Close"
    BY <1>7
  <2>4. ASSUME ctl'.sendState = "Close" PROVE ctl'.send + sock'.tx > 0
    <3>1. ctl.sendState = "Close" /\ ctl.send # 0
      BY <1>7, <1>10, <2>4
    <3> QED
      BY <1>2, <1>4, <1>7, <3>1
  <2> QED
    BY <2>1, <2>2, <2>3, <2>4 DEF NoSleepOnWork, MaySend
<1> QED
  BY <1>9, <1>12, <1>13, <1>14, <1>15, <1>16, <1>17, <1>18 DEF StreamIInv

\* poll_read takes what is buffered, or leaves its waker.
LEMMA ReadKeepsInv == ASSUME StreamIInv, PollRead PROVE StreamIInv'
<1>1. /\ reader = "run" /\ ~dropped
      /\ UNCHANGED <<app, sock, loop, writer, given, dropped, removed>>
  BY DEF PollRead
<1>2. CASE ctl.recv > 0
  <2>1. PICK n \in 1..ctl.recv :
          /\ ctl' = [ctl EXCEPT !.recv = @ - n] /\ taken' = taken + n
          /\ notified' = TRUE /\ UNCHANGED reader
    BY <1>2 DEF PollRead
  <2>2. ctl.recv \in 0..RecvBuffer /\ n \in Nat /\ n <= ctl.recv /\ ctl \in CtlType
    BY StreamAssumption DEF StreamIInv, StreamTypes, CtlType
  <2>3. /\ ctl'.recv = ctl.recv - n /\ ctl'.send = ctl.send
        /\ ctl'.recvState = ctl.recvState /\ ctl'.sendState = ctl.sendState
        /\ ctl'.recvWaker = ctl.recvWaker /\ ctl'.sendWaker = ctl.sendWaker
    BY <2>1, <2>2 DEF CtlType
  <2>4. ctl' \in CtlType
    BY <2>1, <2>2, StreamAssumption DEF CtlType
  <2>5. StreamTypes'
    BY <1>1, <2>1, <2>2, <2>4 DEF StreamIInv, StreamTypes
  <2>6. SockInv' /\ EndInv' /\ FinBehindData' /\ NoLostWake' /\ NoSleepOnWork'
    BY <1>1, <2>1, <2>3 DEF StreamIInv, SockInv, EndInv, FinBehindData, NoLostWake,
       NoSleepOnWork
  <2>7. UnitsKept' /\ EofExact'
    BY <1>1, <2>1, <2>2, <2>3
       DEF StreamIInv, StreamTypes, SockType, AppType, UnitsKept, EofExact
  <2> QED
    BY <2>5, <2>6, <2>7 DEF StreamIInv
<1>3. CASE ~(ctl.recv > 0)
  <2>1. /\ reader' = IF ctl.recvState = "Closed" THEN "eof" ELSE "wait"
        /\ ctl' = [ctl EXCEPT !.recvWaker = @ \/ ctl.recvState # "Closed"]
        /\ UNCHANGED <<taken, notified>>
    BY <1>3 DEF PollRead
  <2>2. ctl \in CtlType /\ ctl.recv = 0 /\ ctl.recvState \in {"Normal", "Closed"}
    BY <1>1, <1>3 DEF StreamIInv, StreamTypes, CtlType, EndInv
  <2>3. /\ ctl'.recv = ctl.recv /\ ctl'.send = ctl.send
        /\ ctl'.recvState = ctl.recvState /\ ctl'.sendState = ctl.sendState
        /\ ctl'.sendWaker = ctl.sendWaker
        /\ ctl.recvState = "Normal" => ctl'.recvWaker
    BY <2>1, <2>2 DEF CtlType
  <2>4. ctl' \in CtlType
    BY <2>1, <2>2 DEF CtlType
  <2>5. StreamTypes'
    BY <1>1, <2>1, <2>4 DEF StreamIInv, StreamTypes
  <2>6. SockInv' /\ EndInv' /\ FinBehindData' /\ NoLostWake' /\ NoSleepOnWork'
    BY <1>1, <2>1, <2>2, <2>3 DEF StreamIInv, SockInv, EndInv, FinBehindData,
       NoLostWake, NoSleepOnWork
  <2>7. UnitsKept'
    BY <1>1, <2>1, <2>3 DEF StreamIInv, UnitsKept
  <2>8. EofExact'
    <3> SUFFICES ASSUME ctl.recvState = "Closed", sock.state # "Closed" PROVE app.fin /\ taken = app.sent
      BY <1>1, <2>1 DEF EofExact
    <3>1. sock.rx = 0 /\ app.fin
      BY DEF StreamIInv, SockInv, EndInv
    <3> QED
      BY <2>2, <3>1 DEF StreamIInv, StreamTypes, AppType, UnitsKept
  <2> QED
    BY <2>5, <2>6, <2>7, <2>8 DEF StreamIInv
<1> QED
  BY <1>2, <1>3

\* poll_write fills the send buffer, or leaves its waker.
LEMMA StreamWriteKeepsInv == ASSUME StreamIInv, PollWrite PROVE StreamIInv'
<1>1. /\ writer = "run" /\ ~dropped /\ given < ToApp
      /\ UNCHANGED <<app, sock, loop, reader, taken, dropped, removed>>
  BY DEF PollWrite
<1>2. CASE ctl.sendState # "Normal"
  <2>1. writer' = "broken" /\ UNCHANGED <<ctl, given, notified>>
    BY <1>2 DEF PollWrite
  <2> QED
    BY <1>1, <2>1 DEF StreamIInv, StreamTypes, SockInv, EndInv, UnitsKept, EofExact,
       FinBehindData, NoLostWake, NoSleepOnWork
<1>3. CASE ctl.sendState = "Normal" /\ ctl.send = SendBuffer
  <2>1. writer' = "full" /\ ctl' = [ctl EXCEPT !.sendWaker = TRUE] /\ UNCHANGED <<given, notified>>
    BY <1>3 DEF PollWrite
  <2>2. /\ ctl' \in CtlType
        /\ ctl'.recv = ctl.recv /\ ctl'.send = ctl.send
        /\ ctl'.recvState = ctl.recvState /\ ctl'.sendState = ctl.sendState
        /\ ctl'.sendWaker /\ ctl'.recvWaker = ctl.recvWaker
    BY <2>1 DEF StreamIInv, StreamTypes, CtlType
  <2>3. StreamTypes'
    BY <1>1, <2>1, <2>2 DEF StreamIInv, StreamTypes
  <2> QED
    BY <1>1, <1>3, <2>1, <2>2, <2>3 DEF StreamIInv, SockInv, EndInv, UnitsKept,
       EofExact, FinBehindData, NoLostWake, NoSleepOnWork
<1>4. CASE ctl.sendState = "Normal" /\ ctl.send # SendBuffer
  <2>1. PICK n \in 1..Least(SendBuffer - ctl.send, ToApp - given) :
          /\ ctl' = [ctl EXCEPT !.send = @ + n] /\ given' = given + n
          /\ notified' = TRUE /\ UNCHANGED writer
    BY <1>4 DEF PollWrite
  <2>2. /\ ctl \in CtlType /\ ctl.send \in 0..SendBuffer /\ given \in Nat
        /\ SendBuffer - ctl.send \in Nat /\ ToApp - given \in Nat
    BY <1>1, StreamAssumption DEF StreamIInv, StreamTypes, CtlType
  <2>3. n \in Nat /\ ctl.send + n \in 0..SendBuffer
    <3>1. /\ Least(SendBuffer - ctl.send, ToApp - given) \in Nat
          /\ Least(SendBuffer - ctl.send, ToApp - given) <= SendBuffer - ctl.send
      BY <2>2, LeastIs
    <3> QED
      BY <2>2, <3>1, StreamAssumption
  <2>4. /\ ctl'.recv = ctl.recv /\ ctl'.send = ctl.send + n
        /\ ctl'.recvState = ctl.recvState /\ ctl'.sendState = ctl.sendState
        /\ ctl'.recvWaker = ctl.recvWaker
    BY <2>1, <2>2 DEF CtlType
  <2>5. ctl' \in CtlType
    BY <2>1, <2>2, <2>3 DEF CtlType
  <2>6. StreamTypes'
    BY <1>1, <2>1, <2>2, <2>3, <2>5 DEF StreamIInv, StreamTypes
  <2>7. SockInv' /\ EndInv' /\ EofExact' /\ NoSleepOnWork'
    BY <1>1, <1>4, <2>1, <2>4 DEF StreamIInv, SockInv, EndInv, EofExact,
       NoSleepOnWork
  <2>8. NoLostWake' /\ FinBehindData'
    BY <1>1, <1>4, <2>1, <2>4 DEF StreamIInv, EndInv, NoLostWake, FinBehindData
  <2>9. UnitsKept'
    BY <1>1, <2>1, <2>2, <2>3, <2>4 DEF StreamIInv, StreamTypes, SockType, AppType, UnitsKept
  <2> QED
    BY <2>6, <2>7, <2>8, <2>9 DEF StreamIInv
<1> QED
  BY <1>2, <1>3, <1>4

\* The end of the source, poll_shutdown, and dropping the stream.
LEMMA ShutdownKeepsInv ==
    ASSUME StreamIInv, SourceEnds \/ PollShutdown \/ DropStream
    PROVE  StreamIInv'
<1>1. CASE SourceEnds \/ (PollShutdown /\ ctl.sendState \in {"Closing", "Closed"})
  BY <1>1 DEF SourceEnds, PollShutdown, StreamIInv, StreamTypes, SockInv, EndInv,
     UnitsKept, EofExact, FinBehindData, NoLostWake, NoSleepOnWork
<1>2. CASE PollShutdown /\ ctl.sendState \notin {"Closing", "Closed"}
  <2>1. /\ writer' = "shutting" /\ notified' = TRUE
        /\ ctl' = [ctl EXCEPT !.sendState = "Close", !.sendWaker = TRUE]
        /\ UNCHANGED <<app, sock, loop, reader, taken, given, dropped, removed>>
    BY <1>2 DEF PollShutdown
  <2>2. /\ ctl' \in CtlType
        /\ ctl'.recv = ctl.recv /\ ctl'.send = ctl.send
        /\ ctl'.recvState = ctl.recvState /\ ctl'.sendState = "Close"
        /\ ctl'.sendWaker /\ ctl'.recvWaker = ctl.recvWaker
    BY <2>1 DEF StreamIInv, StreamTypes, CtlType
  <2>3. StreamTypes'
    BY <2>1, <2>2 DEF StreamIInv, StreamTypes
  <2> QED
    BY <1>2, <2>1, <2>2, <2>3 DEF StreamIInv, SockInv, EndInv, UnitsKept,
       EofExact, FinBehindData, NoLostWake, NoSleepOnWork
<1>3. CASE DropStream
  <2>1. /\ dropped' = TRUE /\ notified' = TRUE
        /\ ctl' = [ctl EXCEPT !.recvState = IF @ = "Normal" THEN "Close" ELSE @,
                              !.sendState = IF @ = "Normal" THEN "Close" ELSE @]
        /\ UNCHANGED <<app, sock, loop, reader, writer, taken, given, removed>>
    BY <1>3 DEF DropStream
  <2>2. /\ ctl' \in CtlType
        /\ ctl'.recv = ctl.recv /\ ctl'.send = ctl.send
        /\ ctl'.recvState = IF ctl.recvState = "Normal" THEN "Close" ELSE ctl.recvState
        /\ ctl'.sendState = IF ctl.sendState = "Normal" THEN "Close" ELSE ctl.sendState
    BY <2>1 DEF StreamIInv, StreamTypes, CtlType
  <2>3. StreamTypes'
    BY <2>1, <2>2 DEF StreamIInv, StreamTypes
  <2> QED
    BY <2>1, <2>2, <2>3 DEF StreamIInv, SockInv, EndInv, UnitsKept,
       EofExact, FinBehindData, NoLostWake, NoSleepOnWork
<1> QED
  BY <1>1, <1>2, <1>3

\* Every step of a flow keeps the inductive invariant.
LEMMA StreamStepKeepsInv == ASSUME StreamIInv, [SNext]_streamVars PROVE StreamIInv'
<1> USE DEF StreamIInv, StreamTypes, SockInv, EndInv, UnitsKept, EofExact,
            FinBehindData, NoLostWake, NoSleepOnWork
<1>1. CASE Visit /\ removed
  BY <1>1 DEF Visit
<1>2. CASE Resume
  BY <1>2 DEF Resume
<1>3. CASE UNCHANGED streamVars
  BY <1>3 DEF streamVars
<1> HIDE DEF StreamIInv
<1> QED
  BY <1>1, <1>2, <1>3, PacketKeepsInv, RemoveKeepsInv, ServeKeepsInv, ReadKeepsInv, StreamWriteKeepsInv,
     ShutdownKeepsInv DEF SNext, Loop

\* handle_socket and TcpStream, whatever the application sends and however the
\* loop is parked and notified: no unit is lost or made up, neither side is told
\* of an end that is not there, no wake-up is lost, and the loop does not sleep
\* over work.
THEOREM StreamSound == SSpec => []StreamInv
<1>1. StreamIInv /\ [SNext]_streamVars => StreamIInv'
  BY StreamStepKeepsInv
<1> QED
  BY <1>1, StreamStarts, StreamIInvGives, PTL DEF SSpec
=============================================================================
