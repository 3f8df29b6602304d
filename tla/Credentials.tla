---------------------------- MODULE Credentials -----------------------------
(***************************************************************************)
(* The life of a platform credential: a client (refresh_credential)        *)
(* exchanges for one ahead of each expiry, through a gateway that mints at *)
(* the control plane and falls back to a short local one (RemoteMinter);   *)
(* the control plane rotates its signing key and the gateway fetches the   *)
(* current and the previous one from time to time (run_signing_key_refresh)*)
(* or, when it starts without the control plane, from its disk.            *)
(*                                                                         *)
(* Times are relative: what is left of a credential, of a nap.  One tick   *)
(* is 5 seconds in the configuration.                                      *)
(***************************************************************************)
EXTENDS Integers

CONSTANTS OrgTtl,         \* --credential-ttl, as the control plane grants it
          FallbackTtl,    \* FALLBACK_CREDENTIAL_TTL
          Leeway,         \* decode_claims: validation.leeway
          MinLead, MaxLead,   \* refresh_lead_time
          RefreshRetry,   \* REFRESH_RETRY
          ExchangeMax,    \* bound: the longest an exchange takes
          KeyInterval,    \* --control-plane-signing-key-interval
          MaxRotations, MaxFaults   \* bounds: key rotations, faults in all

LeastOf(a, b) == IF a < b THEN a ELSE b
MostOf(a, b) == IF a < b THEN b ELSE a

\* refresh_lead_time
LeadTime(ttl) ==
    LeastOf(LeastOf(MostOf(ttl \div 4, MinLead), MaxLead), ttl \div 2)

\* Two exchanges fit into the lead, whoever signs the credential.
ASSUME CredentialAssumption ==
    /\ OrgTtl \in Nat /\ FallbackTtl \in Nat /\ Leeway \in Nat /\ RefreshRetry \in Nat
    /\ MinLead \in Nat /\ MaxLead \in Nat /\ ExchangeMax \in Nat /\ KeyInterval \in Nat
    /\ LeadTime(OrgTtl) >= 2 * ExchangeMax /\ LeadTime(FallbackTtl) >= 2 * ExchangeMax

VARIABLES conf,       \* --credential-secret given?  a fallback for the minter?
          orgKey,     \* the number of the control plane's signing key
          served,     \* whether the previous key exists: what /signing-key serves
          reachable,  \* whether the gateway reaches the control plane
          gateway,    \* is it up, its verifier's keys, the disk's, its secret; and
                      \* whether the org's key changed since the last fetch
          refresher,  \* run_signing_key_refresh: the nap, or the answer in hand
          cred,       \* the credential the client's session sends
          agent,      \* refresh_credential: stage, nap, the credential in hand; and
                      \* whether an exchange failed since the last success
          faults      \* outages, restarts and failed calls so far

cvars == <<conf, orgKey, served, reachable, gateway, refresher, cred, agent, faults>>

\* What is left of a credential stops counting once even the leeway is over.
Lower(left) == MostOf(left - 1, 0 - Leeway - 1)

\* signer: an org key, or 0 for a local one signed with `secret`.
OfGateway(n) == [signer |-> 0, secret |-> n, left |-> FallbackTtl]
OfOrg(k) == [signer |-> k, secret |-> 0, left |-> OrgTtl]

\* Mutant: the lead is left out.
Nap_WholeLife(ttl) == ttl

Nap(ttl) == MostOf(ttl - LeadTime(ttl), 0)

\* SigningKey::all_public_key_bytes
ServedKeys == {orgKey} \cup (IF served THEN {orgKey - 1} ELSE {})

CInit ==
    /\ conf \in [secret : BOOLEAN, fallback : BOOLEAN]
    /\ orgKey = 1 /\ served = FALSE /\ reachable = TRUE /\ faults = 0
    /\ gateway = [up |-> TRUE, keys |-> {1}, disk |-> {1}, secret |-> 1, behind |-> FALSE]
    /\ refresher = [stage |-> "nap", left |-> KeyInterval, keys |-> {}]
    /\ cred = OfOrg(1)
    /\ agent = [stage |-> "nap", left |-> Nap(OrgTtl), got |-> OfOrg(1), late |-> FALSE]

-----------------------------------------------------------------------------
\* CredentialIdentity::verify: the org's keys, then the local issuer; expiry is
\* checked with a leeway on both paths.
Unexpired(c) == c.left >= 0 - Leeway

Accepts(c) ==
    /\ gateway.up /\ Unexpired(c)
    /\ c.signer \in gateway.keys \/ (c.signer = 0 /\ c.secret = gateway.secret)

\* refresh_credential wakes and runs the exchange.
Wake ==
    /\ agent.stage = "nap" /\ agent.left = 0
    /\ agent' = [agent EXCEPT !.stage = "asking", !.left = ExchangeMax]
    /\ UNCHANGED <<conf, orgKey, served, reachable, gateway, refresher, cred, faults>>

\* RemoteMinter::mint: the control plane signs, or the gateway does for a while.
Answered ==
    /\ agent.stage = "asking" /\ gateway.up
    /\ \/ reachable /\ agent' = [agent EXCEPT !.stage = "minted", !.got = OfOrg(orgKey)]
       \/ ~reachable /\ conf.fallback
          /\ agent' = [agent EXCEPT !.stage = "minted", !.got = OfGateway(gateway.secret)]
    /\ UNCHANGED <<conf, orgKey, served, reachable, gateway, refresher, cred, faults>>

\* set_credential: tunnels opened from here on carry the new credential.  It
\* refuses a token that no header can carry, and the refresh loop then stops;
\* a minted token is a JWT, whose characters are all allowed, so that way out
\* (session.rs 456-459) is never taken.
Install ==
    /\ agent.stage = "minted"
    /\ cred' = agent.got
    /\ agent' = [agent EXCEPT !.stage = "nap", !.late = FALSE,
                              !.left = Nap(IF agent.got.signer = 0 THEN FallbackTtl ELSE OrgTtl)]
    /\ UNCHANGED <<conf, orgKey, served, reachable, gateway, refresher, faults>>

\* No exchange can succeed: the gateway is down, or has nobody to mint for it.
Unserved == ~gateway.up \/ (~reachable /\ ~conf.fallback)

\* The exchange fails; the loop naps as for a credential of REFRESH_RETRY.
ExchangeFails ==
    /\ agent.stage \in {"asking", "minted"}
    /\ faults' = IF Unserved THEN faults ELSE faults + 1
    /\ faults' <= MaxFaults
    /\ agent' = [agent EXCEPT !.stage = "nap", !.left = Nap(RefreshRetry), !.late = TRUE,
                              !.got = cred]
    /\ UNCHANGED <<conf, orgKey, served, reachable, gateway, refresher, cred>>

-----------------------------------------------------------------------------
\* run_signing_key_refresh: the interval is over and the keys are fetched.
FetchKeys ==
    /\ gateway.up /\ refresher.stage = "nap" /\ refresher.left = 0
    /\ refresher' = IF reachable
                    THEN [stage |-> "got", left |-> ExchangeMax, keys |-> ServedKeys]
                    ELSE [refresher EXCEPT !.left = KeyInterval]
    /\ gateway' = [gateway EXCEPT !.disk = IF reachable THEN ServedKeys ELSE @,
                                  !.behind = @ /\ ~reachable]
    /\ UNCHANGED <<conf, orgKey, served, reachable, cred, agent, faults>>

\* Mutant: the keys are written to disk and the verifier keeps its own.
SwapKeys_DiskOnly ==
    /\ gateway.up /\ refresher.stage = "got"
    /\ refresher' = [stage |-> "nap", left |-> KeyInterval, keys |-> {}]
    /\ UNCHANGED <<conf, orgKey, served, reachable, gateway, cred, agent, faults>>

\* The fetched keys replace the verifier's.
SwapKeys ==
    /\ gateway.up /\ refresher.stage = "got"
    /\ gateway' = [gateway EXCEPT !.keys = refresher.keys]
    /\ refresher' = [stage |-> "nap", left |-> KeyInterval, keys |-> {}]
    /\ UNCHANGED <<conf, orgKey, served, reachable, cred, agent, faults>>

\* A key of the answer does not decode: the verifier keeps what it has.
SwapFails ==
    /\ gateway.up /\ refresher.stage = "got" /\ faults < MaxFaults
    /\ faults' = faults + 1
    /\ gateway' = [gateway EXCEPT !.behind = TRUE]
    /\ refresher' = [stage |-> "nap", left |-> KeyInterval, keys |-> {}]
    /\ UNCHANGED <<conf, orgKey, served, reachable, cred, agent>>

\* The control plane starts to sign with a new key and serves the outgoing one
\* beside it.  It does not rotate again while credentials of the key before
\* the outgoing one live.
Rotate ==
    /\ orgKey <= MaxRotations
    /\ \A c \in {cred, agent.got} : c.signer \in {0, orgKey} \/ ~Unexpired(c)
    /\ orgKey' = orgKey + 1 /\ served' = TRUE
    /\ gateway' = [gateway EXCEPT !.behind = TRUE]
    /\ UNCHANGED <<conf, reachable, refresher, cred, agent, faults>>

Outage ==
    /\ reachable /\ faults < MaxFaults
    /\ reachable' = FALSE /\ faults' = faults + 1
    /\ UNCHANGED <<conf, orgKey, served, gateway, refresher, cred, agent>>

Recover ==
    /\ ~reachable /\ reachable' = TRUE
    /\ UNCHANGED <<conf, orgKey, served, gateway, refresher, cred, agent, faults>>

\* The gateway process ends; the keys on its disk and a configured secret stay.
Stop ==
    /\ gateway.up /\ faults < MaxFaults
    /\ gateway' = [gateway EXCEPT !.up = FALSE, !.keys = {}]
    /\ refresher' = [stage |-> "nap", left |-> KeyInterval, keys |-> {}]
    /\ faults' = faults + 1
    /\ UNCHANGED <<conf, orgKey, served, reachable, cred, agent>>

\* wire_oidc_to_control_plane: fetch the keys, or use the cached ones.
Start ==
    /\ ~gateway.up
    /\ gateway' = [up |-> TRUE, keys |-> IF reachable THEN ServedKeys ELSE gateway.disk,
                   disk |-> IF reachable THEN ServedKeys ELSE gateway.disk,
                   secret |-> IF conf.secret THEN 1 ELSE gateway.secret + 1,
                   behind |-> gateway.behind /\ ~reachable]
    /\ UNCHANGED <<conf, orgKey, served, reachable, refresher, cred, agent, faults>>

-----------------------------------------------------------------------------
\* Time does not pass a deadline that is due.
TimePasses ==
    /\ agent.left > 0 /\ (gateway.up => refresher.left > 0)
    /\ cred' = [cred EXCEPT !.left = Lower(@)]
    /\ agent' = [agent EXCEPT !.left = @ - 1,
                              !.got = IF agent.stage = "minted"
                                      THEN [agent.got EXCEPT !.left = Lower(@)] ELSE cred']
    /\ refresher' = [refresher EXCEPT !.left = IF gateway.up THEN @ - 1 ELSE @]
    /\ UNCHANGED <<conf, orgKey, served, reachable, gateway, faults>>

Client == Wake \/ Answered \/ Install \/ ExchangeFails
KeyRefresh == FetchKeys \/ SwapKeys \/ SwapFails

CNext == Client \/ KeyRefresh \/ Rotate \/ Outage \/ Recover \/ Stop \/ Start \/ TimePasses
CSpec ==
    /\ CInit /\ [][CNext]_cvars
    /\ WF_cvars(Client) /\ WF_cvars(KeyRefresh) /\ WF_cvars(TimePasses)
    /\ WF_cvars(Recover) /\ WF_cvars(Start)

-----------------------------------------------------------------------------
\* refresh_lead_time: a client whose exchanges succeed never sends an expired
\* credential, though a lifetime counts from the signature and the nap from
\* the answer: two exchanges fit into the lead.
NeverLapses == ~agent.late => cred.left >= 0

\* from_ed_public_keys with the previous key: once a gateway has fetched the
\* keys since the last rotation, "a credential minted just before the rotation
\* still verifies", and so does one minted after it.
RotationIsSmooth ==
    /\ gateway.up /\ ~gateway.behind /\ refresher.stage = "nap"
    /\ cred.signer # 0 /\ Unexpired(cred)
    => Accepts(cred)

\* refresh_credential and run_signing_key_refresh: a client whose exchanges
\* succeed never sends an expired credential, and a gateway that has fetched
\* the keys since the last rotation accepts credentials of both keys.
CredentialInv == NeverLapses /\ RotationIsSmooth

\* When the faults are over and the key stays, the client is authorised for
\* good: outages, restarts, failed exchanges and rotations all heal.
AuthorisedAgain == <>[]Accepts(cred)
=============================================================================
