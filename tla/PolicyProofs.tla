---------------------------- MODULE PolicyProofs ----------------------------
(***************************************************************************)
(* Proofs about who is admitted to what.  PolicySet::evaluate: for policy  *)
(* sets of any size, over any fields, rules and requests, the three loops  *)
(* compute the decision AllowedExactly and Explained describe; the         *)
(* inductive invariant is these two with one invariant per loop.  The      *)
(* platform gateway: for any organisations, keys, owners and lists, and    *)
(* any number of requests in flight, it keeps TenantInv; what makes it     *)
(* inductive is the order of the versions, the recorded list at most the   *)
(* table's, that at most the key map's, and the list in hand at least as   *)
(* new as all three until it has been recorded.                            *)
(***************************************************************************)
EXTENDS Tenants, PolicyEval, FiniteSetTheorems, TLAPS


TypeOK ==
    /\ policies \in Seq(Policy)
    /\ phase \in {"select", "rules", "baseline", "done"}

Inv == TypeOK /\ LoopInv /\ AllowedExactly /\ Explained

\* A match constrains finitely many fields, so specificities are compared as
\* natural numbers.
LEMMA SpecificityIsNat ==
    ASSUME NEW p \in Policy
    PROVE  Specificity(p) \in Nat
<1>1. p.match \in MatchSpec
  BY DEF Policy
<1>2. PICK D \in SUBSET Fields : p.match \in [D -> Spellings]
  BY <1>1 DEF MatchSpec
<1>3. DOMAIN p.match \subseteq Fields
  BY <1>2
<1>4. IsFiniteSet(DOMAIN p.match)
  BY <1>3, InputsAssumption, FS_Subset
<1> QED
  BY <1>4, FS_CardinalityType DEF Specificity

\* At most one policy governs a request.
LEMMA GovernsUnique ==
    ASSUME policies \in Seq(Policy),
           NEW k \in 1..Len(policies), NEW m \in 1..Len(policies),
           Governs(k), Governs(m)
    PROVE  k = m
<1>1. policies[k] \in Policy /\ policies[m] \in Policy
  OBVIOUS
<1>2. Specificity(policies[k]) \in Nat /\ Specificity(policies[m]) \in Nat
  BY <1>1, SpecificityIsNat
<1>3. k # m => Outranks(k, m) /\ Outranks(m, k)
  BY DEF Governs
<1> QED
  BY <1>2, <1>3 DEF Outranks

\* The evaluation never changes its inputs, so what they say stays said.
LEMMA InputsStay ==
    ASSUME UNCHANGED <<policies, ctx>>
    PROVE  /\ \A k : Candidate(k)' <=> Candidate(k)
           /\ \A k, m : Outranks(k, m)' <=> Outranks(k, m)
           /\ \A k : Governs(k)' <=> Governs(k)
           /\ \A k : PinHolds(k)' <=> PinHolds(k)
           /\ \A k : Grants(k)' <=> Grants(k)
           /\ \A r : Speaks(r)' <=> Speaks(r)
           /\ \A r : Forbids(r)' <=> Forbids(r)
           /\ \A p : Guards(p)' <=> Guards(p)
           /\ Forbidden' <=> Forbidden
<1>1. \A p : Matches(p)' <=> Matches(p)
  BY DEF Matches
<1>2. \A r : Speaks(r)' <=> Speaks(r)
  BY DEF Speaks
<1>3. \A k : Candidate(k)' <=> Candidate(k)
  BY <1>1 DEF Candidate
<1>4. \A k, m : Outranks(k, m)' <=> Outranks(k, m)
  BY DEF Outranks
<1>5. \A k : Governs(k)' <=> Governs(k)
  BY <1>3, <1>4 DEF Governs
<1>6. \A k : Grants(k)' <=> Grants(k)
  BY <1>2 DEF Grants
<1>7. \A p : Guards(p)' <=> Guards(p)
  BY <1>1 DEF Guards
<1>8. \A r : Forbids(r)' <=> Forbids(r)
  BY <1>2 DEF Forbids
<1>9. Forbidden' <=> Forbidden
  BY <1>7, <1>8 DEF Forbidden
<1>10. \A k : PinHolds(k)' <=> PinHolds(k)
  BY DEF PinHolds
<1> QED
  BY <1>2, <1>3, <1>4, <1>5, <1>6, <1>7, <1>8, <1>9, <1>10

\* One more policy looked at by select.
LEMMA SelectKeepsInv ==
    ASSUME Inv, Select, UNCHANGED <<policies, ctx>>
    PROVE  Inv'
<1>1. /\ phase = "select" /\ i <= Len(policies) /\ Len(policies) \in Nat
      /\ i \in 1..(Len(policies) + 1) /\ i \in 1..Len(policies)
      /\ best \in 0..(i - 1)
      /\ phase' = "select" /\ i' = i + 1
  BY DEF Inv, TypeOK, LoopInv, SelectInv, Select
<1>2. TypeOK'
  BY <1>1 DEF Inv, TypeOK
<1>3. \A k \in 1..Len(policies) : Specificity(policies[k]) \in Nat
  BY SpecificityIsNat DEF Inv, TypeOK
<1>4. CASE /\ Candidate(i)
           /\ best = 0 \/ Specificity(policies[i]) > Specificity(policies[best])
  <2>1. best' = i
    BY <1>1, <1>4 DEF Select, Candidate
  <2>2. \A m \in 1..(i' - 1) \ {i} : Candidate(m) => Outranks(i, m)
    <3> SUFFICES ASSUME NEW m \in 1..(i - 1), Candidate(m)
                 PROVE  Outranks(i, m)
      BY <1>1
    <3>1. best # 0
      BY <1>1 DEF Inv, LoopInv, SelectInv
    <3>2. m = best \/ Outranks(best, m)
      BY <1>1, <3>1 DEF Inv, LoopInv, SelectInv
    <3>3. m \in 1..Len(policies) /\ best \in 1..Len(policies)
      BY <1>1, <3>1
    <3> QED
      BY <1>1, <1>3, <1>4, <3>1, <3>2, <3>3 DEF Outranks
  <2>3. SelectInv'
    BY <1>1, <1>4, <2>1, <2>2, InputsStay DEF SelectInv
  <2> QED
    BY <1>1, <1>2, <2>3 DEF Inv, LoopInv, RulesInv, BaselineInv, AllowedExactly, Explained
<1>5. CASE ~ /\ Candidate(i)
             /\ best = 0 \/ Specificity(policies[i]) > Specificity(policies[best])
  <2>1. best' = best
    BY <1>1, <1>5 DEF Select, Candidate
  <2>2. best = 0 => \A m \in 1..(i' - 1) : ~Candidate(m)
    BY <1>1, <1>5 DEF Inv, LoopInv, SelectInv
  <2>3. ASSUME best # 0
        PROVE  /\ Candidate(best)
               /\ \A m \in 1..(i' - 1) \ {best} : Candidate(m) => Outranks(best, m)
    <3>1. Candidate(best)
      BY <1>1, <2>3 DEF Inv, LoopInv, SelectInv
    <3>2. ASSUME NEW m \in 1..(i - 1) \ {best}, Candidate(m)
          PROVE  Outranks(best, m)
      BY <1>1, <2>3, <3>2 DEF Inv, LoopInv, SelectInv
    <3>3. Candidate(i) => Outranks(best, i)
      <4>1. best \in 1..Len(policies) /\ best < i
        BY <1>1, <2>3
      <4> QED
        BY <1>1, <1>3, <1>5, <2>3, <4>1 DEF Outranks
    <3> QED
      BY <1>1, <3>1, <3>2, <3>3
  <2>4. SelectInv'
    BY <1>1, <2>1, <2>2, <2>3, InputsStay DEF SelectInv
  <2> QED
    BY <1>1, <1>2, <2>4 DEF Inv, LoopInv, RulesInv, BaselineInv, AllowedExactly, Explained
<1> QED
  BY <1>4, <1>5

\* When select ends, its best policy governs; or none does.
LEMMA SelectedGoverns ==
    ASSUME Inv, phase = "select", i > Len(policies)
    PROVE  /\ best = 0 => \A k \in 1..Len(policies) : ~Candidate(k)
           /\ best # 0 => best \in 1..Len(policies) /\ Governs(best)
<1>1. i = Len(policies) + 1 /\ Len(policies) \in Nat /\ best \in 0..Len(policies)
  BY DEF Inv, TypeOK, LoopInv, SelectInv
<1>2. best = 0 => \A k \in 1..Len(policies) : ~Candidate(k)
  BY <1>1 DEF Inv, LoopInv, SelectInv
<1>3. best # 0 => best \in 1..Len(policies) /\ Governs(best)
  BY <1>1 DEF Inv, LoopInv, SelectInv, Governs
<1> QED
  BY <1>2, <1>3

\* The pin and the absence of a policy, then on to the rules.
LEMMA SelectedKeepsInv ==
    ASSUME Inv, Selected, UNCHANGED <<policies, ctx>>
    PROVE  Inv'
<1>1. phase = "select" /\ i > Len(policies) /\ policies \in Seq(Policy)
  BY DEF Inv, TypeOK, Selected
<1>2. /\ best = 0 => \A k \in 1..Len(policies) : ~Candidate(k)
      /\ best # 0 => best \in 1..Len(policies) /\ Governs(best)
  BY <1>1, SelectedGoverns
<1>3. CASE ~PinHolds(best) /\ Decide(Deny("PolicyMismatch", best))
  <2>1. \A k \in 1..Len(policies) : Governs(k) => ~PinHolds(k)
    BY <1>1, <1>2, <1>3, GovernsUnique DEF Governs
  <2>2. phase' = "done" /\ decision'.verdict = "deny" /\ decision'.reason = "PolicyMismatch"
    BY <1>3 DEF Decide, Deny
  <2>3. AllowedExactly' /\ Explained'
    BY <2>1, <2>2, InputsStay DEF AllowedExactly, Explained
  <2> QED
    BY <1>1, <2>2, <2>3 DEF Inv, TypeOK, LoopInv, SelectInv, RulesInv, BaselineInv
<1>4. CASE PinHolds(best) /\ best = 0 /\ Decide(Deny("NoPolicyMatch", 0))
  <2>1. \A k \in 1..Len(policies) : ~Candidate(k) /\ ~Governs(k)
    BY <1>2, <1>4 DEF Governs
  <2>2. phase' = "done" /\ decision'.verdict = "deny" /\ decision'.reason = "NoPolicyMatch"
    BY <1>4 DEF Decide, Deny
  <2>3. AllowedExactly' /\ Explained'
    BY <2>1, <2>2, InputsStay DEF AllowedExactly, Explained
  <2> QED
    BY <1>1, <2>2, <2>3 DEF Inv, TypeOK, LoopInv, SelectInv, RulesInv, BaselineInv
<1>5. CASE /\ PinHolds(best) /\ best # 0
           /\ phase' = "rules" /\ j' = 1 /\ UNCHANGED <<i, best, decision>>
  <2>1. Len(policies[best].rules) \in Nat
    BY <1>1, <1>2, <1>5 DEF Policy
  <2>2. RulesInv'
    BY <1>2, <1>5, <2>1, InputsStay DEF RulesInv
  <2> QED
    BY <1>1, <1>5, <2>2 DEF Inv, TypeOK, LoopInv, SelectInv, BaselineInv, AllowedExactly, Explained
<1> QED
  BY <1>3, <1>4, <1>5 DEF Selected

\* One more rule of the governing policy.
LEMMA EvaluateRuleKeepsInv ==
    ASSUME Inv, EvaluateRule, UNCHANGED <<policies, ctx>>
    PROVE  Inv'
<1> DEFINE rules == policies[best].rules
<1>1. /\ phase = "rules" /\ policies \in Seq(Policy)
      /\ best \in 1..Len(policies) /\ Governs(best) /\ PinHolds(best)
      /\ j \in 1..(Len(rules) + 1)
      /\ \A q \in 1..(j - 1) : ~Speaks(rules[q])
  BY DEF Inv, TypeOK, LoopInv, RulesInv, EvaluateRule
<1>2. Len(rules) \in Nat
  BY <1>1 DEF Policy
<1>3. ASSUME NEW why \in {"NoMatchingAllowRule", "ExplicitDeny"},
             Decide(Deny(why, best)), ~Grants(best)
      PROVE  Inv'
  <2>1. /\ phase' = "done" /\ decision'.verdict = "deny"
        /\ decision'.reason = why /\ decision'.policy = best
    BY <1>3 DEF Decide, Deny
  <2>2. \A k \in 1..Len(policies) : Governs(k) => ~Grants(k)
    BY <1>1, <1>3, GovernsUnique
  <2>3. AllowedExactly' /\ Explained'
    BY <1>1, <1>3, <2>1, <2>2, InputsStay DEF AllowedExactly, Explained
  <2> QED
    BY <1>1, <2>1, <2>3 DEF Inv, TypeOK, LoopInv, SelectInv, RulesInv, BaselineInv
<1>4. CASE j > Len(rules) /\ Decide(Deny("NoMatchingAllowRule", best))
  <2>1. ~Grants(best)
    BY <1>1, <1>2, <1>4 DEF Grants
  <2> QED
    BY <1>3, <1>4, <2>1
<1>5. CASE /\ j <= Len(rules) /\ ~Speaks(rules[j])
           /\ j' = j + 1 /\ UNCHANGED <<phase, i, best, decision>>
  <2>1. \A q \in 1..(j' - 1) : ~Speaks(rules[q])
    BY <1>1, <1>5
  <2>2. RulesInv'
    BY <1>1, <1>2, <1>5, <2>1, InputsStay DEF RulesInv
  <2> QED
    BY <1>1, <1>5, <2>2 DEF Inv, TypeOK, LoopInv, SelectInv, BaselineInv, AllowedExactly, Explained
<1>6. CASE /\ j <= Len(rules) /\ Speaks(rules[j]) /\ rules[j].action = "deny"
           /\ Decide(Deny("ExplicitDeny", best))
  <2>1. ASSUME Grants(best)
        PROVE  FALSE
    <3>1. PICK r \in 1..Len(rules) :
              /\ Speaks(rules[r]) /\ rules[r].action = "allow"
              /\ \A q \in 1..(r - 1) : ~Speaks(rules[q])
      BY <2>1 DEF Grants
    <3>2. r # j
      BY <1>6, <3>1
    <3>3. r < j \/ j < r
      BY <1>1, <1>2, <3>2
    <3> QED
      BY <1>1, <1>2, <1>6, <3>1, <3>3
  <2> QED
    BY <1>3, <1>6, <2>1
<1>7. CASE /\ j <= Len(rules) /\ Speaks(rules[j]) /\ rules[j].action = "allow"
           /\ phase' = "baseline" /\ i' = 1 /\ j' = 1
           /\ UNCHANGED <<best, decision>>
  <2>1. Grants(best)
    BY <1>1, <1>2, <1>7 DEF Grants
  <2>2. Len(policies) \in Nat
    BY <1>1
  <2>3. 1 <= Len(policies) => Len(policies[1].rules) \in Nat
    BY <1>1 DEF Policy
  <2>4. BaselineInv'
    BY <1>1, <1>7, <2>1, <2>2, <2>3, InputsStay DEF BaselineInv
  <2> QED
    BY <1>1, <1>7, <2>4 DEF Inv, TypeOK, LoopInv, SelectInv, RulesInv, AllowedExactly, Explained
<1> QED
  BY <1>4, <1>5, <1>6, <1>7 DEF EvaluateRule

\* One more policy, or one more rule of a baseline.
LEMMA WithBaselineKeepsInv ==
    ASSUME Inv, WithBaseline, UNCHANGED <<policies, ctx>>
    PROVE  Inv'
<1>0. TypeOK /\ BaselineInv /\ phase = "baseline"
  BY DEF Inv, LoopInv, WithBaseline
<1>1. /\ phase = "baseline" /\ policies \in Seq(Policy) /\ Len(policies) \in Nat
      /\ best \in 1..Len(policies)
      /\ Governs(best) /\ PinHolds(best) /\ Grants(best)
      /\ i \in 1..(Len(policies) + 1) /\ j \in Nat \ {0}
      /\ \A m \in 1..(i - 1) : Guards(policies[m]) =>
          \A r \in 1..Len(policies[m].rules) : ~Forbids(policies[m].rules[r])
      /\ i <= Len(policies) =>
          /\ j <= Len(policies[i].rules) + 1
          /\ \A r \in 1..(j - 1) : ~Forbids(policies[i].rules[r])
  <2>1. policies \in Seq(Policy) /\ Len(policies) \in Nat
    BY <1>0 DEF TypeOK
  <2> QED
    BY <1>0, <2>1, Zenon DEF BaselineInv
<1>2. \A m \in 1..Len(policies) : Len(policies[m].rules) \in Nat
  BY <1>1 DEF Policy
<1>3. CASE i > Len(policies) /\ Decide(Allow(best))
  <2>1. ~Forbidden
    BY <1>1, <1>3 DEF Forbidden
  <2>2. phase' = "done" /\ decision'.verdict = "allow" /\ decision'.policy = best
    BY <1>3 DEF Decide, Allow
  <2>3. AllowedExactly' /\ Explained'
    BY <1>1, <2>1, <2>2, InputsStay DEF AllowedExactly, Explained
  <2> QED
    BY <1>1, <2>2, <2>3 DEF Inv, TypeOK, LoopInv, SelectInv, RulesInv, BaselineInv
<1>4. CASE /\ i <= Len(policies)
           /\ ~Guards(policies[i]) \/ j > Len(policies[i].rules)
           /\ i' = i + 1 /\ j' = 1 /\ UNCHANGED <<phase, best, decision>>
  <2>1. Guards(policies[i]) =>
          \A r \in 1..Len(policies[i].rules) : ~Forbids(policies[i].rules[r])
    BY <1>1, <1>2, <1>4
  <2>2. \A m \in 1..(i' - 1) : Guards(policies[m]) =>
          \A r \in 1..Len(policies[m].rules) : ~Forbids(policies[m].rules[r])
    BY <1>1, <1>4, <2>1
  <2>3. i' <= Len(policies) => Len(policies[i'].rules) \in Nat
    BY <1>1, <1>2, <1>4
  <2>4. BaselineInv'
    BY <1>1, <1>4, <2>2, <2>3, InputsStay DEF BaselineInv
  <2> QED
    BY <1>1, <1>4, <2>4 DEF Inv, TypeOK, LoopInv, SelectInv, RulesInv, AllowedExactly, Explained
<1>5. CASE /\ i <= Len(policies) /\ Guards(policies[i])
           /\ j <= Len(policies[i].rules) /\ ~Forbids(policies[i].rules[j])
           /\ j' = j + 1 /\ UNCHANGED <<phase, i, best, decision>>
  <2>1. \A r \in 1..(j' - 1) : ~Forbids(policies[i].rules[r])
    BY <1>1, <1>5
  <2>2. j' \in Nat \ {0} /\ j' <= Len(policies[i].rules) + 1
    BY <1>1, <1>2, <1>5
  <2>3. BaselineInv'
    BY <1>1, <1>5, <2>1, <2>2, InputsStay DEF BaselineInv
  <2> QED
    BY <1>1, <1>5, <2>2, <2>3 DEF Inv, TypeOK, LoopInv, SelectInv, RulesInv, AllowedExactly, Explained
<1>6. CASE /\ i <= Len(policies) /\ Guards(policies[i])
           /\ j <= Len(policies[i].rules) /\ Forbids(policies[i].rules[j])
           /\ Decide(Deny("Baseline", i))
  <2>1. Forbidden
    <3>1. i \in 1..Len(policies) /\ j \in 1..Len(policies[i].rules)
      BY <1>1, <1>2, <1>6
    <3> QED
      BY <1>6, <3>1 DEF Forbidden
  <2>2. phase' = "done" /\ decision'.verdict = "deny" /\ decision'.reason = "Baseline"
    BY <1>6 DEF Decide, Deny
  <2>3. AllowedExactly' /\ Explained'
    BY <1>1, <2>1, <2>2, InputsStay DEF AllowedExactly, Explained
  <2> QED
    BY <1>1, <2>2, <2>3 DEF Inv, TypeOK, LoopInv, SelectInv, RulesInv, BaselineInv
<1> QED
  BY <1>3, <1>4, <1>5, <1>6 DEF WithBaseline

\* PolicySet::evaluate allows exactly what the declarative reading of the
\* policy files allows, and names the true cause of what it denies.
THEOREM EvaluationCorrect == Spec => [](AllowedExactly /\ Explained)
<1>1. Init => Inv
  <2> SUFFICES ASSUME Init PROVE Inv
    OBVIOUS
  <2>1. policies \in Seq(Policy) /\ phase = "select" /\ i = 1 /\ best = 0
    BY InputsAssumption DEF Init
  <2>2. Len(policies) \in Nat
    BY <2>1
  <2> QED
    BY <2>1, <2>2 DEF Inv, TypeOK, LoopInv, SelectInv, RulesInv, BaselineInv,
                      AllowedExactly, Explained
<1>2. Inv /\ [Next]_vars => Inv'
  <2> SUFFICES ASSUME Inv, [Next]_vars PROVE Inv'
    OBVIOUS
  <2>1. CASE Next
    BY <2>1, SelectKeepsInv, SelectedKeepsInv, EvaluateRuleKeepsInv,
       WithBaselineKeepsInv DEF Next
  <2>2. CASE UNCHANGED vars
    <3>1. UNCHANGED <<policies, ctx>> /\ UNCHANGED <<phase, i, j, best, decision>>
      BY <2>2 DEF vars
    <3>2. SelectInv' /\ RulesInv' /\ BaselineInv'
      BY <3>1, InputsStay DEF Inv, LoopInv, SelectInv, RulesInv, BaselineInv
    <3>3. AllowedExactly' /\ Explained'
      BY <3>1, InputsStay DEF Inv, AllowedExactly, Explained
    <3> QED
      BY <3>1, <3>2, <3>3 DEF Inv, TypeOK, LoopInv
  <2> QED
    BY <2>1, <2>2
<1>3. Inv => AllowedExactly /\ Explained
  BY DEF Inv
<1> QED
  BY <1>1, <1>2, <1>3, PTL DEF Spec

-----------------------------------------------------------------------------

TenantTypes ==
    /\ published \in Seq(Lists)
    /\ {keys, table, recorded, cache, fetched} \subseteq Nat
    /\ request \in [Requests -> [stage : {"none", "resolved", "verified", "admitted", "refused"},
                                 org : Orgs \cup {NoOrg}, key : Keys \cup {"none"},
                                 at : Nat, under : Nat]]
    /\ job \in [stage : {"none", "resolved", "asking", "minted", "refused"},
                org : Orgs \cup {NoOrg}, owner : Owners \cup {"none"}, at : Nat]

\* The list in hand is never older than what it replaces.
SyncInv ==
    /\ sync \in {"idle", "fetched", "keyed", "stored"}
    /\ sync \in {"fetched", "keyed", "stored"} =>
        table <= fetched /\ keys <= fetched /\ fetched <= Len(published)
    /\ sync \in {"keyed", "stored"} => keys = fetched
    /\ sync = "stored" => table = fetched

\* A request resolved in a list that is in force, or was; verified by a list
\* no older than that one.
RequestInv ==
    \A r \in Requests :
        /\ request[r].stage # "none" => request[r].at <= table
        /\ request[r].stage \in {"verified", "admitted"} =>
            \E v \in request[r].at..Len(published) :
                Verifies(v, request[r].org, request[r].key)
        /\ request[r].stage = "admitted" =>
            /\ request[r].under \in request[r].at..Len(published)
            /\ MayAllow(request[r].under, request[r].org)

JobInv == job.stage # "none" => job.at <= Len(published)

\* While the process is down only the cache file has content.
DownInv == ~up => table = 0 /\ keys = 0 /\ recorded = 0 /\ sync = "idle"

TenantIInv ==
    /\ TenantTypes /\ KeysNotOlder /\ NeverAhead /\ SyncInv /\ RequestInv
    /\ JobInv /\ MintedForOwner /\ DownInv

(* The inductive invariant gives the property.                             *)
LEMMA InvGivesTenantInv == TenantIInv => TenantInv
BY DEF TenantIInv, TenantInv, AdmittedByOwnKey, RequestInv

\* A published list keeps its content.
LEMMA ListsStay ==
    ASSUME published \in Seq(Lists), NEW list \in Lists,
           published' = Append(published, list),
           NEW v \in 0..Len(published)
    PROVE  /\ \A org, key : Verifies(v, org, key)' <=> Verifies(v, org, key)
           /\ \A org : MayAllow(v, org)' <=> MayAllow(v, org)
           /\ \A org, owner : Owns(v, org, owner)' <=> Owns(v, org, owner)
<1>1. v # 0 => published'[v] = published[v]
  OBVIOUS
<1>2. TenantsAt(v)' = TenantsAt(v)
  BY <1>1 DEF TenantsAt
<1> QED
  BY <1>2 DEF Verifies, MayAllow, Owns

(* The control plane publishes a list.                                     *)
LEMMA PublishKeepsInv ==
    ASSUME TenantIInv, NEW list \in Lists, Publish(list)
    PROVE  TenantIInv'
<1>1. /\ published' \in Seq(Lists) /\ Len(published') = Len(published) + 1
      /\ Len(published) \in Nat
  BY DEF TenantIInv, TenantTypes, Publish
<1>2. UNCHANGED <<up, keys, table, sync, fetched, recorded, cache, request, job>>
  BY DEF Publish, gateVars
<1>3. TenantTypes'
  BY <1>1, <1>2 DEF TenantIInv, TenantTypes
<1>4. KeysNotOlder' /\ NeverAhead' /\ SyncInv' /\ JobInv' /\ DownInv'
  BY <1>1, <1>2 DEF TenantIInv, TenantTypes, KeysNotOlder, NeverAhead, SyncInv, JobInv, DownInv
<1>5. RequestInv'
  <2> SUFFICES ASSUME NEW r \in Requests
               PROVE  /\ request[r].stage # "none" => request[r].at <= table
                      /\ request[r].stage \in {"verified", "admitted"} =>
                          \E v \in request[r].at..Len(published') :
                              Verifies(v, request[r].org, request[r].key)'
                      /\ request[r].stage = "admitted" =>
                          /\ request[r].under \in request[r].at..Len(published')
                          /\ MayAllow(request[r].under, request[r].org)'
    BY <1>2 DEF RequestInv
  <2>1. request[r].at \in Nat /\ request[r].under \in Nat
    BY DEF TenantIInv, TenantTypes
  <2>2. ASSUME request[r].stage \in {"verified", "admitted"}
        PROVE  \E v \in request[r].at..Len(published') :
                   Verifies(v, request[r].org, request[r].key)'
    <3>1. PICK v \in request[r].at..Len(published) :
              Verifies(v, request[r].org, request[r].key)
      BY <2>2 DEF TenantIInv, RequestInv
    <3>2. v \in 0..Len(published) /\ v \in request[r].at..Len(published')
      BY <1>1, <2>1
    <3>3. published \in Seq(Lists) /\ published' = Append(published, list)
      BY DEF TenantIInv, TenantTypes, Publish
    <3>4. Verifies(v, request[r].org, request[r].key)'
      BY <1>2, <3>1, <3>2, <3>3, ListsStay
    <3> QED
      BY <1>2, <3>2, <3>4
  <2>3. ASSUME request[r].stage = "admitted"
        PROVE  /\ request[r].under \in request[r].at..Len(published')
               /\ MayAllow(request[r].under, request[r].org)'
    <3>1. /\ request[r].under \in request[r].at..Len(published)
          /\ MayAllow(request[r].under, request[r].org)
      BY <2>3 DEF TenantIInv, RequestInv
    <3>2. request[r].under \in 0..Len(published)
      BY <1>1, <2>1, <3>1
    <3>3. published \in Seq(Lists) /\ published' = Append(published, list)
      BY DEF TenantIInv, TenantTypes, Publish
    <3>4. MayAllow(request[r].under, request[r].org)'
      BY <1>2, <3>1, <3>2, <3>3, ListsStay
    <3> QED
      BY <1>1, <2>1, <3>1, <3>4
  <2> QED
    BY <2>2, <2>3 DEF TenantIInv, RequestInv
<1>6. MintedForOwner'
  <2>1. published \in Seq(Lists) /\ published' = Append(published, list) /\ job.at \in Nat
    BY DEF TenantIInv, TenantTypes, Publish
  <2> SUFFICES ASSUME job.stage \in {"asking", "minted"}
               PROVE  /\ job.at <= Len(published') /\ Owns(job.at, job.org, job.owner)'
    BY <1>2 DEF MintedForOwner
  <2>2. job.at \in 0..Len(published) /\ Owns(job.at, job.org, job.owner)
    BY <1>1, <2>1 DEF TenantIInv, MintedForOwner
  <2>3. Owns(job.at, job.org, job.owner)'
    BY <1>2, <2>1, <2>2, ListsStay
  <2> QED
    BY <1>1, <2>2, <2>3
<1> QED
  BY <1>3, <1>4, <1>5, <1>6 DEF TenantIInv

\* What the gateway's own tasks do leaves requests and exchanges as they are,
\* as long as the table only moves to newer lists.
LEMMA GateStepKeepsReaders ==
    ASSUME TenantIInv, UNCHANGED <<published, request, job>>, table' \in Nat, table <= table'
    PROVE  RequestInv' /\ JobInv' /\ MintedForOwner'
<1>1. /\ \A v, org, key : Verifies(v, org, key)' <=> Verifies(v, org, key)
      /\ \A v, org : MayAllow(v, org)' <=> MayAllow(v, org)
      /\ \A v, org, owner : Owns(v, org, owner)' <=> Owns(v, org, owner)
  BY DEF Verifies, MayAllow, Owns, TenantsAt
<1>2. RequestInv'
  <2>1. \A r \in Requests : request[r].stage # "none" => request[r].at <= table'
    BY DEF TenantIInv, TenantTypes, RequestInv
  <2> QED
    BY <1>1, <2>1 DEF TenantIInv, RequestInv
<1>3. JobInv' /\ MintedForOwner'
  BY <1>1 DEF TenantIInv, JobInv, MintedForOwner
<1> QED
  BY <1>2, <1>3

(* bootstrap_platform takes a fetched or a cached list.                    *)
LEMMA StartKeepsInv ==
    ASSUME TenantIInv, StartFetched \/ StartCached
    PROVE  TenantIInv'
<1>1. Len(published) \in Nat /\ table = 0 /\ sync = "idle"
  BY DEF TenantIInv, TenantTypes, DownInv, StartFetched, StartCached
<1>2. PICK v \in 0..Len(published) : Serve(v)
  BY <1>1 DEF TenantIInv, TenantTypes, NeverAhead, StartFetched, StartCached
<1>3. cache' \in 0..Len(published)
  BY <1>1 DEF TenantIInv, TenantTypes, NeverAhead, StartFetched, StartCached, WriteCache
<1>4. TenantTypes'
  BY <1>1, <1>2, <1>3 DEF TenantIInv, TenantTypes, Serve
<1>5. KeysNotOlder' /\ NeverAhead' /\ SyncInv' /\ DownInv'
  BY <1>1, <1>2, <1>3 DEF KeysNotOlder, NeverAhead, SyncInv, DownInv, Serve
<1>6. RequestInv' /\ JobInv' /\ MintedForOwner'
  BY <1>1, <1>2, GateStepKeepsReaders DEF Serve
<1> QED
  BY <1>4, <1>5, <1>6 DEF TenantIInv

(* A crash loses the memory and keeps the cache.                           *)
LEMMA CrashKeepsInv ==
    ASSUME TenantIInv, Crash
    PROVE  TenantIInv'
<1>1. TenantTypes'
  BY DEF TenantIInv, TenantTypes, Crash, NoRequest, NoJob
<1>2. KeysNotOlder' /\ NeverAhead' /\ SyncInv' /\ DownInv'
  BY DEF TenantIInv, TenantTypes, KeysNotOlder, NeverAhead, SyncInv, DownInv, Crash
<1>3. RequestInv' /\ JobInv' /\ MintedForOwner'
  BY DEF Crash, RequestInv, JobInv, MintedForOwner, NoRequest, NoJob
<1> QED
  BY <1>1, <1>2, <1>3 DEF TenantIInv

(* The long poll brings a list, nothing, or an error.                      *)
LEMMA PollKeepsInv ==
    ASSUME TenantIInv, PollUpdated \/ PollUnchanged \/ PollFails
    PROVE  TenantIInv'
<1>1. UNCHANGED <<published, up, keys, table, recorded, cache, request, job>>
  BY DEF PollUpdated, PollUnchanged, PollFails
<1>2. \/ UNCHANGED <<sync, fetched>>
      \/ up /\ sync' = "fetched" /\ fetched' = Len(published)
  BY DEF PollUpdated, PollUnchanged, PollFails
<1>3. Len(published) \in Nat /\ table \in Nat /\ keys \in Nat
  BY DEF TenantIInv, TenantTypes
<1>4. TenantTypes'
  BY <1>1, <1>2, <1>3 DEF TenantIInv, TenantTypes
<1>5. KeysNotOlder' /\ NeverAhead' /\ SyncInv' /\ DownInv'
  BY <1>1, <1>2, <1>3 DEF TenantIInv, KeysNotOlder, NeverAhead, SyncInv, DownInv
<1>6. RequestInv' /\ JobInv' /\ MintedForOwner'
  BY <1>1, <1>3, GateStepKeepsReaders
<1> QED
  BY <1>4, <1>5, <1>6 DEF TenantIInv

\* apply and what follows it: each step moves one version up to fetched.
LEMMA ApplyKeepsInv ==
    ASSUME TenantIInv, ApplyKeys \/ ApplyTable \/ Record
    PROVE  TenantIInv'
<1>1. UNCHANGED <<published, up, request, job>> /\ up
  BY DEF ApplyKeys, ApplyTable, Record
<1>2. {keys, table, recorded, cache, fetched, Len(published)} \subseteq Nat
  BY DEF TenantIInv, TenantTypes
<1>3. TenantTypes'
  BY <1>1, <1>2 DEF TenantIInv, TenantTypes, ApplyKeys, ApplyTable, Record, WriteCache
<1>4. CASE ApplyKeys
  <2>1. KeysNotOlder' /\ NeverAhead' /\ SyncInv' /\ DownInv' /\ table' = table
    BY <1>1, <1>2, <1>4 DEF TenantIInv, KeysNotOlder, NeverAhead, SyncInv, DownInv, ApplyKeys
  <2> QED
    BY <1>1, <1>2, <1>3, <2>1, GateStepKeepsReaders DEF TenantIInv
<1>5. CASE ApplyTable
  <2>1. KeysNotOlder' /\ NeverAhead' /\ SyncInv' /\ DownInv'
    BY <1>1, <1>2, <1>5 DEF TenantIInv, KeysNotOlder, NeverAhead, SyncInv, DownInv, ApplyTable
  <2>2. table' \in Nat /\ table <= table'
    BY <1>2, <1>5 DEF TenantIInv, SyncInv, ApplyTable
  <2> QED
    BY <1>1, <1>3, <2>1, <2>2, GateStepKeepsReaders DEF TenantIInv
<1>6. CASE Record
  <2>1. KeysNotOlder' /\ NeverAhead' /\ SyncInv' /\ DownInv' /\ table' = table
    BY <1>1, <1>2, <1>6 DEF TenantIInv, KeysNotOlder, NeverAhead, SyncInv, DownInv, Record, WriteCache
  <2> QED
    BY <1>1, <1>2, <1>3, <2>1, GateStepKeepsReaders DEF TenantIInv
<1> QED
  BY <1>4, <1>5, <1>6

\* A request's steps read the versions and change only that request.
LEMMA RequestKeepsInv ==
    ASSUME TenantIInv, NEW r \in Requests,
           \/ \E org \in Orgs, key \in Keys : Resolve(r, org, key)
           \/ Verify(r) \/ Enforce(r)
    PROVE  TenantIInv'
<1>1. /\ UNCHANGED <<published, up, keys, table, sync, fetched, recorded, cache, job>>
      /\ \A q \in Requests \ {r} : request'[q] = request[q]
  BY DEF TenantIInv, TenantTypes, Resolve, Verify, Enforce, gateVars
<1>2. /\ keys \in Nat /\ table \in Nat /\ Len(published) \in Nat
      /\ table <= keys /\ keys <= Len(published)
  BY DEF TenantIInv, TenantTypes, KeysNotOlder
<1>3. /\ \A v, org, key : Verifies(v, org, key)' <=> Verifies(v, org, key)
      /\ \A v, org : MayAllow(v, org)' <=> MayAllow(v, org)
      /\ \A v, org, owner : Owns(v, org, owner)' <=> Owns(v, org, owner)
  BY <1>1 DEF Verifies, MayAllow, Owns, TenantsAt
<1>4. KeysNotOlder' /\ NeverAhead' /\ SyncInv' /\ JobInv' /\ MintedForOwner' /\ DownInv'
  BY <1>1, <1>3 DEF TenantIInv, KeysNotOlder, NeverAhead, SyncInv, JobInv, MintedForOwner, DownInv
<1> DEFINE Fine(q) ==
      /\ request[q].stage # "none" => request[q].at <= table
      /\ request[q].stage \in {"verified", "admitted"} =>
          \E v \in request[q].at..Len(published) :
              Verifies(v, request[q].org, request[q].key)
      /\ request[q].stage = "admitted" =>
          /\ request[q].under \in request[q].at..Len(published)
          /\ MayAllow(request[q].under, request[q].org)
<1>5. \A q \in Requests \ {r} : Fine(q)'
  BY <1>1, <1>3 DEF TenantIInv, RequestInv
<1>6. Fine(r)
  BY DEF TenantIInv, RequestInv
<1>n. request[r].at \in Nat
  BY DEF TenantIInv, TenantTypes
<1>7. ASSUME NEW org \in Orgs, NEW key \in Keys, Resolve(r, org, key)
      PROVE  TenantTypes' /\ Fine(r)'
  <2>1. request'[r] = [stage |-> IF Serves(table, org) THEN "resolved" ELSE "refused",
                       org |-> org, key |-> key, at |-> table, under |-> 0]
    BY <1>7 DEF Resolve, TenantIInv, TenantTypes
  <2>2. Fine(r)'
    <3>1. /\ request'[r].stage \in {"resolved", "refused"}
          /\ request'[r].at = table /\ table' = table
      BY <1>1, <2>1
    <3>2. request'[r].at <= table'
      BY <1>2, <3>1
    <3> QED
      BY <3>1, <3>2
  <2>3. TenantTypes'
    BY <1>1, <1>2, <1>7 DEF TenantIInv, TenantTypes, Resolve
  <2> QED
    BY <2>2, <2>3
<1>8. ASSUME Verify(r)
      PROVE  TenantTypes' /\ Fine(r)'
  <2>1. TenantTypes'
    <3>1. PICK s \in {"verified", "refused"} :
            request' = [request EXCEPT ![r] = [request[r] EXCEPT !.stage = s]]
      BY <1>8 DEF Verify
    <3>2. [request[r] EXCEPT !.stage = s] \in
            [stage : {"none", "resolved", "verified", "admitted", "refused"},
             org : Orgs \cup {NoOrg}, key : Keys \cup {"none"}, at : Nat, under : Nat]
      BY DEF TenantIInv, TenantTypes
    <3> QED
      BY <1>1, <3>1, <3>2 DEF TenantIInv, TenantTypes
  <2>2. /\ request'[r].stage \in {"verified", "refused"}
        /\ request'[r].stage = "verified" => Verifies(keys, request[r].org, request[r].key)
        /\ request'[r].at = request[r].at /\ request'[r].org = request[r].org
        /\ request'[r].key = request[r].key
    BY <1>8 DEF TenantIInv, TenantTypes, Verify
  <2>3. request[r].at <= table
    BY <1>6, <1>8 DEF Verify
  <2>4. keys \in request[r].at..Len(published)
    BY <1>2, <1>n, <2>3
  <2>5. request'[r].stage = "verified" =>
          \E v \in request'[r].at..Len(published) :
              Verifies(v, request'[r].org, request'[r].key)
    BY <2>2, <2>4
  <2>6. Fine(r)'
    BY <1>1, <1>3, <2>2, <2>3, <2>5
  <2> QED
    BY <2>1, <2>6
<1>9. ASSUME Enforce(r)
      PROVE  TenantTypes' /\ Fine(r)'
  <2>1. PICK allowed \in BOOLEAN :
          /\ allowed => MayAllow(table, request[r].org)
          /\ request' = [request EXCEPT ![r] =
              [stage |-> IF allowed THEN "admitted" ELSE "refused",
               org |-> request[r].org, key |-> request[r].key,
               at |-> request[r].at, under |-> table]]
    BY <1>9 DEF Enforce
  <2>2. TenantTypes'
    BY <1>1, <1>2, <2>1 DEF TenantIInv, TenantTypes
  <2>3. request'[r] = [stage |-> IF allowed THEN "admitted" ELSE "refused",
                       org |-> request[r].org, key |-> request[r].key,
                       at |-> request[r].at, under |-> table]
    BY <2>1 DEF TenantIInv, TenantTypes
  <2>4. /\ request[r].at <= table
        /\ \E v \in request[r].at..Len(published) :
              Verifies(v, request[r].org, request[r].key)
    BY <1>6, <1>9 DEF Enforce
  <2>5. table \in request[r].at..Len(published)
    <3>1. request[r].at <= table
      BY <2>4
    <3> QED
      BY <1>2, <1>n, <3>1
  <2>6. Fine(r)'
    <3>1. /\ request'[r].at = request[r].at /\ request'[r].org = request[r].org
          /\ request'[r].key = request[r].key /\ request'[r].under = table
          /\ request'[r].stage = "admitted" => MayAllow(table, request[r].org)
      BY <2>1, <2>3
    <3> QED
      BY <1>1, <1>3, <2>4, <2>5, <3>1
  <2> QED
    BY <2>2, <2>6
<1>10. TenantTypes' /\ Fine(r)'
  BY <1>7, <1>8, <1>9
<1>11. RequestInv'
  BY <1>5, <1>10 DEF RequestInv
<1> QED
  BY <1>4, <1>10, <1>11 DEF TenantIInv

\* An exchange's steps change only the exchange.
LEMMA JobKeepsInv ==
    ASSUME TenantIInv,
           \/ \E slug \in Slugs, owner \in Owners : MintResolve(slug, owner)
           \/ MintVerify \/ MintAnswer
    PROVE  TenantIInv'
<1>1. UNCHANGED <<published, up, keys, table, sync, fetched, recorded, cache, request>>
  BY DEF MintResolve, MintVerify, MintAnswer, gateVars
<1>2. {keys, table, Len(published)} \subseteq Nat /\ table <= Len(published)
  BY DEF TenantIInv, TenantTypes, KeysNotOlder
<1>3. /\ \A v, org, key : Verifies(v, org, key)' <=> Verifies(v, org, key)
      /\ \A v, org : MayAllow(v, org)' <=> MayAllow(v, org)
      /\ \A v, org, owner : Owns(v, org, owner)' <=> Owns(v, org, owner)
  BY <1>1 DEF Verifies, MayAllow, Owns, TenantsAt
<1>4. KeysNotOlder' /\ NeverAhead' /\ SyncInv' /\ DownInv'
  BY <1>1 DEF TenantIInv, KeysNotOlder, NeverAhead, SyncInv, DownInv
<1>5. RequestInv'
  BY <1>1, <1>3 DEF TenantIInv, RequestInv
<1>6. ASSUME NEW slug \in Slugs, NEW owner \in Owners, MintResolve(slug, owner)
      PROVE  TenantTypes' /\ JobInv' /\ MintedForOwner'
  BY <1>1, <1>2, <1>6 DEF TenantIInv, TenantTypes, JobInv, MintedForOwner, MintResolve, NoJob
<1>7. ASSUME MintVerify
      PROVE  TenantTypes' /\ JobInv' /\ MintedForOwner'
  BY <1>1, <1>3, <1>7 DEF TenantIInv, TenantTypes, JobInv, MintedForOwner, MintVerify
<1>8. ASSUME MintAnswer
      PROVE  TenantTypes' /\ JobInv' /\ MintedForOwner'
  BY <1>1, <1>3, <1>8 DEF TenantIInv, TenantTypes, JobInv, MintedForOwner, MintAnswer
<1> QED
  BY <1>4, <1>5, <1>6, <1>7, <1>8 DEF TenantIInv

\* However requests, exchanges, polls, applies, crashes and restarts are
\* interleaved: admitted only by a key its own organisation has in the list it
\* was resolved in or a later one; keys never older than the table; nothing
\* recorded that is not enforced; nothing minted for an unverified owner.
THEOREM TenantsIsolated == TenantsSpec => []TenantInv
<1>1. TenantsInit => TenantIInv
  BY DEF TenantsInit, TenantIInv, TenantTypes, KeysNotOlder, NeverAhead, SyncInv, RequestInv, JobInv,
         MintedForOwner, DownInv, NoRequest, NoJob
<1>2. TenantIInv /\ [TenantsNext]_tenantVars => TenantIInv'
  <2> SUFFICES ASSUME TenantIInv, [TenantsNext]_tenantVars PROVE TenantIInv'
    OBVIOUS
  <2>1. CASE TenantsNext
    BY <2>1, PublishKeepsInv, StartKeepsInv, CrashKeepsInv, PollKeepsInv,
       ApplyKeepsInv, RequestKeepsInv, JobKeepsInv DEF TenantsNext
  <2>2. CASE UNCHANGED tenantVars
    <3>1. UNCHANGED <<published, up, keys, table, sync, fetched, recorded, cache,
                      request, job>>
      BY <2>2 DEF tenantVars, gateVars
    <3>2. table' \in Nat /\ table <= table'
      BY <3>1 DEF TenantIInv, TenantTypes
    <3>3. RequestInv' /\ JobInv' /\ MintedForOwner'
      BY <3>1, <3>2, GateStepKeepsReaders
    <3> QED
      BY <3>1, <3>3 DEF TenantIInv, TenantTypes, KeysNotOlder, NeverAhead, SyncInv, DownInv
  <2> QED
    BY <2>1, <2>2
<1> QED
  BY <1>1, <1>2, InvGivesTenantInv, PTL DEF TenantsSpec

=============================================================================
