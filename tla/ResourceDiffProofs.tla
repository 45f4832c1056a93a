------------------------- MODULE ResourceDiffProofs -------------------------
(***************************************************************************)
(* Proofs about the Resource Differ.  The lemmas hold for every pair of    *)
(* statefulsets and of resource requirements; the theorems carry them to   *)
(* the invariants the run diff_core checks on its harness.                 *)
(***************************************************************************)
EXTENDS MC_ResourceDiff, SequenceTheorems, TLAPS

\* A volume claim template as compareStatefulSetWith reads it.
Claims(N, A, S) == Seq([name : N, annotations : A, spec : S])

(* Whenever compareStatefulSetWith decides against a replace for a         *)
(* current statefulset that has a container, the two lists of volume claim *)
(* templates are equal: every claim's name, annotations and spec compared  *)
(* equal, and so did their number.                                         *)
LEMMA ClaimsEqualUnlessReplace ==
    ASSUME NEW N, NEW A, NEW S, NEW c, NEW d,
           c.claims \in Claims(N, A, S), d.claims \in Claims(N, A, S),
           Len(c.containers) # 0,
           ~CompareStatefulSet(c, d).replace
    PROVE  c.claims = d.claims
<1>1. ~ClaimsDiffer(c, d)
    BY DEF CompareStatefulSet
<1>2. Len(c.claims) = Len(d.claims)
    BY <1>1 DEF ClaimsDiffer
<1>3. \A i \in 1..Len(c.claims) : c.claims[i] = d.claims[i]
    <2> SUFFICES ASSUME NEW i \in 1..Len(c.claims) PROVE c.claims[i] = d.claims[i]
        OBVIOUS
    <2>1. /\ c.claims[i].name = d.claims[i].name
          /\ c.claims[i].annotations = d.claims[i].annotations
          /\ c.claims[i].spec = d.claims[i].spec
        BY <1>1 DEF ClaimsDiffer
    <2>2. c.claims[i] \in [name : N, annotations : A, spec : S]
        BY ElementOfSeq DEF Claims
    <2>3. d.claims[i] \in [name : N, annotations : A, spec : S]
        BY <1>2, ElementOfSeq DEF Claims
    <2>4. c.claims[i] = [name |-> c.claims[i].name, annotations |-> c.claims[i].annotations,
                         spec |-> c.claims[i].spec]
        BY <2>2
    <2>5. d.claims[i] = [name |-> d.claims[i].name, annotations |-> d.claims[i].annotations,
                         spec |-> d.claims[i].spec]
        BY <2>3
    <2>6. QED  BY <2>1, <2>4, <2>5
<1>4. QED  BY <1>2, <1>3, SeqEqual DEF Claims

----------------------------------------------------------------------------
(* The harness.  Every statefulset it builds has claims drawn from         *)
(* ClaimDom, which is all the lemma above needs.                           *)

ClaimsTyped ==
    /\ cur.claims \in Seq(ClaimDom)
    /\ new.claims \in Seq(ClaimDom)

LEMMA ClaimsTypedInit == Init => ClaimsTyped
<1> SUFFICES ASSUME Init PROVE ClaimsTyped
    OBVIOUS
<1>1. [name |-> "pgdata", annotations |-> "none", spec |-> "1Gi"] \in ClaimDom
    BY DEF ClaimDom
<1>2. Base.claims \in Seq(ClaimDom)
    BY <1>1 DEF Base
<1>3. QED  BY <1>2 DEF Init, ClaimsTyped

LEMMA ClaimsTypedNext == ClaimsTyped /\ [Next]_vars => ClaimsTyped'
<1> SUFFICES ASSUME ClaimsTyped, [Next]_vars PROVE ClaimsTyped'
    OBVIOUS
<1>1. \A s \in StsDom : s.claims \in Seq(ClaimDom)
    <2>1. \A cl \in ClaimDom : <<cl>> \in Seq(ClaimDom)
        OBVIOUS
    <2>2. \A s \in StsDom : \E cl \in ClaimDom : s.claims = <<cl>>
        BY DEF StsDom
    <2>3. QED  BY <2>1, <2>2
<1>2. CASE EditCurrent
    BY <1>1, <1>2 DEF EditCurrent, ClaimsTyped
<1>3. CASE EditDesired
    <2>1. NewDom \subseteq StsDom
        BY DEF NewDom
    <2>2. QED  BY <1>1, <1>3, <2>1 DEF EditDesired, ClaimsTyped
<1>4. CASE UNCHANGED vars
    BY <1>4 DEF vars, ClaimsTyped
<1>5. QED  BY <1>2, <1>3, <1>4 DEF Next

(* The run's invariant for every behaviour of the harness: whenever        *)
(* compareStatefulSetWith keeps an in-place update, the claim templates of *)
(* the current and the generated statefulset are equal.                    *)
THEOREM ReplaceWhenClaimsDifferInvariant == Spec => []ReplaceWhenClaimsDiffer
<1>1. ClaimsTyped => ReplaceWhenClaimsDiffer
    <2> SUFFICES ASSUME ClaimsTyped, Len(cur.containers) > 0, ~Result.replace
                 PROVE  cur.claims = new.claims
        BY DEF ReplaceWhenClaimsDiffer
    <2>1. Len(cur.containers) # 0
        OBVIOUS
    <2>2. /\ cur.claims \in Claims({"pgdata", "other"}, {"none"}, {"1Gi", "2Gi"})
          /\ new.claims \in Claims({"pgdata", "other"}, {"none"}, {"1Gi", "2Gi"})
        BY DEF ClaimsTyped, ClaimDom, Claims
    <2>3. ~CompareStatefulSet(cur, new).replace
        BY DEF Result
    <2>4. QED
        BY <2>1, <2>2, <2>3, ClaimsEqualUnlessReplace
<1>2. QED  BY <1>1, ClaimsTypedInit, ClaimsTypedNext, PTL DEF Spec

----------------------------------------------------------------------------
(* Where compareResources departs from the design.                          *)

\* One side's keys, checked one-sidedly as compareResoucesAssumeFirstNotNil does.
OneSided(a, b) ==
    /\ \A k \in PresentKeys(a.requests) : a.requests[k] = LookupQty(b.requests, k)
    /\ \A k \in PresentKeys(a.limits) : a.limits[k] = LookupQty(b.limits, k)

(* When both requirements are set and both have at least one request,      *)
(* compareResources answers exactly as the design's equality does, for any *)
(* keys and quantities.  The disagreement diff_resources_spec shows (a     *)
(* change to the limits alone reported equal) needs a side without         *)
(* requests.                                                               *)
LEMMA CompareMatchesSpecWithRequests ==
    ASSUME NEW Q, NEW a \in Requirements(Q), NEW b \in Requirements(Q),
           a # Nil, b # Nil,
           PresentKeys(a.requests) # {}, PresentKeys(b.requests) # {}
    PROVE  CompareResources(a, b) = SpecResourcesEqual(a, b)
<1>1. CompareAssumeFirstNotNil(a, b) = OneSided(a, b)
      /\ CompareAssumeFirstNotNil(b, a) = OneSided(b, a)
    BY DEF CompareAssumeFirstNotNil, OneSided
<1>2. CompareResources(a, b) = (OneSided(a, b) /\ OneSided(b, a))
    BY <1>1 DEF CompareResources, OneSided
<1>3. \A m \in ResourceList(Q) : \A k \in PresentKeys(m) : LookupQty(m, k) = m[k]
    BY DEF ResourceList, PresentKeys, LookupQty
<1>4. (OneSided(a, b) /\ OneSided(b, a)) = SpecResourcesEqual(a, b)
    <2>1. a.requests \in ResourceList(Q) /\ a.limits \in ResourceList(Q)
          /\ b.requests \in ResourceList(Q) /\ b.limits \in ResourceList(Q)
        BY DEF Requirements
    <2>2. QED  BY <1>3, <2>1 DEF OneSided, SpecResourcesEqual
<1>5. QED  BY <1>2, <1>4

=============================================================================
