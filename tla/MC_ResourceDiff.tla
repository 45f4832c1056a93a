--------------------------- MODULE MC_ResourceDiff ---------------------------
(***************************************************************************)
(* Model-checking harness for the Resource Differ.  The current            *)
(* statefulset cur and the generated one new start equal and drift one     *)
(* field at a time, so every pair of the small domain below is reached     *)
(* and every comparison is evaluated on it.                                *)
(***************************************************************************)
EXTENDS ResourceDiff, TLC

CONSTANTS Cpu, AbsentQty, NilRes

MCKeys == {Cpu}
MCQty == {0, 1}

VARIABLES cur, new
vars == <<cur, new>>

Reqs == Requirements(MCQty)

ContainerDom ==
    [image : {"img1", "img2"}, ports : {"5432"}, resources : Reqs, env : {"e"}]

ClaimDom == [name : {"pgdata", "other"}, annotations : {"none"}, spec : {"1Gi", "2Gi"}]

\* Statefulsets as genStatefulSet builds them (one container, one claim),
\* plus the current one with no container that compareStatefulSetWith
\* handles apart.
StsDom ==
    [replicas : {1, 2},
     containers : {<<>>} \cup {<<c>> : c \in ContainerDom},
     serviceAccount : {"operator"},
     grace : {300},
     labels : {"l1", "l2"},
     annotations : {"none"},
     claims : {<<cl>> : cl \in ClaimDom}]

\* A generated statefulset always has its container.
NewDom == {s \in StsDom : Len(s.containers) = 1}

Base == [replicas |-> 1,
         containers |-> <<[image |-> "img1", ports |-> "5432",
                           resources |-> [requests |-> [k \in MCKeys |-> 1],
                                          limits |-> [k \in MCKeys |-> 1]],
                           env |-> "e"]>>,
         serviceAccount |-> "operator", grace |-> 300, labels |-> "l1",
         annotations |-> "none",
         claims |-> <<[name |-> "pgdata", annotations |-> "none", spec |-> "1Gi"]>>]

\* Two statefulsets that differ in at most one top-level field.
OneEdit(s, t) == Cardinality({f \in DOMAIN s : s[f] # t[f]}) <= 1

Init == cur = Base /\ new = Base

EditCurrent == \E s \in StsDom : OneEdit(cur, s) /\ cur' = s /\ UNCHANGED new

EditDesired == \E s \in NewDom : OneEdit(new, s) /\ new' = s /\ UNCHANGED cur

Next == EditCurrent \/ EditDesired

Spec == Init /\ [][Next]_vars

----------------------------------------------------------------------------
Result == CompareStatefulSet(cur, new)

(* Kubernetes refuses an in-place change of a statefulset's volume claim   *)
(* templates, so whenever compareStatefulSetWith lets Update patch the     *)
(* statefulset in place (replace = false) the claim templates must be      *)
(* equal.  The current statefulset without container is the one case the  *)
(* code short-circuits on purpose.                                         *)
ReplaceWhenClaimsDiffer ==
    Len(cur.containers) > 0 /\ ~Result.replace => cur.claims = new.claims

(* Resource-requirement equality as the design states it: the quantities  *)
(* agree on every key present in either side's requests and on every key   *)
(* present in either side's limits.                                        *)
SpecResourcesEqual(a, b) ==
    /\ \A k \in PresentKeys(a.requests) \cup PresentKeys(b.requests) :
          LookupQty(a.requests, k) = LookupQty(b.requests, k)
    /\ \A k \in PresentKeys(a.limits) \cup PresentKeys(b.limits) :
          LookupQty(a.limits, k) = LookupQty(b.limits, k)

(* compareResources, used to decide a rolling update of the container's    *)
(* requests and limits, agrees with that definition.                       *)
ResourcesCompareAsSpecified ==
    Len(cur.containers) > 0 =>
        LET a == cur.containers[1].resources
            b == new.containers[1].resources
        IN  CompareResources(a, b) = SpecResourcesEqual(a, b)

=============================================================================
