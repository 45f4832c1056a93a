---------------------------- MODULE ResourceDiff ----------------------------
(***************************************************************************)
(* The Resource Differ of pkg/cluster/cluster.go: the pure comparisons     *)
(* that decide how Update remediates a cluster.                            *)
(*                                                                         *)
(*   sameServiceWith        -> SameService                                 *)
(*   sameVolumeWith         -> SameVolume                                  *)
(*   compareStatefulSetWith -> CompareStatefulSet                          *)
(*   compareResources       -> CompareResources                            *)
(*                                                                         *)
(* Kubernetes objects are records holding only the fields the code reads.  *)
(* A resource map (requests or limits) is a function from Keys to a        *)
(* quantity or Absent; a Go map lookup of a missing key yields the zero    *)
(* Quantity, which LookupQty models.  The log messages ("reasons") are     *)
(* only logged by Update, so the model keeps the three flags.              *)
(***************************************************************************)
EXTENDS Naturals, FiniteSets, Sequences

CONSTANTS
    Keys,     \* resource names (cpu, memory)
    Absent,   \* a key missing from a ResourceList map
    Nil       \* a nil *ResourceRequirements pointer

ASSUME DiffAssumption ==
    /\ Absent \notin Nat
    /\ Nil \notin Nat

----------------------------------------------------------------------------
(* Resource requirements: v1.ResourceRequirements{Requests, Limits}.       *)

ResourceList(Q) == [Keys -> Q \cup {Absent}]

Requirements(Q) == [requests : ResourceList(Q), limits : ResourceList(Q)]

\* v := m[k] on a map: a missing key reads as the zero Quantity.
LookupQty(m, k) == IF m[k] = Absent THEN 0 ELSE m[k]

\* The keys present in a map, i.e. what `range` iterates over.
PresentKeys(m) == {k \in Keys : m[k] # Absent}

\* compareResoucesAssumeFirstNotNil(a, b): when b is nil or has no requests
\* only the emptiness of a's requests counts; otherwise every request and
\* every limit present in a must compare equal to b's entry for that key.
CompareAssumeFirstNotNil(a, b) ==
    IF b = Nil \/ PresentKeys(b.requests) = {}
    THEN PresentKeys(a.requests) = {}
    ELSE /\ \A k \in PresentKeys(a.requests) :
                a.requests[k] = LookupQty(b.requests, k)
         /\ \A k \in PresentKeys(a.limits) :
                a.limits[k] = LookupQty(b.limits, k)

\* compareResources(a, b): a against b when a is not nil, then, if still
\* equal and b is not nil, b against a.
CompareResources(a, b) ==
    LET first == IF a # Nil THEN CompareAssumeFirstNotNil(a, b) ELSE TRUE
    IN  IF first /\ b # Nil THEN CompareAssumeFirstNotNil(b, a) ELSE first

----------------------------------------------------------------------------
(* Service and volume.                                                     *)

\* sameServiceWith: only Spec.LoadBalancerSourceRanges is compared.
SameService(cur, new) == cur.ranges = new.ranges

\* sameVolumeWith: reflect.DeepEqual of the whole spec.Volume.
SameVolume(cur, new) == cur = new

----------------------------------------------------------------------------
(* Statefulset.  A statefulset is a record                                 *)
(*   [replicas, containers, serviceAccount, grace, labels, annotations,    *)
(*    claims]                                                              *)
(* where containers is a sequence of [image, ports, resources, env] and    *)
(* claims (Spec.VolumeClaimTemplates) a sequence of [name, annotations,    *)
(* spec].                                                                  *)

\* The result of compareStatefulSetWith with no field set: the value
\* returned at once when the current statefulset has no container.
EmptyResult == [match |-> FALSE, replace |-> FALSE, rollingUpdate |-> FALSE]

\* Fields of the pod template whose change needs a replace and a restart.
TemplateMetaDiffers(cur, new) ==
    \/ cur.serviceAccount # new.serviceAccount
    \/ cur.grace # new.grace
    \/ cur.labels # new.labels
    \/ cur.annotations # new.annotations

\* A seeded fault: the claim template loop without its Spec check.
ClaimsDifferNoSpec(cur, new) ==
    \/ Len(cur.claims) # Len(new.claims)
    \/ \E i \in 1..Len(cur.claims) :
          \/ cur.claims[i].name # new.claims[i].name
          \/ cur.claims[i].annotations # new.claims[i].annotations

\* The volume claim template checks: the count, then for every index of
\* the current list the name and, when the name is equal, the annotations
\* and the spec (a differing name `continue`s past the other two).  When
\* cur has more templates than new, the Go loop indexes new out of range
\* and panics; here the count check answers replace instead.  Every
\* statefulset of MC_ResourceDiff has one template, so the two agree on
\* all it checks.
ClaimsDiffer(cur, new) ==
    \/ Len(cur.claims) # Len(new.claims)
    \/ \E i \in 1..Len(cur.claims) :
          \/ cur.claims[i].name # new.claims[i].name
          \/ cur.claims[i].annotations # new.claims[i].annotations
          \/ cur.claims[i].spec # new.claims[i].spec

\* The checks on Containers[0] of both statefulsets.
FirstContainerDiffers(cur, new) ==
    LET c1 == cur.containers[1]
        c2 == new.containers[1]
    IN  \/ c1.image # c2.image
        \/ c1.ports # c2.ports
        \/ ~CompareResources(c1.resources, c2.resources)
        \/ c1.env # c2.env

\* compareStatefulSetWith(statefulSet) of the current c.Statefulset with a
\* newly generated one.  The flags only ever go from false to true, so
\* each is the disjunction of the checks that set it.
CompareStatefulSet(cur, new) ==
    IF Len(cur.containers) = 0
    THEN EmptyResult
    ELSE LET roll    == \/ Len(cur.containers) # Len(new.containers)
                        \/ TemplateMetaDiffers(cur, new)
                        \/ FirstContainerDiffers(cur, new)
             replace == TemplateMetaDiffers(cur, new) \/ ClaimsDiffer(cur, new)
         IN  [match         |-> cur.replicas = new.replicas /\ ~roll /\ ~replace,
              replace       |-> replace,
              rollingUpdate |-> roll]

=============================================================================
