--------------------------- MODULE ClusterLifecycle ---------------------------
(***************************************************************************)
(* The Cluster Lifecycle Driver of pkg/cluster/cluster.go: Create, Update  *)
(* and Delete of one Cluster, each run by an event-handler goroutine of    *)
(* the controller and serialized by the mutex c.mu, which every call holds *)
(* from its first line to its return (defer c.mu.Unlock()).                *)
(*                                                                         *)
(* The controller delivers the cluster's events in the order of Script     *)
(* (one "create", then updates, then possibly a "delete"); caller i        *)
(* handles Script[i].  A caller is issued after its predecessor, but the   *)
(* callers then race for c.mu, which grants it in no particular order.     *)
(*                                                                         *)
(* Each action is one call to the Kubernetes API (or to the database)      *)
(* made while holding the lock, with its success and its failure; the     *)
(* last action of a call also runs the deferred code (the status set by    *)
(* Create's deferred function, and the unlock).                            *)
(*                                                                         *)
(* The live objects are abstracted to what the comparisons read: the      *)
(* service to its source ranges, the statefulset to the record of          *)
(* ResourceDiff, the pods to the pod template they were created from and   *)
(* the persistent volumes to their size.  NoValue is a nil pointer.        *)
(***************************************************************************)
EXTENDS Naturals, Sequences

CONSTANTS
    Script,       \* the operations the controller invokes, in event order
    Specs,        \* the desired cluster specifications an Update may carry
    NoValue       \* nil

Callers == DOMAIN Script

Statuses == {"Creating", "Running", "Updating", "AddFailed", "UpdateFailed"}

ASSUME LifecycleAssumption ==
    /\ Script \in Seq({"create", "update", "delete"})
    /\ Len(Script) > 0
    /\ Script[1] = "create"
    /\ \A i \in 2..Len(Script) : Script[i] # "create"
    /\ Specs # {}
    /\ \A s \in Specs : s.size \in Nat
    /\ NoValue \notin Nat

Diff == INSTANCE ResourceDiff WITH Keys <- {"cpu"}, Absent <- NoValue, Nil <- NoValue

VARIABLES
    clusterSpec,       \* c.Spec: the specification the cluster was created with
    dbAccessDisabled,  \* c.databaseAccessDisabled(), from the operator config
    lock,              \* the caller holding c.mu, or NoValue
    pc,                \* where each caller is
    arg,               \* the newSpec of an Update caller
    cmpRoll,           \* cmp.rollingUpdate, kept from the statefulset step
    ret,               \* what each finished call returned: "nil" or "err"
    status,            \* c.Status
    persisted,         \* the status field of the Postgresql resource
    endpoint,          \* the endpoint exists
    service,           \* c.Service: its LoadBalancerSourceRanges, or NoValue
    secrets,           \* the user secrets exist
    statefulset,       \* c.Statefulset, or NoValue
    pods,              \* the pod template the running pods were created from
    volume,            \* the size of the persistent volumes, or NoValue
    crashed            \* the operator panicked

vars == <<clusterSpec, dbAccessDisabled, lock, pc, arg, cmpRoll, ret, status,
          persisted, endpoint, service, secrets, statefulset, pods, volume,
          crashed>>

----------------------------------------------------------------------------
(* The objects generated from a specification.                             *)

\* genService(allowedSourceRanges): the ranges the new service carries.
GenService(s) == s.ranges

\* genStatefulSet(spec): one Spilo container and one data volume claim;
\* the replica count, the image and the volume size come from the spec.
GenStatefulSet(s) ==
    [replicas       |-> s.replicas,
     containers     |-> <<[image     |-> s.image,
                           ports     |-> "5432",
                           resources |-> [requests |-> [k \in {"cpu"} |-> 1],
                                          limits   |-> [k \in {"cpu"} |-> 1]],
                           env       |-> "spilo"]>>,
     serviceAccount |-> "operator",
     grace          |-> 300,
     labels         |-> "spilo",
     annotations    |-> "none",
     claims         |-> <<[name |-> "pgdata", annotations |-> "none",
                           spec |-> s.size]>>]

\* Spec.Template of a statefulset: what its pods are created from.
PodTemplate(sts) ==
    [containers     |-> sts.containers,
     serviceAccount |-> sts.serviceAccount,
     grace          |-> sts.grace,
     labels         |-> sts.labels,
     annotations    |-> sts.annotations]

----------------------------------------------------------------------------
(* Helpers.                                                                *)

\* setStatus: c.Status is always assigned; the merge patch of the resource
\* may fail or find no resource, which is only logged.
SetStatus(st) == status' = st /\ persisted' \in {st, persisted}

Goto(c, l) == pc' = [pc EXCEPT ![c] = l]

\* The call returns r and the deferred c.mu.Unlock() runs.
Return(c, r) ==
    /\ Goto(c, "done")
    /\ ret' = [ret EXCEPT ![c] = r]
    /\ lock' = NoValue

\* Create's deferred function: Running when its local err is nil, AddFailed
\* otherwise, whatever Create returns.
CreateReturn(c, errSet, r) ==
    /\ SetStatus(IF errSet THEN "AddFailed" ELSE "Running")
    /\ Return(c, r)

\* An Update step that fails and records UpdateFailed before returning.
UpdateFail(c) == SetStatus("UpdateFailed") /\ Return(c, "err")

\* An Update step that returns its error without touching the status.
UpdateFailSilently(c) ==
    /\ Return(c, "err")
    /\ UNCHANGED <<status, persisted>>

Objects == <<endpoint, service, secrets, statefulset, pods, volume>>

----------------------------------------------------------------------------
(* The controller issues the event handlers in order.                      *)

Invoke(c) ==
    /\ pc[c] = "idle"
    /\ \A p \in 1..(c - 1) : pc[p] # "idle"
    /\ Goto(c, "waiting")
    /\ \E s \in Specs : arg' = [arg EXCEPT ![c] = s]
    /\ UNCHANGED <<lock, cmpRoll, ret, status, persisted, Objects>>

\* c.mu.Lock(): granted to any waiting caller when free.
Acquire(c, first) ==
    /\ pc[c] = "waiting"
    /\ lock = NoValue
    /\ lock' = c
    /\ Goto(c, first)

----------------------------------------------------------------------------
(* Create (cluster.go 166-238).                                           *)

CreateBegin(c) ==
    /\ Script[c] = "create"
    /\ Acquire(c, "c_endpoint")
    /\ SetStatus("Creating")
    /\ UNCHANGED <<arg, cmpRoll, ret, Objects>>

\* ep, err := c.createEndpoint()
CreateEndpoint(c) ==
    /\ pc[c] = "c_endpoint"
    /\ \/ /\ endpoint' = TRUE
          /\ Goto(c, "c_service")
          /\ UNCHANGED <<lock, ret, status, persisted>>
       \/ CreateReturn(c, TRUE, "err") /\ UNCHANGED endpoint
    /\ UNCHANGED <<arg, cmpRoll, service, secrets, statefulset, pods, volume>>

\* service, err := c.createService()
CreateService(c) ==
    /\ pc[c] = "c_service"
    /\ \/ /\ service' = GenService(clusterSpec)
          /\ Goto(c, "c_users")
          /\ UNCHANGED <<lock, ret, status, persisted>>
       \/ CreateReturn(c, TRUE, "err") /\ UNCHANGED service
    /\ UNCHANGED <<arg, cmpRoll, endpoint, secrets, statefulset, pods, volume>>

\* err = c.initUsers(): an invalid user name or flag set, or a failing
\* Teams API lookup, is an error.  The role map itself is RoleModel's.
CreateUsers(c) ==
    /\ pc[c] = "c_users"
    /\ \/ Goto(c, "c_secrets") /\ UNCHANGED <<lock, ret, status, persisted>>
       \/ CreateReturn(c, TRUE, "err")
    /\ UNCHANGED <<arg, cmpRoll, Objects>>

\* A seeded fault: the error of applySecrets ignored, Create going on
\* to the statefulset without the secrets.
CreateSecretsUnchecked(c) ==
    /\ pc[c] = "c_secrets"
    /\ \/ /\ secrets' = TRUE
          /\ Goto(c, "c_statefulset")
          /\ UNCHANGED <<lock, ret, status, persisted>>
       \/ Goto(c, "c_statefulset") /\ UNCHANGED <<lock, ret, status, persisted, secrets>>
    /\ UNCHANGED <<arg, cmpRoll, endpoint, service, statefulset, pods, volume>>

\* err = c.applySecrets()
CreateSecrets(c) ==
    /\ pc[c] = "c_secrets"
    /\ \/ /\ secrets' = TRUE
          /\ Goto(c, "c_statefulset")
          /\ UNCHANGED <<lock, ret, status, persisted>>
       \/ CreateReturn(c, TRUE, "err") /\ UNCHANGED secrets
    /\ UNCHANGED <<arg, cmpRoll, endpoint, service, statefulset, pods, volume>>

\* ss, err := c.createStatefulSet(); its pods and volumes follow from it.
CreateStatefulSet(c) ==
    /\ pc[c] = "c_statefulset"
    /\ \/ /\ statefulset' = GenStatefulSet(clusterSpec)
          /\ pods' = PodTemplate(GenStatefulSet(clusterSpec))
          /\ volume' = clusterSpec.size
          /\ Goto(c, "c_wait")
          /\ UNCHANGED <<lock, ret, status, persisted>>
       \/ CreateReturn(c, TRUE, "err") /\ UNCHANGED <<statefulset, pods, volume>>
    /\ UNCHANGED <<arg, cmpRoll, endpoint, service, secrets>>

\* err = c.waitStatefulsetPodsReady(); then the database steps are skipped
\* when c.masterLess (never set) or database access is disabled.
CreateWait(c) ==
    /\ pc[c] = "c_wait"
    /\ \/ /\ Goto(c, IF dbAccessDisabled THEN "c_list" ELSE "c_dbconn")
          /\ UNCHANGED <<lock, ret, status, persisted>>
       \/ CreateReturn(c, TRUE, "err")
    /\ UNCHANGED <<arg, cmpRoll, Objects>>

\* if err := c.initDbConn(); err != nil: this err shadows Create's err,
\* which is still nil from waitStatefulsetPodsReady when the deferred
\* function reads it.
CreateDbConn(c) ==
    /\ pc[c] = "c_dbconn"
    /\ \/ Goto(c, "c_roles") /\ UNCHANGED <<lock, ret, status, persisted>>
       \/ CreateReturn(c, FALSE, "err")
    /\ UNCHANGED <<arg, cmpRoll, Objects>>

\* err = c.createUsers()
CreateRoles(c) ==
    /\ pc[c] = "c_roles"
    /\ \/ Goto(c, "c_list") /\ UNCHANGED <<lock, ret, status, persisted>>
       \/ CreateReturn(c, TRUE, "err")
    /\ UNCHANGED <<arg, cmpRoll, Objects>>

\* err = c.ListResources(): a failure is only logged and Create returns
\* nil, but err is set when the deferred function reads it.
CreateList(c) ==
    /\ pc[c] = "c_list"
    /\ \E failed \in BOOLEAN : CreateReturn(c, failed, "nil")
    /\ UNCHANGED <<arg, cmpRoll, Objects>>

----------------------------------------------------------------------------
(* Update(newSpec) (cluster.go 383-451).                                  *)

UpdateBegin(c) ==
    /\ Script[c] = "update"
    /\ Acquire(c, "u_service")
    /\ SetStatus("Updating")
    /\ UNCHANGED <<arg, cmpRoll, ret, Objects>>

\* A nil c.Statefulset or c.Service is dereferenced: the operator panics.
Crash(c) ==
    /\ crashed' = TRUE
    /\ Goto(c, "crashed")
    /\ UNCHANGED <<lock, arg, cmpRoll, ret, status, persisted, Objects>>

\* A seeded fault: the service compared with the one c.Spec generates
\* instead of the live c.Service (as sameVolumeWith does for volumes).
UpdateServiceAgainstSpec(c) ==
    /\ pc[c] = "u_service"
    /\ \/ service = NoValue /\ Crash(c)
       \/ /\ service # NoValue
          /\ GenService(clusterSpec) = GenService(arg[c])
          /\ Goto(c, "u_volume")
          /\ UNCHANGED <<lock, ret, status, persisted, service, crashed>>
       \/ /\ service # NoValue
          /\ GenService(clusterSpec) # GenService(arg[c])
          /\ \/ /\ service' = GenService(arg[c])
                /\ Goto(c, "u_volume")
                /\ UNCHANGED <<lock, ret, status, persisted>>
             \/ UpdateFail(c) /\ UNCHANGED service
          /\ UNCHANGED crashed
    /\ UNCHANGED <<clusterSpec, dbAccessDisabled, arg, cmpRoll, endpoint,
                   secrets, statefulset, pods, volume>>

\* sameServiceWith(genService(newSpec.Spec.AllowedSourceRanges)); on a
\* mismatch updateService, which sets c.Service to the patched service.
UpdateService(c) ==
    /\ pc[c] = "u_service"
    /\ \/ service = NoValue /\ Crash(c)
       \/ /\ service # NoValue
          /\ Diff!SameService([ranges |-> service],
                              [ranges |-> GenService(arg[c])])
          /\ Goto(c, "u_volume")
          /\ UNCHANGED <<lock, ret, status, persisted, service, crashed>>
       \/ /\ service # NoValue
          /\ ~Diff!SameService([ranges |-> service],
                               [ranges |-> GenService(arg[c])])
          /\ \/ /\ service' = GenService(arg[c])
                /\ Goto(c, "u_volume")
                /\ UNCHANGED <<lock, ret, status, persisted>>
             \/ UpdateFail(c) /\ UNCHANGED service
          /\ UNCHANGED crashed
    /\ UNCHANGED <<clusterSpec, dbAccessDisabled, arg, cmpRoll, endpoint,
                   secrets, statefulset, pods, volume>>

\* The resize of updateVolumes can succeed: no volume exists yet, or the new
\* size is not smaller (an EBS volume cannot shrink).
VolumesGrowTo(n) == IF volume = NoValue THEN TRUE ELSE volume <= n

\* A seeded fault: the new size passed on in MiB rather than in GiB (the
\* unit updateVolumes converts to with its division by 1073741824).
UpdateVolumeInMiB(c) ==
    /\ pc[c] = "u_volume"
    /\ \/ /\ Diff!SameVolume(clusterSpec.size, arg[c].size)
          /\ Goto(c, "u_statefulset")
          /\ UNCHANGED <<lock, ret, status, persisted, volume>>
       \/ /\ ~Diff!SameVolume(clusterSpec.size, arg[c].size)
          /\ \/ /\ VolumesGrowTo(arg[c].size)
                /\ volume' = IF volume = NoValue THEN NoValue ELSE arg[c].size * 1024
                /\ Goto(c, "u_statefulset")
                /\ UNCHANGED <<lock, ret, status, persisted>>
             \/ UpdateFailSilently(c) /\ UNCHANGED volume
    /\ UNCHANGED <<clusterSpec, dbAccessDisabled, arg, cmpRoll, endpoint,
                   service, secrets, statefulset, pods, crashed>>

\* sameVolumeWith compares newSpec's volume with c.Spec.Volume, the spec
\* the cluster was created with.  updateVolumes grows the volumes (EBS
\* cannot shrink one); its error is returned without setting a status.
UpdateVolume(c) ==
    /\ pc[c] = "u_volume"
    /\ \/ /\ Diff!SameVolume(clusterSpec.size, arg[c].size)
          /\ Goto(c, "u_statefulset")
          /\ UNCHANGED <<lock, ret, status, persisted, volume>>
       \/ /\ ~Diff!SameVolume(clusterSpec.size, arg[c].size)
          /\ \/ /\ VolumesGrowTo(arg[c].size)
                /\ volume' = IF volume = NoValue THEN NoValue ELSE arg[c].size
                /\ Goto(c, "u_statefulset")
                /\ UNCHANGED <<lock, ret, status, persisted>>
             \/ UpdateFailSilently(c) /\ UNCHANGED volume
    /\ UNCHANGED <<clusterSpec, dbAccessDisabled, arg, cmpRoll, endpoint,
                   service, secrets, statefulset, pods, crashed>>

\* genStatefulSet (its error is returned without a status), then
\* compareStatefulSetWith; when not matching, updateStatefulSet or, when
\* cmp.replace, replaceStatefulSet, both leaving c.Statefulset the new
\* statefulset.  Replacing orphans the pods, which keep running.
UpdateStatefulSet(c) ==
    /\ pc[c] = "u_statefulset"
    /\ \/ UpdateFailSilently(c) /\ UNCHANGED <<statefulset, cmpRoll, crashed>>
       \/ statefulset = NoValue /\ Crash(c)
       \/ /\ statefulset # NoValue
          /\ LET cmp == Diff!CompareStatefulSet(statefulset, GenStatefulSet(arg[c]))
             IN  /\ cmpRoll' = [cmpRoll EXCEPT ![c] = cmp.rollingUpdate]
                 /\ \/ /\ cmp.match
                       /\ Goto(c, "u_roll")
                       /\ UNCHANGED <<lock, ret, status, persisted, statefulset>>
                    \/ /\ ~cmp.match
                       /\ \/ /\ statefulset' = GenStatefulSet(arg[c])
                             /\ Goto(c, "u_roll")
                             /\ UNCHANGED <<lock, ret, status, persisted>>
                          \/ UpdateFail(c) /\ UNCHANGED statefulset
          /\ UNCHANGED crashed
    /\ UNCHANGED <<clusterSpec, dbAccessDisabled, arg, endpoint, service,
                   secrets, pods, volume>>

\* The PgVersion check only logs a warning.  When cmp.rollingUpdate,
\* recreatePods recreates every pod from the current statefulset.  Then
\* the status is Running and Update returns nil.
UpdateRoll(c) ==
    /\ pc[c] = "u_roll"
    /\ \/ /\ ~cmpRoll[c]
          /\ SetStatus("Running") /\ Return(c, "nil")
          /\ UNCHANGED pods
       \/ /\ cmpRoll[c]
          /\ \/ /\ pods' = PodTemplate(statefulset)
                /\ SetStatus("Running") /\ Return(c, "nil")
             \/ UpdateFail(c) /\ UNCHANGED pods
    /\ UNCHANGED <<clusterSpec, dbAccessDisabled, arg, cmpRoll, endpoint,
                   service, secrets, statefulset, volume, crashed>>

----------------------------------------------------------------------------
(* Delete (cluster.go 536-559).  Deleting an object that is not there is  *)
(* an error; the first error aborts the remaining deletions.  No status.  *)

DeleteBegin(c) ==
    /\ Script[c] = "delete"
    /\ Acquire(c, "d_endpoint")
    /\ UNCHANGED <<arg, cmpRoll, ret, status, persisted, Objects>>

DeleteStep(c, at, next, exists, clear) ==
    /\ pc[c] = at
    /\ \/ /\ exists
          /\ clear
          /\ IF next = "done" THEN Return(c, "nil")
             ELSE Goto(c, next) /\ UNCHANGED <<lock, ret>>
       \/ Return(c, "err") /\ UNCHANGED Objects
    /\ UNCHANGED <<clusterSpec, dbAccessDisabled, arg, cmpRoll, status,
                   persisted, crashed>>

DeleteEndpoint(c) ==
    DeleteStep(c, "d_endpoint", "d_service", endpoint,
               endpoint' = FALSE /\ UNCHANGED <<service, secrets, statefulset, pods, volume>>)

DeleteService(c) ==
    DeleteStep(c, "d_service", "d_statefulset", service # NoValue,
               service' = NoValue /\ UNCHANGED <<endpoint, secrets, statefulset, pods, volume>>)

\* deleteStatefulSet removes the statefulset and its pods.
DeleteStatefulSet(c) ==
    DeleteStep(c, "d_statefulset", "d_secrets", statefulset # NoValue,
               /\ statefulset' = NoValue /\ pods' = NoValue
               /\ UNCHANGED <<endpoint, service, secrets, volume>>)

\* for _, obj := range c.Secrets { deleteSecret(obj) }: nothing to do when
\* there are none.
DeleteSecrets(c) ==
    DeleteStep(c, "d_secrets", "done", TRUE,
               secrets' = FALSE /\ UNCHANGED <<endpoint, service, statefulset, pods, volume>>)

----------------------------------------------------------------------------

Init ==
    /\ clusterSpec \in Specs
    /\ dbAccessDisabled \in BOOLEAN
    /\ lock = NoValue
    /\ pc = [c \in Callers |-> "idle"]
    /\ arg = [c \in Callers |-> clusterSpec]
    /\ cmpRoll = [c \in Callers |-> FALSE]
    /\ ret = [c \in Callers |-> NoValue]
    /\ status = NoValue
    /\ persisted = NoValue
    /\ endpoint = FALSE
    /\ service = NoValue
    /\ secrets = FALSE
    /\ statefulset = NoValue
    /\ pods = NoValue
    /\ volume = NoValue
    /\ crashed = FALSE

Step(c) ==
    \/ Invoke(c) /\ UNCHANGED <<clusterSpec, dbAccessDisabled, crashed>>
    \/ /\ \/ CreateBegin(c) \/ CreateEndpoint(c) \/ CreateService(c)
          \/ CreateUsers(c) \/ CreateSecrets(c) \/ CreateStatefulSet(c)
          \/ CreateWait(c) \/ CreateDbConn(c) \/ CreateRoles(c) \/ CreateList(c)
          \/ UpdateBegin(c) \/ DeleteBegin(c)
       /\ UNCHANGED <<clusterSpec, dbAccessDisabled, crashed>>
    \/ UpdateService(c) \/ UpdateVolume(c) \/ UpdateStatefulSet(c) \/ UpdateRoll(c)
    \/ DeleteEndpoint(c) \/ DeleteService(c) \/ DeleteStatefulSet(c) \/ DeleteSecrets(c)

\* Every handler has returned, or the operator is down: nothing more happens.
Terminated ==
    /\ crashed \/ \A c \in Callers : pc[c] = "done"
    /\ UNCHANGED vars

Next ==
    \/ ~crashed /\ \E c \in Callers : Step(c)
    \/ Terminated

Spec == Init /\ [][Next]_vars

----------------------------------------------------------------------------
(* Invariants and properties.                                              *)

Labels == {"idle", "waiting", "done", "crashed",
           "c_endpoint", "c_service", "c_users", "c_secrets", "c_statefulset",
           "c_wait", "c_dbconn", "c_roles", "c_list",
           "u_service", "u_volume", "u_statefulset", "u_roll",
           "d_endpoint", "d_service", "d_statefulset", "d_secrets"}

\* The values each live object can have: nil, or generated from a spec.
ServiceValues == {GenService(s) : s \in Specs} \cup {NoValue}
StatefulSetValues == {GenStatefulSet(s) : s \in Specs} \cup {NoValue}
PodValues == {PodTemplate(GenStatefulSet(s)) : s \in Specs} \cup {NoValue}
RetValues == {"nil", "err", NoValue}
SizeValues == {s.size : s \in Specs} \cup {NoValue}

TypeOK ==
    /\ clusterSpec \in Specs
    /\ dbAccessDisabled \in BOOLEAN
    /\ lock \in Callers \cup {NoValue}
    /\ pc \in [Callers -> Labels]
    /\ arg \in [Callers -> Specs]
    /\ cmpRoll \in [Callers -> BOOLEAN]
    /\ ret \in [Callers -> RetValues]
    /\ status \in Statuses \cup {NoValue}
    /\ persisted \in Statuses \cup {NoValue}
    /\ endpoint \in BOOLEAN
    /\ service \in ServiceValues
    /\ secrets \in BOOLEAN
    /\ statefulset \in StatefulSetValues
    /\ pods \in PodValues
    /\ volume \in SizeValues
    /\ crashed \in BOOLEAN

\* Caller c's call returns r in this step.
Returns(c, r) == pc[c] # "done" /\ pc'[c] = "done" /\ ret'[c] = r

(* A successful Update has brought the live service and statefulset to     *)
(* what the new specification generates, whatever earlier Updates did or   *)
(* failed to do: both are compared with the live objects c.Service and     *)
(* c.Statefulset, so a retry repairs what a failed Update left behind.     *)
ConvergeStep ==
    \A c \in Callers :
        Script[c] = "update" /\ Returns(c, "nil") =>
            /\ service' = GenService(arg[c])
            /\ statefulset' = GenStatefulSet(arg[c])

(* Every step of every behaviour satisfies ConvergeStep: no successful     *)
(* Update leaves a stale service or statefulset behind.                     *)
UpdateConverges == [][ConvergeStep]_vars

(* The pods of the statefulset never run without the user secrets they     *)
(* read their credentials from: Create applies the secrets before it       *)
(* creates the statefulset, and Delete removes the statefulset before the  *)
(* secrets.                                                                *)
SecretsOutliveStatefulSet == statefulset # NoValue => secrets

(* A successful Update applies the requested spec: every pod runs the pod  *)
(* template of the live statefulset (the rolling update has taken place),  *)
(* and the persistent volumes have the requested size.                     *)
UpdateAppliesSpec ==
    [][\A c \in Callers :
         Script[c] = "update" /\ Returns(c, "nil") =>
             /\ pods' = PodTemplate(statefulset')
             /\ volume # NoValue => volume' = arg[c].size]_vars

(* The deferred status of Create and Update records how the call ended: a  *)
(* Create that returns an error has set AddFailed and one that returns nil *)
(* Running, and an Update that returns an error has set UpdateFailed.      *)
StatusRecordsOutcome ==
    [][\A c \in Callers :
         /\ Script[c] = "create" /\ Returns(c, "err") => status' = "AddFailed"
         /\ Script[c] = "create" /\ Returns(c, "nil") => status' = "Running"
         /\ Script[c] = "update" /\ Returns(c, "err") => status' = "UpdateFailed"]_vars

(* No lifecycle call dereferences a nil c.Service or c.Statefulset.        *)
NoNilDereference == ~crashed

----------------------------------------------------------------------------
(* The inductive invariant behind UpdateConverges.                         *)

CreateLabels == {"c_endpoint", "c_service", "c_users", "c_secrets",
                 "c_statefulset", "c_wait", "c_dbconn", "c_roles", "c_list"}
UpdateLabels == {"u_service", "u_volume", "u_statefulset", "u_roll"}
DeleteLabels == {"d_endpoint", "d_service", "d_statefulset", "d_secrets"}

\* The labels of a caller that holds c.mu and is running its call.
HoldingLabels == CreateLabels \cup UpdateLabels \cup DeleteLabels

\* Only the caller that holds c.mu runs, and it runs its own operation.
LockInv ==
    \A c \in Callers :
        /\ pc[c] \in HoldingLabels => lock = c
        /\ pc[c] \in CreateLabels => Script[c] = "create"
        /\ pc[c] \in UpdateLabels => Script[c] = "update"
        /\ pc[c] \in DeleteLabels => Script[c] = "delete"

\* What an Update has achieved so far: the service is the new one once the
\* service step is passed, the statefulset once the statefulset step is.
UpdateProgress ==
    \A c \in Callers :
        /\ pc[c] \in {"u_volume", "u_statefulset", "u_roll"} =>
               service = GenService(arg[c])
        /\ pc[c] = "u_roll" => statefulset = GenStatefulSet(arg[c])

IInv == TypeOK /\ LockInv /\ UpdateProgress

=============================================================================
