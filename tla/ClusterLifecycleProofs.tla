------------------------ MODULE ClusterLifecycleProofs ------------------------
(***************************************************************************)
(* Proofs about ClusterLifecycle for every Script and every set of         *)
(* specifications: the type invariant, and that a successful Update leaves *)
(* the live service and statefulset equal to the ones its specification    *)
(* generates (UpdateConverges).                                            *)
(***************************************************************************)
EXTENDS ClusterLifecycle, TLAPS

\* The callers are the positions of the script.
LEMMA CallersDomain == Callers = 1..Len(Script)
BY LifecycleAssumption DEF Callers

\* compareStatefulSetWith always yields a Boolean rollingUpdate flag.
LEMMA RollIsBoolean ==
    ASSUME NEW a, NEW b
    PROVE  Diff!CompareStatefulSet(a, b).rollingUpdate \in BOOLEAN
BY DEF Diff!CompareStatefulSet, Diff!EmptyResult

\* On statefulsets generated from specifications, a match of
\* compareStatefulSetWith means the two are equal.
LEMMA MatchMeansEqual ==
    ASSUME NEW s, NEW t,
           Diff!CompareStatefulSet(GenStatefulSet(s), GenStatefulSet(t)).match
    PROVE  GenStatefulSet(s) = GenStatefulSet(t)
<1> DEFINE a == GenStatefulSet(s)
           b == GenStatefulSet(t)
<1>1. Len(a.containers) = 1 /\ Len(b.containers) = 1
  BY DEF GenStatefulSet
<1>2. /\ a.replicas = b.replicas
      /\ ~Diff!FirstContainerDiffers(a, b)
      /\ ~Diff!ClaimsDiffer(a, b)
  <2>1. Len(a.containers) # 0
    BY <1>1
  <2>2. Diff!CompareStatefulSet(a, b).match =
          (/\ a.replicas = b.replicas
           /\ ~(\/ Len(a.containers) # Len(b.containers)
                \/ Diff!TemplateMetaDiffers(a, b)
                \/ Diff!FirstContainerDiffers(a, b))
           /\ ~(Diff!TemplateMetaDiffers(a, b) \/ Diff!ClaimsDiffer(a, b)))
    BY <2>1, Zenon DEF Diff!CompareStatefulSet
  <2>3. QED  BY <2>2, Zenon
<1>3. s.image = t.image
  BY <1>2 DEF Diff!FirstContainerDiffers, GenStatefulSet
<1>4. s.size = t.size
  <2>1. 1 \in 1..Len(a.claims) /\ a.claims[1].spec = s.size /\ b.claims[1].spec = t.size
    BY DEF GenStatefulSet
  <2>2. QED  BY <1>2, <2>1 DEF Diff!ClaimsDiffer
<1>5. s.replicas = t.replicas
  BY <1>2 DEF GenStatefulSet
<1>6. QED  BY <1>3, <1>4, <1>5 DEF GenStatefulSet

----------------------------------------------------------------------------
(* Type correctness.                                                       *)

\* Every generated object, and nil, is a value of its type.
LEMMA GenValues ==
    ASSUME NEW s \in Specs
    PROVE  /\ GenService(s) \in ServiceValues
           /\ GenStatefulSet(s) \in StatefulSetValues
           /\ PodTemplate(GenStatefulSet(s)) \in PodValues
           /\ s.size \in SizeValues
           /\ NoValue \in ServiceValues \cap StatefulSetValues \cap PodValues \cap SizeValues
           /\ {"nil", "err", NoValue} \subseteq RetValues
BY DEF ServiceValues, StatefulSetValues, PodValues, RetValues, SizeValues

\* The inductive invariant holds initially.
LEMMA InitIInv == Init => IInv
<1> SUFFICES ASSUME Init PROVE IInv
  OBVIOUS
<1>1. clusterSpec \in Specs
  BY DEF Init
<1>2. TypeOK
  <2>1. pc \in [Callers -> Labels] /\ arg \in [Callers -> Specs]
        /\ cmpRoll \in [Callers -> BOOLEAN] /\ ret \in [Callers -> RetValues]
    BY <1>1, GenValues DEF Init, Labels
  <2>2. QED  BY <1>1, <2>1, GenValues DEF Init, TypeOK
<1>3. LockInv /\ UpdateProgress
  BY DEF Init, LockInv, UpdateProgress, HoldingLabels, CreateLabels, UpdateLabels,
         DeleteLabels
<1>4. QED  BY <1>2, <1>3 DEF IInv

\* Every step preserves the inductive invariant.  Only the caller holding
\* c.mu changes an object, and while an Update caller holds it nobody else
\* is past Acquire, so what UpdateProgress records stays true.
LEMMA NextIInv == IInv /\ [Next]_vars => IInv'
<1> SUFFICES ASSUME IInv, [Next]_vars PROVE IInv'
  OBVIOUS
<1> USE LifecycleAssumption DEF IInv, TypeOK, HoldingLabels, CreateLabels,
                                UpdateLabels, DeleteLabels
<1>1. CASE UNCHANGED vars
  BY <1>1 DEF vars, LockInv, UpdateProgress
<1>2. CASE Terminated
  BY <1>2 DEF Terminated, vars, LockInv, UpdateProgress
<1>3. ASSUME NEW c \in Callers, Step(c) PROVE IInv'
  <2> DEFINE Fixed == UNCHANGED <<clusterSpec, dbAccessDisabled, crashed>>
  <2>0. /\ NoValue \notin Callers
        /\ arg[c] \in Specs /\ arg[c].size \in Nat
        /\ clusterSpec.size \in SizeValues /\ arg[c].size \in SizeValues
        /\ GenService(clusterSpec) \in ServiceValues
        /\ GenService(arg[c]) \in ServiceValues
        /\ GenStatefulSet(clusterSpec) \in StatefulSetValues
        /\ GenStatefulSet(arg[c]) \in StatefulSetValues
        /\ PodTemplate(GenStatefulSet(clusterSpec)) \in PodValues
        /\ PodTemplate(GenStatefulSet(arg[c])) \in PodValues
        /\ NoValue \in ServiceValues \cap StatefulSetValues \cap PodValues \cap SizeValues
    BY GenValues, CallersDomain
  <2> USE <2>0 DEF Goto, SetStatus, Return, Objects, Labels, Statuses, RetValues
  <2>1. CASE Invoke(c) /\ Fixed
    <3>1. TypeOK'
      <4>1. /\ pc' \in [Callers -> Labels] /\ lock' \in Callers \cup {NoValue}
            /\ ret' \in [Callers -> RetValues] /\ arg' \in [Callers -> Specs]
            /\ cmpRoll' \in [Callers -> BOOLEAN]
        BY <2>1 DEF Invoke
      <4>2. status' \in Statuses \cup {NoValue} /\ persisted' \in Statuses \cup {NoValue}
        BY <2>1 DEF Invoke
      <4>3. /\ clusterSpec' \in Specs /\ dbAccessDisabled' \in BOOLEAN /\ crashed' \in BOOLEAN
            /\ endpoint' \in BOOLEAN /\ secrets' \in BOOLEAN /\ volume' \in SizeValues
        BY <2>1 DEF Invoke
      <4>4. service' \in ServiceValues /\ statefulset' \in StatefulSetValues /\ pods' \in PodValues
        BY <2>1 DEF Invoke
      <4>5. QED  BY <4>1, <4>2, <4>3, <4>4
    <3>2. LockInv'  BY <2>1 DEF Invoke, LockInv
    <3>3. UpdateProgress'  BY <2>1 DEF Invoke, UpdateProgress, LockInv
    <3>4. QED  BY <3>1, <3>2, <3>3 DEF IInv
  <2>2. CASE CreateBegin(c) /\ Fixed
    <3>1. TypeOK'
      <4>1. /\ pc' \in [Callers -> Labels] /\ lock' \in Callers \cup {NoValue}
            /\ ret' \in [Callers -> RetValues] /\ arg' \in [Callers -> Specs]
            /\ cmpRoll' \in [Callers -> BOOLEAN]
        BY <2>2 DEF CreateBegin, Acquire
      <4>2. status' \in Statuses \cup {NoValue} /\ persisted' \in Statuses \cup {NoValue}
        BY <2>2 DEF CreateBegin, Acquire
      <4>3. /\ clusterSpec' \in Specs /\ dbAccessDisabled' \in BOOLEAN /\ crashed' \in BOOLEAN
            /\ endpoint' \in BOOLEAN /\ secrets' \in BOOLEAN /\ volume' \in SizeValues
        BY <2>2 DEF CreateBegin, Acquire
      <4>4. service' \in ServiceValues /\ statefulset' \in StatefulSetValues /\ pods' \in PodValues
        BY <2>2 DEF CreateBegin, Acquire
      <4>5. QED  BY <4>1, <4>2, <4>3, <4>4
    <3>2. LockInv'  BY <2>2 DEF CreateBegin, Acquire, LockInv
    <3>3. UpdateProgress'  BY <2>2 DEF CreateBegin, Acquire, UpdateProgress, LockInv
    <3>4. QED  BY <3>1, <3>2, <3>3 DEF IInv
  <2>3. CASE CreateEndpoint(c) /\ Fixed
    <3>1. TypeOK'
      <4>1. /\ pc' \in [Callers -> Labels] /\ lock' \in Callers \cup {NoValue}
            /\ ret' \in [Callers -> RetValues] /\ arg' \in [Callers -> Specs]
            /\ cmpRoll' \in [Callers -> BOOLEAN]
        BY <2>3 DEF CreateEndpoint, CreateReturn
      <4>2. status' \in Statuses \cup {NoValue} /\ persisted' \in Statuses \cup {NoValue}
        BY <2>3 DEF CreateEndpoint, CreateReturn
      <4>3. /\ clusterSpec' \in Specs /\ dbAccessDisabled' \in BOOLEAN /\ crashed' \in BOOLEAN
            /\ endpoint' \in BOOLEAN /\ secrets' \in BOOLEAN /\ volume' \in SizeValues
        BY <2>3 DEF CreateEndpoint, CreateReturn
      <4>4. service' \in ServiceValues /\ statefulset' \in StatefulSetValues /\ pods' \in PodValues
        BY <2>3 DEF CreateEndpoint, CreateReturn
      <4>5. QED  BY <4>1, <4>2, <4>3, <4>4
    <3>2. LockInv'  BY <2>3 DEF CreateEndpoint, CreateReturn, LockInv
    <3>3. UpdateProgress'  BY <2>3 DEF CreateEndpoint, CreateReturn, UpdateProgress, LockInv
    <3>4. QED  BY <3>1, <3>2, <3>3 DEF IInv
  <2>4. CASE CreateService(c) /\ Fixed
    <3>1. TypeOK'
      <4>1. /\ pc' \in [Callers -> Labels] /\ lock' \in Callers \cup {NoValue}
            /\ ret' \in [Callers -> RetValues] /\ arg' \in [Callers -> Specs]
            /\ cmpRoll' \in [Callers -> BOOLEAN]
        BY <2>4 DEF CreateService, CreateReturn
      <4>2. status' \in Statuses \cup {NoValue} /\ persisted' \in Statuses \cup {NoValue}
        BY <2>4 DEF CreateService, CreateReturn
      <4>3. /\ clusterSpec' \in Specs /\ dbAccessDisabled' \in BOOLEAN /\ crashed' \in BOOLEAN
            /\ endpoint' \in BOOLEAN /\ secrets' \in BOOLEAN /\ volume' \in SizeValues
        BY <2>4 DEF CreateService, CreateReturn
      <4>4. service' \in ServiceValues /\ statefulset' \in StatefulSetValues /\ pods' \in PodValues
        BY <2>4 DEF CreateService, CreateReturn
      <4>5. QED  BY <4>1, <4>2, <4>3, <4>4
    <3>2. LockInv'  BY <2>4 DEF CreateService, CreateReturn, LockInv
    <3>3. UpdateProgress'  BY <2>4 DEF CreateService, CreateReturn, UpdateProgress, LockInv
    <3>4. QED  BY <3>1, <3>2, <3>3 DEF IInv
  <2>5. CASE CreateUsers(c) /\ Fixed
    <3>1. TypeOK'
      <4>1. /\ pc' \in [Callers -> Labels] /\ lock' \in Callers \cup {NoValue}
            /\ ret' \in [Callers -> RetValues] /\ arg' \in [Callers -> Specs]
            /\ cmpRoll' \in [Callers -> BOOLEAN]
        BY <2>5 DEF CreateUsers, CreateReturn
      <4>2. status' \in Statuses \cup {NoValue} /\ persisted' \in Statuses \cup {NoValue}
        BY <2>5 DEF CreateUsers, CreateReturn
      <4>3. /\ clusterSpec' \in Specs /\ dbAccessDisabled' \in BOOLEAN /\ crashed' \in BOOLEAN
            /\ endpoint' \in BOOLEAN /\ secrets' \in BOOLEAN /\ volume' \in SizeValues
        BY <2>5 DEF CreateUsers, CreateReturn
      <4>4. service' \in ServiceValues /\ statefulset' \in StatefulSetValues /\ pods' \in PodValues
        BY <2>5 DEF CreateUsers, CreateReturn
      <4>5. QED  BY <4>1, <4>2, <4>3, <4>4
    <3>2. LockInv'  BY <2>5 DEF CreateUsers, CreateReturn, LockInv
    <3>3. UpdateProgress'  BY <2>5 DEF CreateUsers, CreateReturn, UpdateProgress, LockInv
    <3>4. QED  BY <3>1, <3>2, <3>3 DEF IInv
  <2>6. CASE CreateSecrets(c) /\ Fixed
    <3>1. TypeOK'
      <4>1. /\ pc' \in [Callers -> Labels] /\ lock' \in Callers \cup {NoValue}
            /\ ret' \in [Callers -> RetValues] /\ arg' \in [Callers -> Specs]
            /\ cmpRoll' \in [Callers -> BOOLEAN]
        BY <2>6 DEF CreateSecrets, CreateReturn
      <4>2. status' \in Statuses \cup {NoValue} /\ persisted' \in Statuses \cup {NoValue}
        BY <2>6 DEF CreateSecrets, CreateReturn
      <4>3. /\ clusterSpec' \in Specs /\ dbAccessDisabled' \in BOOLEAN /\ crashed' \in BOOLEAN
            /\ endpoint' \in BOOLEAN /\ secrets' \in BOOLEAN /\ volume' \in SizeValues
        BY <2>6 DEF CreateSecrets, CreateReturn
      <4>4. service' \in ServiceValues /\ statefulset' \in StatefulSetValues /\ pods' \in PodValues
        BY <2>6 DEF CreateSecrets, CreateReturn
      <4>5. QED  BY <4>1, <4>2, <4>3, <4>4
    <3>2. LockInv'  BY <2>6 DEF CreateSecrets, CreateReturn, LockInv
    <3>3. UpdateProgress'  BY <2>6 DEF CreateSecrets, CreateReturn, UpdateProgress, LockInv
    <3>4. QED  BY <3>1, <3>2, <3>3 DEF IInv
  <2>7. CASE CreateStatefulSet(c) /\ Fixed
    <3>1. TypeOK'
      <4>1. /\ pc' \in [Callers -> Labels] /\ lock' \in Callers \cup {NoValue}
            /\ ret' \in [Callers -> RetValues] /\ arg' \in [Callers -> Specs]
            /\ cmpRoll' \in [Callers -> BOOLEAN]
        BY <2>7 DEF CreateStatefulSet, CreateReturn
      <4>2. status' \in Statuses \cup {NoValue} /\ persisted' \in Statuses \cup {NoValue}
        BY <2>7 DEF CreateStatefulSet, CreateReturn
      <4>3. /\ clusterSpec' \in Specs /\ dbAccessDisabled' \in BOOLEAN /\ crashed' \in BOOLEAN
            /\ endpoint' \in BOOLEAN /\ secrets' \in BOOLEAN /\ volume' \in SizeValues
        BY <2>7 DEF CreateStatefulSet, CreateReturn
      <4>4. service' \in ServiceValues /\ statefulset' \in StatefulSetValues /\ pods' \in PodValues
        BY <2>7 DEF CreateStatefulSet, CreateReturn
      <4>5. QED  BY <4>1, <4>2, <4>3, <4>4
    <3>2. LockInv'  BY <2>7 DEF CreateStatefulSet, CreateReturn, LockInv
    <3>3. UpdateProgress'  BY <2>7 DEF CreateStatefulSet, CreateReturn, UpdateProgress, LockInv
    <3>4. QED  BY <3>1, <3>2, <3>3 DEF IInv
  <2>8. CASE CreateWait(c) /\ Fixed
    <3>1. TypeOK'
      <4>1. /\ pc' \in [Callers -> Labels] /\ lock' \in Callers \cup {NoValue}
            /\ ret' \in [Callers -> RetValues] /\ arg' \in [Callers -> Specs]
            /\ cmpRoll' \in [Callers -> BOOLEAN]
        BY <2>8 DEF CreateWait, CreateReturn
      <4>2. status' \in Statuses \cup {NoValue} /\ persisted' \in Statuses \cup {NoValue}
        BY <2>8 DEF CreateWait, CreateReturn
      <4>3. /\ clusterSpec' \in Specs /\ dbAccessDisabled' \in BOOLEAN /\ crashed' \in BOOLEAN
            /\ endpoint' \in BOOLEAN /\ secrets' \in BOOLEAN /\ volume' \in SizeValues
        BY <2>8 DEF CreateWait, CreateReturn
      <4>4. service' \in ServiceValues /\ statefulset' \in StatefulSetValues /\ pods' \in PodValues
        BY <2>8 DEF CreateWait, CreateReturn
      <4>5. QED  BY <4>1, <4>2, <4>3, <4>4
    <3>2. LockInv'  BY <2>8 DEF CreateWait, CreateReturn, LockInv
    <3>3. UpdateProgress'  BY <2>8 DEF CreateWait, CreateReturn, UpdateProgress, LockInv
    <3>4. QED  BY <3>1, <3>2, <3>3 DEF IInv
  <2>9. CASE CreateDbConn(c) /\ Fixed
    <3>1. TypeOK'
      <4>1. /\ pc' \in [Callers -> Labels] /\ lock' \in Callers \cup {NoValue}
            /\ ret' \in [Callers -> RetValues] /\ arg' \in [Callers -> Specs]
            /\ cmpRoll' \in [Callers -> BOOLEAN]
        BY <2>9 DEF CreateDbConn, CreateReturn
      <4>2. status' \in Statuses \cup {NoValue} /\ persisted' \in Statuses \cup {NoValue}
        BY <2>9 DEF CreateDbConn, CreateReturn
      <4>3. /\ clusterSpec' \in Specs /\ dbAccessDisabled' \in BOOLEAN /\ crashed' \in BOOLEAN
            /\ endpoint' \in BOOLEAN /\ secrets' \in BOOLEAN /\ volume' \in SizeValues
        BY <2>9 DEF CreateDbConn, CreateReturn
      <4>4. service' \in ServiceValues /\ statefulset' \in StatefulSetValues /\ pods' \in PodValues
        BY <2>9 DEF CreateDbConn, CreateReturn
      <4>5. QED  BY <4>1, <4>2, <4>3, <4>4
    <3>2. LockInv'  BY <2>9 DEF CreateDbConn, CreateReturn, LockInv
    <3>3. UpdateProgress'  BY <2>9 DEF CreateDbConn, CreateReturn, UpdateProgress, LockInv
    <3>4. QED  BY <3>1, <3>2, <3>3 DEF IInv
  <2>10. CASE CreateRoles(c) /\ Fixed
    <3>1. TypeOK'
      <4>1. /\ pc' \in [Callers -> Labels] /\ lock' \in Callers \cup {NoValue}
            /\ ret' \in [Callers -> RetValues] /\ arg' \in [Callers -> Specs]
            /\ cmpRoll' \in [Callers -> BOOLEAN]
        BY <2>10 DEF CreateRoles, CreateReturn
      <4>2. status' \in Statuses \cup {NoValue} /\ persisted' \in Statuses \cup {NoValue}
        BY <2>10 DEF CreateRoles, CreateReturn
      <4>3. /\ clusterSpec' \in Specs /\ dbAccessDisabled' \in BOOLEAN /\ crashed' \in BOOLEAN
            /\ endpoint' \in BOOLEAN /\ secrets' \in BOOLEAN /\ volume' \in SizeValues
        BY <2>10 DEF CreateRoles, CreateReturn
      <4>4. service' \in ServiceValues /\ statefulset' \in StatefulSetValues /\ pods' \in PodValues
        BY <2>10 DEF CreateRoles, CreateReturn
      <4>5. QED  BY <4>1, <4>2, <4>3, <4>4
    <3>2. LockInv'  BY <2>10 DEF CreateRoles, CreateReturn, LockInv
    <3>3. UpdateProgress'  BY <2>10 DEF CreateRoles, CreateReturn, UpdateProgress, LockInv
    <3>4. QED  BY <3>1, <3>2, <3>3 DEF IInv
  <2>11. CASE CreateList(c) /\ Fixed
    <3>1. TypeOK'
      <4>1. /\ pc' \in [Callers -> Labels] /\ lock' \in Callers \cup {NoValue}
            /\ ret' \in [Callers -> RetValues] /\ arg' \in [Callers -> Specs]
            /\ cmpRoll' \in [Callers -> BOOLEAN]
        BY <2>11 DEF CreateList, CreateReturn
      <4>2. status' \in Statuses \cup {NoValue} /\ persisted' \in Statuses \cup {NoValue}
        BY <2>11 DEF CreateList, CreateReturn
      <4>3. /\ clusterSpec' \in Specs /\ dbAccessDisabled' \in BOOLEAN /\ crashed' \in BOOLEAN
            /\ endpoint' \in BOOLEAN /\ secrets' \in BOOLEAN /\ volume' \in SizeValues
        BY <2>11 DEF CreateList, CreateReturn
      <4>4. service' \in ServiceValues /\ statefulset' \in StatefulSetValues /\ pods' \in PodValues
        BY <2>11 DEF CreateList, CreateReturn
      <4>5. QED  BY <4>1, <4>2, <4>3, <4>4
    <3>2. LockInv'  BY <2>11 DEF CreateList, CreateReturn, LockInv
    <3>3. UpdateProgress'  BY <2>11 DEF CreateList, CreateReturn, UpdateProgress, LockInv
    <3>4. QED  BY <3>1, <3>2, <3>3 DEF IInv
  <2>12. CASE UpdateBegin(c) /\ Fixed
    <3>1. TypeOK'
      <4>1. /\ pc' \in [Callers -> Labels] /\ lock' \in Callers \cup {NoValue}
            /\ ret' \in [Callers -> RetValues] /\ arg' \in [Callers -> Specs]
            /\ cmpRoll' \in [Callers -> BOOLEAN]
        BY <2>12 DEF UpdateBegin, Acquire
      <4>2. status' \in Statuses \cup {NoValue} /\ persisted' \in Statuses \cup {NoValue}
        BY <2>12 DEF UpdateBegin, Acquire
      <4>3. /\ clusterSpec' \in Specs /\ dbAccessDisabled' \in BOOLEAN /\ crashed' \in BOOLEAN
            /\ endpoint' \in BOOLEAN /\ secrets' \in BOOLEAN /\ volume' \in SizeValues
        BY <2>12 DEF UpdateBegin, Acquire
      <4>4. service' \in ServiceValues /\ statefulset' \in StatefulSetValues /\ pods' \in PodValues
        BY <2>12 DEF UpdateBegin, Acquire
      <4>5. QED  BY <4>1, <4>2, <4>3, <4>4
    <3>2. LockInv'  BY <2>12 DEF UpdateBegin, Acquire, LockInv
    <3>3. UpdateProgress'  BY <2>12 DEF UpdateBegin, Acquire, UpdateProgress, LockInv
    <3>4. QED  BY <3>1, <3>2, <3>3 DEF IInv
  <2>13. CASE DeleteBegin(c) /\ Fixed
    <3>1. TypeOK'
      <4>1. /\ pc' \in [Callers -> Labels] /\ lock' \in Callers \cup {NoValue}
            /\ ret' \in [Callers -> RetValues] /\ arg' \in [Callers -> Specs]
            /\ cmpRoll' \in [Callers -> BOOLEAN]
        BY <2>13 DEF DeleteBegin, Acquire
      <4>2. status' \in Statuses \cup {NoValue} /\ persisted' \in Statuses \cup {NoValue}
        BY <2>13 DEF DeleteBegin, Acquire
      <4>3. /\ clusterSpec' \in Specs /\ dbAccessDisabled' \in BOOLEAN /\ crashed' \in BOOLEAN
            /\ endpoint' \in BOOLEAN /\ secrets' \in BOOLEAN /\ volume' \in SizeValues
        BY <2>13 DEF DeleteBegin, Acquire
      <4>4. service' \in ServiceValues /\ statefulset' \in StatefulSetValues /\ pods' \in PodValues
        BY <2>13 DEF DeleteBegin, Acquire
      <4>5. QED  BY <4>1, <4>2, <4>3, <4>4
    <3>2. LockInv'  BY <2>13 DEF DeleteBegin, Acquire, LockInv
    <3>3. UpdateProgress'  BY <2>13 DEF DeleteBegin, Acquire, UpdateProgress, LockInv
    <3>4. QED  BY <3>1, <3>2, <3>3 DEF IInv
  <2>14. CASE UpdateService(c)
    <3>1. TypeOK'
      <4>1. /\ pc' \in [Callers -> Labels] /\ lock' \in Callers \cup {NoValue}
            /\ ret' \in [Callers -> RetValues] /\ arg' \in [Callers -> Specs]
            /\ cmpRoll' \in [Callers -> BOOLEAN]
        BY <2>14 DEF UpdateService, Crash, UpdateFail, Diff!SameService
      <4>2. status' \in Statuses \cup {NoValue} /\ persisted' \in Statuses \cup {NoValue}
        BY <2>14 DEF UpdateService, Crash, UpdateFail, Diff!SameService
      <4>3. /\ clusterSpec' \in Specs /\ dbAccessDisabled' \in BOOLEAN /\ crashed' \in BOOLEAN
            /\ endpoint' \in BOOLEAN /\ secrets' \in BOOLEAN /\ volume' \in SizeValues
        BY <2>14 DEF UpdateService, Crash, UpdateFail, Diff!SameService
      <4>4. service' \in ServiceValues /\ statefulset' \in StatefulSetValues /\ pods' \in PodValues
        BY <2>14 DEF UpdateService, Crash, UpdateFail, Diff!SameService
      <4>5. QED  BY <4>1, <4>2, <4>3, <4>4
    <3>2. LockInv'  BY <2>14 DEF UpdateService, Crash, UpdateFail, Diff!SameService, LockInv
    <3>3. UpdateProgress'  BY <2>14 DEF UpdateService, Crash, UpdateFail, Diff!SameService, UpdateProgress, LockInv
    <3>4. QED  BY <3>1, <3>2, <3>3 DEF IInv
  <2>15. CASE UpdateVolume(c)
    <3>1. TypeOK'
      <4>1. /\ pc' \in [Callers -> Labels] /\ lock' \in Callers \cup {NoValue}
            /\ ret' \in [Callers -> RetValues] /\ arg' \in [Callers -> Specs]
            /\ cmpRoll' \in [Callers -> BOOLEAN]
        BY <2>15 DEF UpdateVolume, UpdateFailSilently, VolumesGrowTo
      <4>2. status' \in Statuses \cup {NoValue} /\ persisted' \in Statuses \cup {NoValue}
        BY <2>15 DEF UpdateVolume, UpdateFailSilently, VolumesGrowTo
      <4>3. /\ clusterSpec' \in Specs /\ dbAccessDisabled' \in BOOLEAN /\ crashed' \in BOOLEAN
            /\ endpoint' \in BOOLEAN /\ secrets' \in BOOLEAN /\ volume' \in SizeValues
        BY <2>15 DEF UpdateVolume, UpdateFailSilently, VolumesGrowTo
      <4>4. service' \in ServiceValues /\ statefulset' \in StatefulSetValues /\ pods' \in PodValues
        BY <2>15 DEF UpdateVolume, UpdateFailSilently, VolumesGrowTo
      <4>5. QED  BY <4>1, <4>2, <4>3, <4>4
    <3>2. LockInv'  BY <2>15 DEF UpdateVolume, UpdateFailSilently, VolumesGrowTo, LockInv
    <3>3. UpdateProgress'  BY <2>15 DEF UpdateVolume, UpdateFailSilently, VolumesGrowTo, UpdateProgress, LockInv
    <3>4. QED  BY <3>1, <3>2, <3>3 DEF IInv
  <2>16. CASE UpdateStatefulSet(c)
    <3>1. CASE UpdateFailSilently(c) /\ UNCHANGED <<statefulset, cmpRoll, crashed>>
      <4>1. TypeOK'  BY <3>1, <2>16 DEF UpdateStatefulSet, UpdateFailSilently
      <4>2. LockInv'  BY <3>1, <2>16 DEF UpdateStatefulSet, UpdateFailSilently, LockInv
      <4>3. UpdateProgress'
        BY <3>1, <2>16 DEF UpdateStatefulSet, UpdateFailSilently, UpdateProgress, LockInv
      <4>4. QED  BY <4>1, <4>2, <4>3 DEF IInv
    <3>2. CASE statefulset = NoValue /\ ~(UpdateFailSilently(c) /\ UNCHANGED <<statefulset, cmpRoll, crashed>>)
      <4>1. Crash(c)  BY <3>2, <2>16, Zenon DEF UpdateStatefulSet
      <4>2. TypeOK'  BY <4>1, <2>16 DEF UpdateStatefulSet, Crash
      <4>3. LockInv'  BY <4>1, <2>16 DEF UpdateStatefulSet, Crash, LockInv
      <4>4. UpdateProgress'  BY <4>1, <2>16 DEF UpdateStatefulSet, Crash, UpdateProgress, LockInv
      <4>5. QED  BY <4>2, <4>3, <4>4 DEF IInv
    <3>3. CASE statefulset # NoValue /\ ~(UpdateFailSilently(c) /\ UNCHANGED <<statefulset, cmpRoll, crashed>>)
      <4> DEFINE new == GenStatefulSet(arg[c])
                 cmp == Diff!CompareStatefulSet(statefulset, new)
      <4>1. PICK s \in Specs : statefulset = GenStatefulSet(s)
        BY <3>3 DEF StatefulSetValues
      <4>2. cmp.rollingUpdate \in BOOLEAN
        BY RollIsBoolean
      <4>3. cmp.match => statefulset = new
        BY <4>1, MatchMeansEqual
      <4>4. /\ pc[c] = "u_statefulset"
            /\ cmpRoll' = [cmpRoll EXCEPT ![c] = cmp.rollingUpdate]
            /\ \/ cmp.match /\ Goto(c, "u_roll")
                  /\ UNCHANGED <<lock, ret, status, persisted, statefulset>>
               \/ statefulset' = new /\ Goto(c, "u_roll")
                  /\ UNCHANGED <<lock, ret, status, persisted>>
               \/ UpdateFail(c) /\ UNCHANGED statefulset
            /\ UNCHANGED <<crashed, clusterSpec, dbAccessDisabled, arg, endpoint,
                           service, secrets, pods, volume>>
        BY <2>16, <3>3, Zenon DEF UpdateStatefulSet
      <4>5. TypeOK'
        <5>1. cmpRoll' \in [Callers -> BOOLEAN]  BY <4>2, <4>4
        <5>2. QED  BY <5>1, <4>4 DEF UpdateFail
      <4>6. LockInv'  BY <4>4 DEF UpdateFail, LockInv
      <4>7. UpdateProgress'  BY <4>3, <4>4 DEF UpdateFail, UpdateProgress, LockInv
      <4>8. QED  BY <4>5, <4>6, <4>7 DEF IInv
    <3>4. QED  BY <3>1, <3>2, <3>3
  <2>17. CASE UpdateRoll(c)
    <3>1. TypeOK'
      <4>1. /\ pc' \in [Callers -> Labels] /\ lock' \in Callers \cup {NoValue}
            /\ ret' \in [Callers -> RetValues] /\ arg' \in [Callers -> Specs]
            /\ cmpRoll' \in [Callers -> BOOLEAN]
        BY <2>17 DEF UpdateRoll, UpdateFail
      <4>2. status' \in Statuses \cup {NoValue} /\ persisted' \in Statuses \cup {NoValue}
        BY <2>17 DEF UpdateRoll, UpdateFail
      <4>3. /\ clusterSpec' \in Specs /\ dbAccessDisabled' \in BOOLEAN /\ crashed' \in BOOLEAN
            /\ endpoint' \in BOOLEAN /\ secrets' \in BOOLEAN /\ volume' \in SizeValues
        BY <2>17 DEF UpdateRoll, UpdateFail
      <4>4. service' \in ServiceValues /\ statefulset' \in StatefulSetValues /\ pods' \in PodValues
        BY <2>17 DEF UpdateRoll, UpdateFail, UpdateProgress
      <4>5. QED  BY <4>1, <4>2, <4>3, <4>4
    <3>2. LockInv'  BY <2>17 DEF UpdateRoll, UpdateFail, LockInv
    <3>3. UpdateProgress'  BY <2>17 DEF UpdateRoll, UpdateFail, UpdateProgress, LockInv
    <3>4. QED  BY <3>1, <3>2, <3>3 DEF IInv
  <2>18. CASE DeleteEndpoint(c)
    <3>1. TypeOK'
      <4>1. /\ pc' \in [Callers -> Labels] /\ lock' \in Callers \cup {NoValue}
            /\ ret' \in [Callers -> RetValues] /\ arg' \in [Callers -> Specs]
            /\ cmpRoll' \in [Callers -> BOOLEAN]
        BY <2>18 DEF DeleteEndpoint, DeleteStep
      <4>2. status' \in Statuses \cup {NoValue} /\ persisted' \in Statuses \cup {NoValue}
        BY <2>18 DEF DeleteEndpoint, DeleteStep
      <4>3. /\ clusterSpec' \in Specs /\ dbAccessDisabled' \in BOOLEAN /\ crashed' \in BOOLEAN
            /\ endpoint' \in BOOLEAN /\ secrets' \in BOOLEAN /\ volume' \in SizeValues
        BY <2>18 DEF DeleteEndpoint, DeleteStep
      <4>4. service' \in ServiceValues /\ statefulset' \in StatefulSetValues /\ pods' \in PodValues
        BY <2>18 DEF DeleteEndpoint, DeleteStep
      <4>5. QED  BY <4>1, <4>2, <4>3, <4>4
    <3>2. LockInv'  BY <2>18 DEF DeleteEndpoint, DeleteStep, LockInv
    <3>3. UpdateProgress'  BY <2>18 DEF DeleteEndpoint, DeleteStep, UpdateProgress, LockInv
    <3>4. QED  BY <3>1, <3>2, <3>3 DEF IInv
  <2>19. CASE DeleteService(c)
    <3>1. TypeOK'
      <4>1. /\ pc' \in [Callers -> Labels] /\ lock' \in Callers \cup {NoValue}
            /\ ret' \in [Callers -> RetValues] /\ arg' \in [Callers -> Specs]
            /\ cmpRoll' \in [Callers -> BOOLEAN]
        BY <2>19 DEF DeleteService, DeleteStep
      <4>2. status' \in Statuses \cup {NoValue} /\ persisted' \in Statuses \cup {NoValue}
        BY <2>19 DEF DeleteService, DeleteStep
      <4>3. /\ clusterSpec' \in Specs /\ dbAccessDisabled' \in BOOLEAN /\ crashed' \in BOOLEAN
            /\ endpoint' \in BOOLEAN /\ secrets' \in BOOLEAN /\ volume' \in SizeValues
        BY <2>19 DEF DeleteService, DeleteStep
      <4>4. service' \in ServiceValues /\ statefulset' \in StatefulSetValues /\ pods' \in PodValues
        BY <2>19 DEF DeleteService, DeleteStep
      <4>5. QED  BY <4>1, <4>2, <4>3, <4>4
    <3>2. LockInv'  BY <2>19 DEF DeleteService, DeleteStep, LockInv
    <3>3. UpdateProgress'  BY <2>19 DEF DeleteService, DeleteStep, UpdateProgress, LockInv
    <3>4. QED  BY <3>1, <3>2, <3>3 DEF IInv
  <2>20. CASE DeleteStatefulSet(c)
    <3>1. TypeOK'
      <4>1. /\ pc' \in [Callers -> Labels] /\ lock' \in Callers \cup {NoValue}
            /\ ret' \in [Callers -> RetValues] /\ arg' \in [Callers -> Specs]
            /\ cmpRoll' \in [Callers -> BOOLEAN]
        BY <2>20 DEF DeleteStatefulSet, DeleteStep
      <4>2. status' \in Statuses \cup {NoValue} /\ persisted' \in Statuses \cup {NoValue}
        BY <2>20 DEF DeleteStatefulSet, DeleteStep
      <4>3. /\ clusterSpec' \in Specs /\ dbAccessDisabled' \in BOOLEAN /\ crashed' \in BOOLEAN
            /\ endpoint' \in BOOLEAN /\ secrets' \in BOOLEAN /\ volume' \in SizeValues
        BY <2>20 DEF DeleteStatefulSet, DeleteStep
      <4>4. service' \in ServiceValues /\ statefulset' \in StatefulSetValues /\ pods' \in PodValues
        BY <2>20 DEF DeleteStatefulSet, DeleteStep
      <4>5. QED  BY <4>1, <4>2, <4>3, <4>4
    <3>2. LockInv'  BY <2>20 DEF DeleteStatefulSet, DeleteStep, LockInv
    <3>3. UpdateProgress'  BY <2>20 DEF DeleteStatefulSet, DeleteStep, UpdateProgress, LockInv
    <3>4. QED  BY <3>1, <3>2, <3>3 DEF IInv
  <2>21. CASE DeleteSecrets(c)
    <3>1. TypeOK'
      <4>1. /\ pc' \in [Callers -> Labels] /\ lock' \in Callers \cup {NoValue}
            /\ ret' \in [Callers -> RetValues] /\ arg' \in [Callers -> Specs]
            /\ cmpRoll' \in [Callers -> BOOLEAN]
        BY <2>21 DEF DeleteSecrets, DeleteStep
      <4>2. status' \in Statuses \cup {NoValue} /\ persisted' \in Statuses \cup {NoValue}
        BY <2>21 DEF DeleteSecrets, DeleteStep
      <4>3. /\ clusterSpec' \in Specs /\ dbAccessDisabled' \in BOOLEAN /\ crashed' \in BOOLEAN
            /\ endpoint' \in BOOLEAN /\ secrets' \in BOOLEAN /\ volume' \in SizeValues
        BY <2>21 DEF DeleteSecrets, DeleteStep
      <4>4. service' \in ServiceValues /\ statefulset' \in StatefulSetValues /\ pods' \in PodValues
        BY <2>21 DEF DeleteSecrets, DeleteStep
      <4>5. QED  BY <4>1, <4>2, <4>3, <4>4
    <3>2. LockInv'  BY <2>21 DEF DeleteSecrets, DeleteStep, LockInv
    <3>3. UpdateProgress'  BY <2>21 DEF DeleteSecrets, DeleteStep, UpdateProgress, LockInv
    <3>4. QED  BY <3>1, <3>2, <3>3 DEF IInv
  <2>22. QED
    BY <1>3, <2>1, <2>2, <2>3, <2>4, <2>5, <2>6, <2>7, <2>8, <2>9, <2>10, <2>11, <2>12, <2>13, <2>14, <2>15, <2>16, <2>17, <2>18, <2>19, <2>20, <2>21 DEF Step
<1>4. QED  BY <1>1, <1>2, <1>3 DEF Next

\* The inductive invariant holds in every reachable state.
THEOREM IInvInvariant == Spec => []IInv
BY InitIInv, NextIInv, PTL DEF Spec

----------------------------------------------------------------------------
(* UpdateConverges.                                                        *)

\* A step of the invariant satisfies ConvergeStep.  A step of another
\* caller leaves pc[c] alone, so only c's own step can return; of those
\* only UpdateRoll returns nil from an Update, and at u_roll
\* UpdateProgress says the service and the statefulset are already the
\* ones arg[c] generates.
LEMMA NextConverges == IInv /\ [Next]_vars => ConvergeStep
<1> SUFFICES ASSUME IInv, [Next]_vars, NEW c \in Callers,
                    Script[c] = "update", Returns(c, "nil")
             PROVE  service' = GenService(arg[c]) /\ statefulset' = GenStatefulSet(arg[c])
  BY DEF ConvergeStep
<1> USE DEF IInv, TypeOK, Goto, Return, SetStatus, Objects
<1>1. CASE UNCHANGED vars
  BY <1>1 DEF vars, Returns
<1>2. CASE Terminated
  BY <1>2 DEF Terminated, vars, Returns
<1>3. ASSUME NEW d \in Callers, Step(d)
      PROVE  service' = GenService(arg[c]) /\ statefulset' = GenStatefulSet(arg[c])
  <2>1. CASE d # c
    <3> SUFFICES pc'[c] = pc[c]  BY DEF Returns
    <3> USE <2>1
    <3>1. CASE Invoke(d)  BY <3>1 DEF Invoke
    <3>2. CASE CreateBegin(d)  BY <3>2 DEF CreateBegin, Acquire
    <3>3. CASE CreateEndpoint(d)  BY <3>3 DEF CreateEndpoint, CreateReturn
    <3>4. CASE CreateService(d)  BY <3>4 DEF CreateService, CreateReturn
    <3>5. CASE CreateUsers(d)  BY <3>5 DEF CreateUsers, CreateReturn
    <3>6. CASE CreateSecrets(d)  BY <3>6 DEF CreateSecrets, CreateReturn
    <3>7. CASE CreateStatefulSet(d)  BY <3>7 DEF CreateStatefulSet, CreateReturn
    <3>8. CASE CreateWait(d)  BY <3>8 DEF CreateWait, CreateReturn
    <3>9. CASE CreateDbConn(d)  BY <3>9 DEF CreateDbConn, CreateReturn
    <3>10. CASE CreateRoles(d)  BY <3>10 DEF CreateRoles, CreateReturn
    <3>11. CASE CreateList(d)  BY <3>11 DEF CreateList, CreateReturn
    <3>12. CASE UpdateBegin(d)  BY <3>12 DEF UpdateBegin, Acquire
    <3>13. CASE DeleteBegin(d)  BY <3>13 DEF DeleteBegin, Acquire
    <3>14. CASE UpdateService(d)  BY <3>14 DEF UpdateService, Crash, UpdateFail
    <3>15. CASE UpdateVolume(d)  BY <3>15 DEF UpdateVolume, UpdateFailSilently
    <3>16. CASE UpdateStatefulSet(d)  BY <3>16 DEF UpdateStatefulSet, UpdateFailSilently, Crash, UpdateFail
    <3>17. CASE UpdateRoll(d)  BY <3>17 DEF UpdateRoll, UpdateFail
    <3>18. CASE DeleteEndpoint(d)  BY <3>18 DEF DeleteEndpoint, DeleteStep
    <3>19. CASE DeleteService(d)  BY <3>19 DEF DeleteService, DeleteStep
    <3>20. CASE DeleteStatefulSet(d)  BY <3>20 DEF DeleteStatefulSet, DeleteStep
    <3>21. CASE DeleteSecrets(d)  BY <3>21 DEF DeleteSecrets, DeleteStep
    <3>22. QED  BY <1>3, <3>1, <3>2, <3>3, <3>4, <3>5, <3>6, <3>7, <3>8, <3>9, <3>10, <3>11, <3>12, <3>13, <3>14, <3>15, <3>16, <3>17, <3>18, <3>19, <3>20, <3>21 DEF Step
  <2>2. CASE d = c
    <3> SUFFICES ASSUME Step(c)
                 PROVE  service' = GenService(arg[c]) /\ statefulset' = GenStatefulSet(arg[c])
      BY <1>3, <2>2
    <3> USE DEF Returns
    <3>1. CASE Invoke(c)  BY <3>1 DEF Invoke
    <3>2. CASE CreateBegin(c)  BY <3>2 DEF CreateBegin, Acquire
    <3>3. CASE CreateEndpoint(c)  BY <3>3 DEF CreateEndpoint, CreateReturn, LockInv, CreateLabels
    <3>4. CASE CreateService(c)  BY <3>4 DEF CreateService, CreateReturn, LockInv, CreateLabels
    <3>5. CASE CreateUsers(c)  BY <3>5 DEF CreateUsers, CreateReturn, LockInv, CreateLabels
    <3>6. CASE CreateSecrets(c)  BY <3>6 DEF CreateSecrets, CreateReturn, LockInv, CreateLabels
    <3>7. CASE CreateStatefulSet(c)  BY <3>7 DEF CreateStatefulSet, CreateReturn, LockInv, CreateLabels
    <3>8. CASE CreateWait(c)  BY <3>8 DEF CreateWait, CreateReturn, LockInv, CreateLabels
    <3>9. CASE CreateDbConn(c)  BY <3>9 DEF CreateDbConn, CreateReturn, LockInv, CreateLabels
    <3>10. CASE CreateRoles(c)  BY <3>10 DEF CreateRoles, CreateReturn, LockInv, CreateLabels
    <3>11. CASE CreateList(c)  BY <3>11 DEF CreateList, CreateReturn, LockInv, CreateLabels
    <3>12. CASE UpdateBegin(c)  BY <3>12 DEF UpdateBegin, Acquire
    <3>13. CASE DeleteBegin(c)  BY <3>13 DEF DeleteBegin, Acquire
    <3>14. CASE UpdateService(c)  BY <3>14 DEF UpdateService, Crash, UpdateFail
    <3>15. CASE UpdateVolume(c)  BY <3>15 DEF UpdateVolume, UpdateFailSilently
    <3>16. CASE UpdateStatefulSet(c)  BY <3>16 DEF UpdateStatefulSet, UpdateFailSilently, Crash, UpdateFail
    <3>17. CASE UpdateRoll(c)  BY <3>17 DEF UpdateRoll, UpdateFail, UpdateProgress
    <3>18. CASE DeleteEndpoint(c)  BY <3>18 DEF DeleteEndpoint, DeleteStep, LockInv, DeleteLabels
    <3>19. CASE DeleteService(c)  BY <3>19 DEF DeleteService, DeleteStep, LockInv, DeleteLabels
    <3>20. CASE DeleteStatefulSet(c)  BY <3>20 DEF DeleteStatefulSet, DeleteStep, LockInv, DeleteLabels
    <3>21. CASE DeleteSecrets(c)  BY <3>21 DEF DeleteSecrets, DeleteStep, LockInv, DeleteLabels
    <3>22. QED  BY <3>1, <3>2, <3>3, <3>4, <3>5, <3>6, <3>7, <3>8, <3>9, <3>10, <3>11, <3>12, <3>13, <3>14, <3>15, <3>16, <3>17, <3>18, <3>19, <3>20, <3>21 DEF Step
  <2>3. QED  BY <2>1, <2>2
<1>4. QED  BY <1>1, <1>2, <1>3 DEF Next

(* The type invariant holds in every reachable state. *)
THEOREM TypeCorrect == Spec => []TypeOK
BY IInvInvariant, PTL DEF IInv

(* A successful Update leaves the live service and statefulset equal to    *)
(* the ones its new specification generates, for every script of events   *)
(* and every set of specifications.                                       *)
THEOREM UpdateConvergesHolds == Spec => UpdateConverges
BY IInvInvariant, NextConverges, PTL DEF Spec, UpdateConverges

----------------------------------------------------------------------------
(* SecretsOutliveStatefulSet.                                              *)

\* The secrets invariant is not inductive alone: a Create between
\* applySecrets and createStatefulSet has the secrets already, and a
\* Delete between deleteStatefulSet and the secrets has no statefulset
\* left.  Each holds c.mu, so no other caller's step intervenes.
SecretsInv ==
    /\ SecretsOutliveStatefulSet
    /\ \A c \in Callers : pc[c] = "c_statefulset" => secrets
    /\ \A c \in Callers : pc[c] = "d_secrets" => statefulset = NoValue

\* A step that leaves the secrets and the statefulset alone and takes its
\* caller to neither watched label preserves SecretsInv; only the steps
\* that create the secrets, create or delete the statefulset, or delete the
\* secrets need an argument of their own.
LEMMA NextSecretsInv == IInv /\ SecretsInv /\ [Next]_vars => SecretsInv'
<1> SUFFICES ASSUME IInv, SecretsInv, [Next]_vars PROVE SecretsInv'
  OBVIOUS
<1> USE DEF SecretsInv, SecretsOutliveStatefulSet
<1>0. TypeOK /\ LockInv
  BY DEF IInv
<1>1. CASE UNCHANGED vars
  BY <1>1 DEF vars
<1>2. CASE Terminated
  BY <1>2 DEF Terminated, vars
<1>3. ASSUME NEW c \in Callers, Step(c) PROVE SecretsInv'
  <2> DEFINE Watched == {"c_statefulset", "d_secrets"}
             Others == \A d \in Callers \ {c} : pc'[d] = pc[d]
             Passive == /\ secrets' = secrets /\ statefulset' = statefulset
                        /\ pc'[c] \notin Watched
  <2> USE DEF Goto, Return, CreateReturn, UpdateFail, UpdateFailSilently,
              SetStatus, Objects
  <2>0. pc \in [Callers -> Labels]
    BY <1>0 DEF TypeOK
  \* Two callers at labels that hold c.mu are the same caller.
  <2>x. ASSUME NEW d \in Callers, pc[c] \in HoldingLabels, pc[d] \in HoldingLabels
        PROVE  d = c
    BY <1>0, <2>x DEF LockInv
  <2>p. ASSUME Others, Passive PROVE SecretsInv'
    BY <2>p
  <2>1. CASE Invoke(c) /\ UNCHANGED <<clusterSpec, dbAccessDisabled, crashed>>
    BY <2>0, <2>1, <2>p DEF Invoke
  <2>2. CASE \/ CreateBegin(c) \/ CreateEndpoint(c) \/ CreateService(c)
             \/ CreateUsers(c) \/ CreateWait(c) \/ CreateDbConn(c)
             \/ CreateRoles(c) \/ CreateList(c) \/ UpdateBegin(c) \/ DeleteBegin(c)
    <3>1. CASE CreateBegin(c) \/ UpdateBegin(c) \/ DeleteBegin(c)
      BY <2>0, <3>1, <2>p DEF CreateBegin, UpdateBegin, DeleteBegin, Acquire
    <3>2. CASE CreateEndpoint(c) \/ CreateService(c) \/ CreateUsers(c)
      BY <2>0, <3>2, <2>p DEF CreateEndpoint, CreateService, CreateUsers
    <3>3. CASE CreateWait(c) \/ CreateDbConn(c) \/ CreateRoles(c) \/ CreateList(c)
      BY <2>0, <3>3, <2>p DEF CreateWait, CreateDbConn, CreateRoles, CreateList
    <3>4. QED  BY <2>2, <3>1, <3>2, <3>3
  <2>3. CASE CreateSecrets(c)
    BY <2>0, <2>3 DEF CreateSecrets
  \* The statefulset is created by the caller at c_statefulset, where the
  \* secrets exist; no Delete is at d_secrets meanwhile, c holding c.mu.
  <2>4. CASE CreateStatefulSet(c)
    <3>1. pc[c] = "c_statefulset" /\ secrets
      BY <2>4 DEF CreateStatefulSet
    <3>2. \A d \in Callers : pc[d] # "d_secrets"
      BY <3>1, <2>x DEF HoldingLabels, CreateLabels, DeleteLabels
    <3>3. QED  BY <2>0, <2>4, <3>1, <3>2 DEF CreateStatefulSet
  <2>5. CASE UpdateService(c) \/ UpdateVolume(c) \/ UpdateRoll(c)
    BY <2>0, <2>5, <2>p DEF UpdateService, UpdateVolume, UpdateRoll, Crash
  \* Update replaces only a statefulset that exists, so the secrets do.
  <2>6. CASE UpdateStatefulSet(c)
    BY <2>0, <2>6 DEF UpdateStatefulSet, Crash
  <2>7. CASE DeleteEndpoint(c) \/ DeleteService(c)
    BY <2>0, <2>7, <2>p DEF DeleteEndpoint, DeleteService, DeleteStep
  <2>8. CASE DeleteStatefulSet(c)
    BY <2>0, <2>8 DEF DeleteStatefulSet, DeleteStep
  \* The secrets go once the statefulset has gone; no Create is at
  \* c_statefulset meanwhile, c holding c.mu.
  <2>9. CASE DeleteSecrets(c)
    <3>1. pc[c] = "d_secrets" /\ statefulset = NoValue
      BY <2>9 DEF DeleteSecrets, DeleteStep
    <3>2. \A d \in Callers : pc[d] # "c_statefulset"
      BY <3>1, <2>x DEF HoldingLabels, CreateLabels, DeleteLabels
    <3>3. QED  BY <2>0, <2>9, <3>1, <3>2 DEF DeleteSecrets, DeleteStep
  <2>10. QED
    BY <1>3, <2>1, <2>2, <2>3, <2>4, <2>5, <2>6, <2>7, <2>8, <2>9 DEF Step
<1>4. QED  BY <1>1, <1>2, <1>3 DEF Next

(* The statefulset never exists without the user secrets its pods read    *)
(* their credentials from, for every script of Create, Update and Delete   *)
(* events and however their calls race for c.mu.                          *)
THEOREM SecretsOutliveInvariant == Spec => []SecretsOutliveStatefulSet
<1>1. Init => SecretsInv
  BY DEF Init, SecretsInv, SecretsOutliveStatefulSet
<1>2. IInv /\ SecretsInv /\ [Next]_vars => IInv' /\ SecretsInv'
  BY NextIInv, NextSecretsInv
<1>3. QED
  BY <1>1, <1>2, InitIInv, PTL DEF Spec, SecretsInv

(* SecretsInv holds in every reachable state: besides the property itself, *)
(* a Create about to create the statefulset has applied its secrets, and a *)
(* Delete about to delete the secrets has deleted the statefulset.          *)
THEOREM SecretsInvInvariant == Spec => []SecretsInv
<1>1. Init => SecretsInv
  BY DEF Init, SecretsInv, SecretsOutliveStatefulSet
<1>2. IInv /\ SecretsInv /\ [Next]_vars => IInv' /\ SecretsInv'
  BY NextIInv, NextSecretsInv
<1>3. QED
  BY <1>1, <1>2, InitIInv, PTL DEF Spec

=============================================================================
