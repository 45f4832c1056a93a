-------------------------- MODULE VolumeResizeProofs --------------------------
(***************************************************************************)
(* Proofs about the Volume Resize Orchestrator, for any number of volumes  *)
(* and calls, under the hypothesis that every parsable request is a whole  *)
(* number of GiB (the fractional case violates RecordBackedByFs, as the    *)
(* run volume_fractional shows).                                           *)
(***************************************************************************)
EXTENDS VolumeResize, TLAPS

\* Every size an Update asks for, once parsed, is a whole number of GiB.
WholeGiBRequests == \A r \in Requests \ {Unparsable} : r % 2 = 0

\* resize2fs grows a filesystem to its device, and devices only grow.
FsWithinDevice == \A p \in PVs : fs[p] <= device[p]

\* Where the loop is inside one volume: the device is resized before the
\* filesystem, the filesystem before the record.
StageInv ==
    /\ vpc \in {"device", "fs", "record"} => idx \in PVs
    /\ vpc \in {"fs", "record"} => device[idx] = newSize
    /\ vpc = "record" => fs[idx] = newSize

\* The volumes the loop has passed have the requested size.
LoopInv ==
    vpc \in {"check", "device", "fs", "record"} =>
        \A p \in 1..(idx - 1) : GiB(record[p]) = newSize /\ fs[p] >= newSize

\* The two halves of TypeOK: the volumes' sizes and the loop's control state.
TypeFns == device \in [PVs -> Nat] /\ fs \in [PVs -> Nat] /\ record \in [PVs -> Nat]

TypeCtl ==
    /\ vpc \in Labels
    /\ idx \in 1..(NumPVs + 1)
    /\ newQty \in Nat
    /\ calls \in 0..MaxCalls
    /\ ret \in {"nil", "err", NoValue}

\* The current request is a whole number of GiB.
EvenQty == newQty % 2 = 0

IInv ==
    /\ TypeOK
    /\ EvenQty
    /\ RecordBackedByFs
    /\ FsWithinDevice
    /\ StageInv
    /\ LoopInv

----------------------------------------------------------------------------

LEMMA InitIInv ==
    ASSUME WholeGiBRequests PROVE Init => IInv
BY VolumeAssumption
   DEF Init, IInv, TypeOK, Labels, RecordBackedByFs, FsWithinDevice, StageInv,
       LoopInv, GiB, PVs, EvenQty

LEMMA NextIInv ==
    ASSUME WholeGiBRequests PROVE IInv /\ [Next]_vars => IInv'
<1> USE DEF PVs
<1> SUFFICES ASSUME IInv, [Next]_vars PROVE IInv'
    OBVIOUS
<1>c. NumPVs \in Nat /\ MaxCalls \in Nat
    BY VolumeAssumption
<1> USE <1>c
<1>0. /\ TypeOK /\ EvenQty /\ RecordBackedByFs /\ FsWithinDevice
      /\ StageInv /\ LoopInv
    BY DEF IInv
<1>d. newSize \in Nat /\ newQty = 2 * newSize
    BY <1>0 DEF TypeOK, EvenQty, newSize, GiB
<1> USE <1>d
<1>1. CASE UpdateVolumes
    <2>0. PICK r \in Requests : newQty' = IF r = Unparsable THEN 0 ELSE r
        BY <1>1 DEF UpdateVolumes
    <2>1. newQty' \in Nat /\ EvenQty'
        BY <2>0, VolumeAssumption DEF WholeGiBRequests, EvenQty
    <2>2. /\ vpc' = "list" /\ calls' = calls + 1 /\ ret' = NoValue
          /\ calls < MaxCalls /\ UNCHANGED <<device, fs, record, idx>>
        BY <1>1 DEF UpdateVolumes
    <2>3. TypeOK'
        <3>1. TypeFns'
            BY <1>0, <2>2 DEF TypeOK, TypeFns
        <3>2. TypeCtl'
            BY <1>0, <2>1, <2>2 DEF TypeOK, TypeCtl, Labels
        <3>3. QED  BY <3>1, <3>2 DEF TypeOK, TypeFns, TypeCtl
    <2>4. RecordBackedByFs' /\ FsWithinDevice'
        BY <1>0, <2>2 DEF RecordBackedByFs, FsWithinDevice
    <2>5. StageInv' /\ LoopInv'
        BY <2>2 DEF StageInv, LoopInv
    <2>6. QED
        BY <2>1, <2>3, <2>4, <2>5 DEF IInv
<1>2. CASE ListPersistentVolumes
    <2>0. newSize' = newSize
        BY <1>2 DEF ListPersistentVolumes, Return, newSize
    <2>1. TypeOK'
        <3>1. TypeFns'
            BY <1>0, <1>2 DEF ListPersistentVolumes, Return, TypeOK, TypeFns
        <3>2. TypeCtl'
            BY <1>0, <1>2 DEF ListPersistentVolumes, Return, TypeOK, TypeCtl, Labels
        <3>3. QED
            BY <3>1, <3>2 DEF TypeOK, TypeFns, TypeCtl
    <2>2. EvenQty'
        BY <1>0, <2>0, <1>2 DEF ListPersistentVolumes, Return, EvenQty
    <2>3. RecordBackedByFs'
        BY <1>0, <2>0, <1>2 DEF ListPersistentVolumes, Return, RecordBackedByFs, TypeOK
    <2>4. FsWithinDevice'
        BY <1>0, <2>0, <1>2 DEF ListPersistentVolumes, Return, FsWithinDevice, TypeOK
    <2>5. StageInv'
        BY <1>0, <2>0, <1>2 DEF ListPersistentVolumes, Return, StageInv
    <2>6. LoopInv'
        BY <1>0, <2>0, <1>2 DEF ListPersistentVolumes, Return, LoopInv
    <2>7. QED
        BY <2>1, <2>2, <2>3, <2>4, <2>5, <2>6 DEF IInv
<1>3. CASE ConnectToEC2
    <2>0. newSize' = newSize
        BY <1>3 DEF ConnectToEC2, Return, newSize
    <2>1. TypeOK'
        <3>1. TypeFns'
            BY <1>0, <1>3 DEF ConnectToEC2, Return, TypeOK, TypeFns
        <3>2. TypeCtl'
            BY <1>0, <1>3 DEF ConnectToEC2, Return, TypeOK, TypeCtl, Labels
        <3>3. QED
            BY <3>1, <3>2 DEF TypeOK, TypeFns, TypeCtl
    <2>2. EvenQty'
        BY <1>0, <2>0, <1>3 DEF ConnectToEC2, Return, EvenQty
    <2>3. RecordBackedByFs'
        BY <1>0, <2>0, <1>3 DEF ConnectToEC2, Return, RecordBackedByFs, TypeOK
    <2>4. FsWithinDevice'
        BY <1>0, <2>0, <1>3 DEF ConnectToEC2, Return, FsWithinDevice, TypeOK
    <2>5. StageInv'
        BY <1>0, <2>0, <1>3 DEF ConnectToEC2, Return, StageInv
    <2>6. LoopInv'
        BY <1>0, <2>0, <1>3 DEF ConnectToEC2, Return, LoopInv
    <2>7. QED
        BY <2>1, <2>2, <2>3, <2>4, <2>5, <2>6 DEF IInv
<1>5. CASE ResizeVolumeFS
    <2>0. newSize' = newSize
        BY <1>5 DEF ResizeVolumeFS, Return, newSize
    <2>1. TypeOK'
        <3>1. TypeFns'
            BY <1>0, <1>5 DEF ResizeVolumeFS, Return, TypeOK, TypeFns
        <3>2. TypeCtl'
            BY <1>0, <1>5 DEF ResizeVolumeFS, Return, TypeOK, TypeCtl, Labels
        <3>3. QED
            BY <3>1, <3>2 DEF TypeOK, TypeFns, TypeCtl
    <2>2. EvenQty'
        BY <1>0, <2>0, <1>5 DEF ResizeVolumeFS, Return, EvenQty
    <2>a. /\ \/ fs' = fs
           \/ fs' = [fs EXCEPT ![idx] = device[idx]]
         /\ UNCHANGED <<device, record>>
        BY <1>5 DEF ResizeVolumeFS, Return
    <2>3. RecordBackedByFs'
        <3>1. CASE fs' = fs
            BY <1>0, <2>a, <3>1 DEF RecordBackedByFs
        <3>2. CASE fs' = [fs EXCEPT ![idx] = device[idx]]
            BY <1>0, <2>a, <3>2 DEF RecordBackedByFs, FsWithinDevice, TypeOK
        <3>3. QED
            BY <2>a, <3>1, <3>2
    <2>4. FsWithinDevice'
        <3>1. SUFFICES ASSUME NEW p \in PVs PROVE fs'[p] =< device'[p]
            BY DEF FsWithinDevice
        <3>2. CASE fs' = fs
            BY <1>0, <2>a, <3>2 DEF FsWithinDevice
        <3>3. CASE fs' = [fs EXCEPT ![idx] = device[idx]]
            <4>1. fs[p] =< device[p] /\ device[p] \in Nat
                BY <1>0 DEF FsWithinDevice, TypeOK, TypeFns
            <4>2. fs'[p] = IF p = idx THEN device[p] ELSE fs[p]
                BY <1>0, <3>3 DEF TypeOK, TypeFns
            <4>3. QED  BY <2>a, <4>1, <4>2
        <3>4. QED  BY <2>a, <3>2, <3>3
    <2>5. StageInv'
        BY <1>0, <2>0, <1>5 DEF ResizeVolumeFS, Return, StageInv, TypeOK
    <2>6. LoopInv'
        BY <1>0, <2>0, <1>5 DEF ResizeVolumeFS, Return, LoopInv, TypeOK
    <2>7. QED
        BY <2>1, <2>2, <2>3, <2>4, <2>5, <2>6 DEF IInv
<1>4. CASE ResizeVolume
    <2>0. newSize' = newSize
        BY <1>4 DEF ResizeVolume, Return, newSize
    <2>1. TypeOK'
        <3>1. TypeFns'
            BY <1>0, <1>4 DEF ResizeVolume, Return, TypeOK, TypeFns
        <3>2. TypeCtl'
            BY <1>0, <1>4 DEF ResizeVolume, Return, TypeOK, TypeCtl, Labels
        <3>3. QED
            BY <3>1, <3>2 DEF TypeOK, TypeFns, TypeCtl
    <2>2. EvenQty'
        BY <1>0, <2>0, <1>4 DEF ResizeVolume, Return, EvenQty
    <2>3. RecordBackedByFs'
        BY <1>0, <2>0, <1>4 DEF ResizeVolume, Return, RecordBackedByFs, TypeOK
    <2>4. FsWithinDevice'
        <3>1. fs' = fs
            BY <1>4 DEF ResizeVolume
        <3>2. CASE newSize >= device[idx] /\ device' = [device EXCEPT ![idx] = newSize]
            <4>1. \A p \in PVs : device'[p] >= device[p]
                BY <1>0, <1>d, <3>2 DEF TypeOK, TypeFns
            <4>2. device' \in [PVs -> Nat]
                BY <1>0, <1>d, <3>2 DEF TypeOK, TypeFns
            <4>3. SUFFICES ASSUME NEW p \in PVs PROVE fs'[p] =< device'[p]
                BY DEF FsWithinDevice
            <4>4. fs[p] =< device[p] /\ fs[p] \in Nat /\ device[p] \in Nat
                BY <1>0 DEF FsWithinDevice, TypeOK, TypeFns
            <4>5. device'[p] \in Nat /\ device'[p] >= device[p]
                BY <4>1, <4>2
            <4>6. QED  BY <3>1, <4>4, <4>5
        <3>3. CASE UNCHANGED device
            BY <1>0, <3>1, <3>3 DEF FsWithinDevice
        <3>4. QED  BY <1>4, <3>2, <3>3 DEF ResizeVolume, Return
    <2>5. StageInv'
        BY <1>0, <2>0, <1>4 DEF ResizeVolume, Return, StageInv, TypeOK
    <2>6. LoopInv'
        BY <1>0, <2>0, <1>4 DEF ResizeVolume, Return, LoopInv
    <2>7. QED
        BY <2>1, <2>2, <2>3, <2>4, <2>5, <2>6 DEF IInv
<1>6. CASE UpdatePersistentVolume
    <2>0. newSize' = newSize
        BY <1>6 DEF UpdatePersistentVolume, Return, newSize
    <2>1. TypeOK'
        <3>1. TypeFns'
            BY <1>0, <1>6 DEF UpdatePersistentVolume, Return, TypeOK, TypeFns
        <3>2. TypeCtl'
            <4>1. idx \in PVs
                BY <1>0, <1>6 DEF UpdatePersistentVolume, StageInv
            <4>2. CASE record' = [record EXCEPT ![idx] = newQty] /\ idx' = idx + 1
                       /\ vpc' = "check" /\ UNCHANGED <<newQty, calls, ret>>
                BY <1>0, <4>1, <4>2 DEF TypeOK, TypeCtl, Labels
            <4>3. CASE Return("err")
                BY <1>0, <4>3 DEF Return, TypeOK, TypeCtl, Labels
            <4>4. QED  BY <1>6, <4>2, <4>3 DEF UpdatePersistentVolume
        <3>3. QED
            BY <3>1, <3>2 DEF TypeOK, TypeFns, TypeCtl
    <2>2. EvenQty'
        BY <1>0, <2>0, <1>6 DEF UpdatePersistentVolume, Return, EvenQty
    <2>a. \/ (record' = [record EXCEPT ![idx] = newQty] /\ idx' = idx + 1
              /\ vpc' = "check")
          \/ (record' = record /\ vpc' = "idle")
        BY <1>6 DEF UpdatePersistentVolume, Return
    <2>b. /\ UNCHANGED <<device, fs, newQty>> /\ vpc = "record"
          /\ idx \in PVs /\ fs[idx] = newSize
        BY <1>0, <1>6 DEF UpdatePersistentVolume, Return, StageInv
    <2>c. GiB(newQty) = newSize
        BY DEF newSize
    <2>3. RecordBackedByFs'
        <3>1. CASE record' = record
            BY <1>0, <2>b, <3>1 DEF RecordBackedByFs
        <3>2. CASE record' = [record EXCEPT ![idx] = newQty]
            <4>1. newQty <= 2 * fs[idx]
                BY <2>b
            <4>2. QED
                BY <1>0, <2>b, <3>2, <4>1 DEF RecordBackedByFs, TypeOK
        <3>3. QED
            BY <2>a, <3>1, <3>2
    <2>4. FsWithinDevice'
        BY <1>0, <2>0, <1>6 DEF UpdatePersistentVolume, Return, FsWithinDevice, TypeOK
    <2>5. StageInv'
        BY <1>0, <2>0, <1>6 DEF UpdatePersistentVolume, Return, StageInv
    <2>6. LoopInv'
        <3>1. CASE record' = record /\ vpc' = "idle"
            BY <3>1 DEF LoopInv
        <3>2. CASE record' = [record EXCEPT ![idx] = newQty] /\ idx' = idx + 1
                   /\ vpc' = "check"
            <4>1. SUFFICES ASSUME NEW p \in 1..(idx' - 1)
                           PROVE  GiB(record'[p]) = newSize' /\ fs'[p] >= newSize'
                BY <3>2 DEF LoopInv
            <4>2. CASE p = idx
                <5>1. record'[p] = newQty
                    BY <1>0, <2>b, <3>2, <4>2 DEF TypeOK
                <5>2. QED  BY <2>0, <2>b, <2>c, <4>2, <5>1
            <4>3. CASE p # idx
                <5>1. p \in 1..(idx - 1) /\ record'[p] = record[p]
                    BY <1>0, <2>b, <3>2, <4>3 DEF TypeOK
                <5>2. GiB(record[p]) = newSize /\ fs[p] >= newSize
                    BY <1>0, <2>b, <5>1 DEF LoopInv
                <5>3. QED  BY <2>0, <2>b, <5>1, <5>2
            <4>4. QED  BY <4>2, <4>3
        <3>3. QED
            BY <2>a, <3>1, <3>2
    <2>7. QED
        BY <2>1, <2>2, <2>3, <2>4, <2>5, <2>6 DEF IInv
<1>7. CASE CheckVolume
    <2>0. newSize' = newSize
        BY <1>7 DEF CheckVolume, Return, newSize
    <2>e. EvenQty'
        BY <1>0, <1>7 DEF CheckVolume, Return, EvenQty
    <2>1. CASE idx > NumPVs
        BY <1>0, <1>7, <2>1
           DEF CheckVolume, Return, IInv, TypeOK, Labels, EvenQty,
               RecordBackedByFs, FsWithinDevice, StageInv, LoopInv
    <2>2. CASE idx <= NumPVs /\ GiB(record[idx]) = newSize
        <3>1. fs[idx] >= newSize
            BY <1>0, <2>2 DEF RecordBackedByFs, TypeOK, GiB
        <3>2. /\ idx' = idx + 1 /\ vpc' = "check" /\ vpc = "check"
              /\ UNCHANGED <<device, fs, record, newQty, calls, ret>>
            BY <1>0, <1>7, <2>2 DEF CheckVolume, TypeOK
        <3>3. TypeOK'
            BY <1>0, <2>2, <3>2 DEF TypeOK, Labels
        <3>4. (RecordBackedByFs /\ FsWithinDevice /\ StageInv)'
            BY <1>0, <3>2 DEF RecordBackedByFs, FsWithinDevice, StageInv
        <3>5. LoopInv'
            BY <1>0, <2>0, <2>2, <3>1, <3>2 DEF LoopInv, TypeOK
        <3>6. QED
            BY <2>e, <3>3, <3>4, <3>5 DEF IInv
    <2>3. CASE idx <= NumPVs /\ GiB(record[idx]) # newSize
        <3>1. /\ UNCHANGED <<device, fs, record, idx, newQty, calls>>
              /\ vpc = "check"
              /\ \/ vpc' = "idle" /\ ret' = "err"
                 \/ vpc' = "device" /\ ret' = ret
            BY <1>0, <1>7, <2>3 DEF CheckVolume, Return, TypeOK
        <3>2. TypeOK'
            BY <1>0, <3>1 DEF TypeOK, Labels
        <3>3. (RecordBackedByFs /\ FsWithinDevice)'
            BY <1>0, <3>1 DEF RecordBackedByFs, FsWithinDevice
        <3>4. StageInv'
            BY <1>0, <2>3, <3>1 DEF StageInv, TypeOK
        <3>5. LoopInv'
            BY <1>0, <2>0, <3>1 DEF LoopInv
        <3>6. QED
            BY <2>e, <3>2, <3>3, <3>4, <3>5 DEF IInv
    <2>4. QED
        BY <1>0, <2>1, <2>2, <2>3 DEF TypeOK
<1>8. CASE Finished \/ UNCHANGED vars
    BY <1>0, <1>8
       DEF Finished, vars, IInv, TypeOK, Labels, EvenQty, RecordBackedByFs,
           FsWithinDevice, StageInv, LoopInv, newSize
<1>9. QED
    BY <1>1, <1>2, <1>3, <1>4, <1>5, <1>6, <1>7, <1>8 DEF Next

(* For every number of volumes and calls, and whole-GiB requests, the PV   *)
(* record of no volume claims more than its filesystem holds, however the  *)
(* calls of updateVolumes fail part way (cluster.go:457-497).              *)
THEOREM RecordBackedInvariant ==
    ASSUME WholeGiBRequests PROVE Spec => []RecordBackedByFs
<1>1. Init => IInv
    BY InitIInv
<1>2. IInv /\ [Next]_vars => IInv'
    BY NextIInv
<1>3. IInv => RecordBackedByFs
    BY DEF IInv
<1>4. QED
    BY <1>1, <1>2, <1>3, PTL DEF Spec

\* A step that returns nil has the loop past the last volume.
LEMMA NextConverges ==
    ASSUME WholeGiBRequests
    PROVE IInv /\ [Next]_vars =>
            (vpc # "idle" /\ vpc' = "idle" /\ ret' = "nil" =>
               \A p \in PVs : GiB(record'[p]) = newSize /\ fs'[p] >= newSize)
<1> SUFFICES ASSUME IInv, [Next]_vars, vpc # "idle", vpc' = "idle",
                    ret' = "nil"
             PROVE \A p \in PVs : GiB(record'[p]) = newSize /\ fs'[p] >= newSize
    OBVIOUS
<1>c. NumPVs \in Nat
    BY VolumeAssumption
<1> USE <1>c DEF IInv, TypeOK, Labels, PVs
<1>1. CASE CheckVolume /\ idx > NumPVs
    BY <1>1 DEF CheckVolume, Return, LoopInv
<1>2. CASE CheckVolume /\ idx <= NumPVs
    BY <1>2 DEF CheckVolume, Return
<1>3. QED
    BY <1>1, <1>2
       DEF Next, vars, UpdateVolumes, ListPersistentVolumes, ConnectToEC2,
           ResizeVolume, ResizeVolumeFS, UpdatePersistentVolume, Return,
           Finished

(* For every number of volumes and calls, and whole-GiB requests, a call   *)
(* of updateVolumes that returns nil leaves every volume recorded at the   *)
(* requested size with a filesystem at least that large, even after        *)
(* earlier calls stopped half way (cluster.go:470-497).                    *)
THEOREM ResizeConvergesHolds ==
    ASSUME WholeGiBRequests PROVE Spec => ResizeConverges
<1>1. Init => IInv
    BY InitIInv
<1>2. IInv /\ [Next]_vars => IInv'
    BY NextIInv
<1>3. IInv /\ [Next]_vars =>
        [vpc # "idle" /\ vpc' = "idle" /\ ret' = "nil" =>
           \A p \in PVs : GiB(record'[p]) = newSize /\ fs'[p] >= newSize]_vars
    BY NextConverges
<1>4. QED
    BY <1>1, <1>2, <1>3, PTL DEF Spec, ResizeConverges

----------------------------------------------------------------------------
(* The inductive invariant and type correctness.                           *)

(* For whole-GiB requests, every reachable state satisfies the inductive   *)
(* invariant: the loop's stage, the volumes it has passed and the sizes of *)
(* device, filesystem and record agree as IInv says.                       *)
THEOREM IInvInvariant ==
    ASSUME WholeGiBRequests PROVE Spec => []IInv
BY InitIInv, NextIInv, PTL DEF Spec

\* TypeOK is not inductive by itself: UpdatePersistentVolume moves idx on,
\* which stays within 1..NumPVs + 1 only because the loop is inside a
\* volume there.  With that, and GiB of a natural number being one, it is,
\* whatever the requests.
InVolume == vpc \in {"device", "fs", "record"} => idx \in PVs

LEMMA InitTypeOK == Init => TypeOK /\ InVolume
<1> SUFFICES ASSUME Init PROVE TypeOK /\ InVolume
    OBVIOUS
<1>1. NumPVs \in Nat /\ InitQty \in Nat /\ MaxCalls \in Nat
    BY VolumeAssumption
<1>2. GiB(InitQty) \in Nat
    BY <1>1 DEF GiB
<1>3. QED  BY <1>1, <1>2 DEF Init, TypeOK, InVolume, PVs, Labels

LEMMA NextTypeOK == TypeOK /\ InVolume /\ [Next]_vars => TypeOK' /\ InVolume'
<1> SUFFICES ASSUME TypeOK, InVolume, [Next]_vars PROVE TypeOK' /\ InVolume'
    OBVIOUS
<1>c. NumPVs \in Nat /\ MaxCalls \in Nat
      /\ Requests \subseteq (Nat \cup {Unparsable}) /\ NoValue \notin Nat
    BY VolumeAssumption
<1> USE <1>c DEF TypeOK, InVolume, PVs, Labels
<1>0. newSize \in Nat
    BY DEF newSize, GiB
<1>1. CASE UpdateVolumes
    BY <1>1 DEF UpdateVolumes
<1>2. CASE ListPersistentVolumes \/ ConnectToEC2
    BY <1>2 DEF ListPersistentVolumes, ConnectToEC2, Return
<1>3. CASE CheckVolume
    <2>1. UNCHANGED <<device, fs, record>> /\ vpc = "check"
        BY <1>3 DEF CheckVolume
    <2>2. \/ vpc' = "idle" /\ ret' \in {"nil", "err"} /\ UNCHANGED <<idx, newQty, calls>>
          \/ idx <= NumPVs /\ idx' = idx + 1 /\ UNCHANGED <<vpc, newQty, calls, ret>>
          \/ idx <= NumPVs /\ vpc' = "device" /\ UNCHANGED <<idx, newQty, calls, ret>>
        BY <1>3 DEF CheckVolume, Return
    <2>3. TypeFns'
        BY <2>1 DEF TypeFns
    <2>4. TypeCtl' /\ InVolume'
        <3>1. CASE vpc' = "idle" /\ ret' \in {"nil", "err"} /\ UNCHANGED <<idx, newQty, calls>>
            BY <3>1 DEF TypeCtl
        <3>2. CASE idx <= NumPVs /\ idx' = idx + 1 /\ UNCHANGED <<vpc, newQty, calls, ret>>
            BY <2>1, <3>2 DEF TypeCtl
        <3>3. CASE idx <= NumPVs /\ vpc' = "device" /\ UNCHANGED <<idx, newQty, calls, ret>>
            BY <3>3 DEF TypeCtl
        <3>4. QED  BY <2>2, <3>1, <3>2, <3>3
    <2>5. QED  BY <2>3, <2>4 DEF TypeFns, TypeCtl
<1>4. CASE ResizeVolume
    BY <1>0, <1>4 DEF ResizeVolume, Return
<1>5. CASE ResizeVolumeFS
    BY <1>5 DEF ResizeVolumeFS, Return
<1>6. CASE UpdatePersistentVolume
    <2>1. UNCHANGED <<device, fs>> /\ vpc = "record" /\ idx \in PVs
        BY <1>6 DEF UpdatePersistentVolume
    <2>2. \/ /\ record' = [record EXCEPT ![idx] = newQty]
             /\ idx' = idx + 1 /\ vpc' = "check"
             /\ UNCHANGED <<newQty, calls, ret>>
          \/ vpc' = "idle" /\ ret' = "err" /\ UNCHANGED <<idx, newQty, calls, record>>
        BY <1>6 DEF UpdatePersistentVolume, Return
    <2>3. TypeFns'
        BY <2>1, <2>2 DEF TypeFns
    <2>4. TypeCtl' /\ InVolume'
        <3>1. CASE /\ record' = [record EXCEPT ![idx] = newQty]
                   /\ idx' = idx + 1 /\ vpc' = "check"
                   /\ UNCHANGED <<newQty, calls, ret>>
            BY <2>1, <3>1 DEF TypeCtl, Labels, InVolume
        <3>2. CASE vpc' = "idle" /\ ret' = "err" /\ UNCHANGED <<idx, newQty, calls, record>>
            BY <3>2 DEF TypeCtl, Labels, InVolume
        <3>3. QED  BY <2>2, <3>1, <3>2
    <2>5. QED  BY <2>3, <2>4 DEF TypeFns, TypeCtl
<1>7. CASE Finished \/ UNCHANGED vars
    BY <1>7 DEF Finished, vars
<1>8. QED
    BY <1>1, <1>2, <1>3, <1>4, <1>5, <1>6, <1>7 DEF Next

(* For any requests, fractional ones included, every reachable state is   *)
(* well typed; in particular the loop index stays within 1..NumPVs + 1.    *)
THEOREM TypeCorrect == Spec => []TypeOK
BY InitTypeOK, NextTypeOK, PTL DEF Spec

=============================================================================
