----------------------------- MODULE VolumeResize -----------------------------
(***************************************************************************)
(* The Volume Resize Orchestrator of pkg/cluster/cluster.go: updateVolumes *)
(* and resizeVolumeFS, called by Update with the cluster's c.mu held, so   *)
(* one call runs at a time.  The model repeats the call, as successive     *)
(* Updates do after a failure.                                             *)
(*                                                                         *)
(* A persistent volume has three sizes: the EBS device (whole GiB), the    *)
(* ext4 filesystem on it (whole GiB, grown by resize2fs to fill the        *)
(* device) and the capacity in its PV record.  Quantities are counted in   *)
(* half GiB, so that a size like 1.5Gi can be requested; a size in GiB is  *)
(* the floor of half of it, as ScaledValue(0) / 1073741824 computes.       *)
(***************************************************************************)
EXTENDS Naturals

CONSTANTS
    NumPVs,       \* the persistent volumes, listed in the order 1..NumPVs
    InitQty,      \* the capacity every volume was created with (half GiB)
    Requests,     \* the sizes an Update may ask for (half GiB), or Unparsable
    Unparsable,   \* a size string resource.ParseQuantity rejects
    BadIds,       \* volumes whose AWS volume id is empty or malformed
    MaxCalls,     \* the number of updateVolumes calls explored
    NoValue

PVs == 1..NumPVs

ASSUME VolumeAssumption ==
    /\ NumPVs \in Nat
    /\ InitQty \in Nat /\ InitQty % 2 = 0
    /\ Requests \subseteq (Nat \cup {Unparsable})
    /\ Unparsable \notin Nat
    /\ BadIds \subseteq PVs
    /\ MaxCalls \in Nat
    /\ NoValue \notin Nat

VARIABLES
    device,    \* EBS volume size in GiB
    fs,        \* filesystem size in GiB
    record,    \* pv.Spec.Capacity[storage] in half GiB
    vpc,       \* where the current updateVolumes call is
    idx,       \* the volume the loop is at
    newQty,    \* newQuantity of the current call (half GiB)
    calls,     \* calls made so far
    ret        \* what the last call returned

vars == <<device, fs, record, vpc, idx, newQty, calls, ret>>

\* newQuantity.ScaledValue(0) / 1073741824: whole GiB, rounded down.
GiB(q) == q \div 2

newSize == GiB(newQty)

\* getAWSVolumeId fails when the PV's EBS volume id is empty or has no
\* "/vol-" in it.
AWSVolumeIdValid(p) == p \notin BadIds

\* The call returns r; the loop's local state is dropped.
Return(r) == vpc' = "idle" /\ ret' = r /\ UNCHANGED <<idx, newQty, calls>>

----------------------------------------------------------------------------
(* updateVolumes(newVolume).                                               *)

\* newQuantity, err := resource.ParseQuantity(newVolume.Size): the error is
\* dropped and the zero Quantity used.
UpdateVolumes ==
    /\ vpc = "idle"
    /\ calls < MaxCalls
    /\ \E r \in Requests : newQty' = IF r = Unparsable THEN 0 ELSE r
    /\ calls' = calls + 1
    /\ vpc' = "list"
    /\ ret' = NoValue
    /\ UNCHANGED <<device, fs, record, idx>>

\* pvs, err := c.listPersistentVolumes()
ListPersistentVolumes ==
    /\ vpc = "list"
    /\ \/ vpc' = "ec2" /\ UNCHANGED <<idx, newQty, calls, ret>>
       \/ Return("err")
    /\ UNCHANGED <<device, fs, record>>

\* (A loop that counts its volumes from zero.)
ConnectToEC2ZeroBased ==
    /\ vpc = "ec2"
    /\ \/ vpc' = "check" /\ idx' = 0 /\ UNCHANGED <<newQty, calls, ret>>
       \/ Return("err")
    /\ UNCHANGED <<device, fs, record>>

\* ec2, err := volumes.ConnectToEC2()
ConnectToEC2 ==
    /\ vpc = "ec2"
    /\ \/ vpc' = "check" /\ idx' = 1 /\ UNCHANGED <<newQty, calls, ret>>
       \/ Return("err")
    /\ UNCHANGED <<device, fs, record>>

\* (A loop that stops one volume early.)
CheckVolumeSkipsLast ==
    /\ vpc = "check"
    /\ IF idx >= NumPVs
       THEN Return("nil")
       ELSE IF GiB(record[idx]) = newSize
       THEN idx' = idx + 1 /\ UNCHANGED <<vpc, newQty, calls, ret>>
       ELSE IF ~AWSVolumeIdValid(idx)
       THEN Return("err")
       ELSE vpc' = "device" /\ UNCHANGED <<idx, newQty, calls, ret>>
    /\ UNCHANGED <<device, fs, record>>

\* The loop head: done after the last volume; a volume whose recorded
\* capacity has newSize whole GiB is skipped; otherwise getAWSVolumeId,
\* which fails on an empty or malformed id.
CheckVolume ==
    /\ vpc = "check"
    /\ IF idx > NumPVs
       THEN Return("nil")
       ELSE IF GiB(record[idx]) = newSize
       THEN idx' = idx + 1 /\ UNCHANGED <<vpc, newQty, calls, ret>>
       ELSE IF ~AWSVolumeIdValid(idx)
       THEN Return("err")
       ELSE vpc' = "device" /\ UNCHANGED <<idx, newQty, calls, ret>>
    /\ UNCHANGED <<device, fs, record>>

\* volumes.ResizeVolume(ec2, awsVolumeId, newSize): EBS cannot shrink a
\* volume, and the provider call itself may fail.
ResizeVolume ==
    /\ vpc = "device"
    /\ \/ /\ newSize >= device[idx]
          /\ device' = [device EXCEPT ![idx] = newSize]
          /\ vpc' = "fs"
          /\ UNCHANGED <<idx, newQty, calls, ret>>
       \/ Return("err") /\ UNCHANGED device
    /\ UNCHANGED <<fs, record>>

\* (The error of resizeVolumeFS dropped: the record is written anyway.)
ResizeVolumeFSUnchecked ==
    /\ vpc = "fs"
    /\ \/ fs' = [fs EXCEPT ![idx] = device[idx]]
       \/ UNCHANGED fs
    /\ vpc' = "record"
    /\ UNCHANGED <<idx, newQty, calls, ret, device, record>>

\* c.resizeVolumeFS(podName): resize2fs grows the filesystem to the device.
\* The command may fail before doing anything, or do its work and print
\* an output neither success pattern recognises, which is an error too.
ResizeVolumeFS ==
    /\ vpc = "fs"
    /\ \/ /\ fs' = [fs EXCEPT ![idx] = device[idx]]
          /\ vpc' = "record"
          /\ UNCHANGED <<idx, newQty, calls, ret>>
       \/ Return("err") /\ UNCHANGED fs
       \/ Return("err") /\ fs' = [fs EXCEPT ![idx] = device[idx]]
    /\ UNCHANGED <<device, record>>

\* pv.Spec.Capacity[storage] = newQuantity, then PersistentVolumes().Update.
UpdatePersistentVolume ==
    /\ vpc = "record"
    /\ \/ /\ record' = [record EXCEPT ![idx] = newQty]
          /\ idx' = idx + 1
          /\ vpc' = "check"
          /\ UNCHANGED <<newQty, calls, ret>>
       \/ Return("err") /\ UNCHANGED record
    /\ UNCHANGED <<device, fs>>

----------------------------------------------------------------------------

Init ==
    /\ record = [p \in PVs |-> InitQty]
    /\ device = [p \in PVs |-> GiB(InitQty)]
    /\ fs = [p \in PVs |-> GiB(InitQty)]
    /\ vpc = "idle"
    /\ idx = 1
    /\ newQty = InitQty
    /\ calls = 0
    /\ ret = NoValue

\* No more calls: the Updates are over.
Finished == vpc = "idle" /\ calls = MaxCalls /\ UNCHANGED vars

Next ==
    \/ UpdateVolumes \/ ListPersistentVolumes \/ ConnectToEC2 \/ CheckVolume
    \/ ResizeVolume \/ ResizeVolumeFS \/ UpdatePersistentVolume
    \/ Finished

Spec == Init /\ [][Next]_vars

----------------------------------------------------------------------------
(* Properties.                                                             *)

Labels == {"idle", "list", "ec2", "check", "device", "fs", "record"}

TypeOK ==
    /\ device \in [PVs -> Nat]
    /\ fs \in [PVs -> Nat]
    /\ record \in [PVs -> Nat]
    /\ vpc \in Labels
    /\ idx \in 1..(NumPVs + 1)
    /\ newQty \in Nat
    /\ calls \in 0..MaxCalls
    /\ ret \in {"nil", "err", NoValue}

(* The PV record never claims more capacity than the filesystem of the     *)
(* volume provides: updateVolumes writes the record only after the device  *)
(* and then the filesystem have grown, and a failure at any step (with no  *)
(* rollback of the volumes already done) leaves the record as it was.     *)
RecordBackedByFs == \A p \in PVs : record[p] <= 2 * fs[p]

(* A call of updateVolumes that returns nil has brought every volume's     *)
(* record to the requested whole-GiB size, whatever earlier calls left     *)
(* half done.                                                              *)
ResizeConverges ==
    [][vpc # "idle" /\ vpc' = "idle" /\ ret' = "nil" =>
         \A p \in PVs : GiB(record'[p]) = newSize /\ fs'[p] >= newSize]_vars

=============================================================================
