------------------------ MODULE MC_ClusterLifecycle ------------------------
(***************************************************************************)
(* A cluster created, updated twice and deleted.  The specifications are   *)
(* SpecA, SpecB, which changes the service's source ranges, the volume     *)
(* size and the image (a rolling-update field), and SpecC, which only      *)
(* grows the volume.  The two Updates can ask for a change and then for    *)
(* its undoing, or retry the same change after a failure.                  *)
(***************************************************************************)
EXTENDS ClusterLifecycleProofs, TLC

CONSTANT Nil

MCScript == <<"create", "update", "update", "delete">>

SpecA == [ranges |-> "r1", size |-> 1, replicas |-> 1, image |-> "img1"]
SpecB == [ranges |-> "r2", size |-> 2, replicas |-> 1, image |-> "img2"]
SpecC == [ranges |-> "r1", size |-> 2, replicas |-> 1, image |-> "img1"]

MCSpecs == {SpecA, SpecB, SpecC}

=============================================================================
