------------------------- MODULE MC_VolumeResize -------------------------
(***************************************************************************)
(* Two volumes of 1Gi, and three Updates in a row, each asking for one of  *)
(* the sizes below.  Sizes are in half GiB: 4 is 2Gi, 6 is 3Gi, 2 is the   *)
(* original 1Gi (a shrink once the volumes have grown), and 5 is 2.5Gi.    *)
(***************************************************************************)
EXTENDS VolumeResizeProofs, TLC

CONSTANTS Bad, Nil

\* Whole-GiB sizes, a shrink back, and a string ParseQuantity rejects.
MCRequests == {2, 4, 6, Bad}

\* A size that is not a whole number of GiB.
MCFractionalRequests == {5}

=============================================================================
