--------------------------- MODULE MC_RoleModel ---------------------------
(***************************************************************************)
(* Two valid names and one that isValidUsername rejects; one flag set that *)
(* normalises and one that does not.                                       *)
(***************************************************************************)
EXTENDS RoleModelProofs, TLC

CONSTANTS u1, u2, bad, f1, fbad, Nil

MCNames == {u1, u2, bad}

MCValidNames == {u1, u2}

=============================================================================
