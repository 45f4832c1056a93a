-------------------------- MODULE MC_PodEvents --------------------------
(***************************************************************************)
(* Two pods with two resource versions, four informer events (so that an   *)
(* event can be delivered again by a resync, both before and after it is   *)
(* popped) and two subscriber registrations.                               *)
(***************************************************************************)
EXTENDS PodEventsProofs, TLC

CONSTANTS p1, p2, Nil

MCPods == {p1, p2}

=============================================================================
