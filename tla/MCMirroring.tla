---------------------------- MODULE MCMirroring ----------------------------
(***************************************************************************)
(* Mirroring for TLC: the modes queue is empty, or holds a leader.         *)
(***************************************************************************)
EXTENDS Mirroring

CONSTANT a   \* one of the arms

Stored == {[b \in Buses |-> "none"], [b \in Buses |-> IF b = a THEN "leader" ELSE "none"]}
=============================================================================
