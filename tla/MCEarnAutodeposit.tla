-------------------------- MODULE MCEarnAutodeposit --------------------------
(* EarnAutodeposit on small instances. *)
EXTENDS EarnAutodeposit
CONSTANTS d1, d2
=============================================================================
