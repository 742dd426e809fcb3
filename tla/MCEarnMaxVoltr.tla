---------------------------- MODULE MCEarnMaxVoltr ----------------------------
(* EarnMaxVoltr on small instances. *)
EXTENDS EarnMaxVoltr
CONSTANTS d1, d2
=============================================================================
