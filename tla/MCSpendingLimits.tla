--------------------------- MODULE MCSpendingLimits ---------------------------
(* SpendingLimits on small instances. *)
EXTENDS SpendingLimits
CONSTANTS m1, m2, a1, a2
TwoManagers == {m1, m2}
TwoAgents == {a1, a2}
Everything == {Permissions}
=============================================================================
