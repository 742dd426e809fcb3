------------------------ MODULE MCEarnPolicyResolve ------------------------
(* EarnPolicyResolve on small instances. *)
EXTENDS EarnPolicyResolve

Fresh == {<<>>}
\* What a legacy version, or an interrupted one, may have left behind.
Leftovers == {<<>>, <<"legacy", "setup">>, <<"odd">>, <<"route">>}
=============================================================================
