---------------------------- MODULE MCEarnPosition ----------------------------
(* EarnPosition on small instances. *)
EXTENDS EarnPosition, TLC
CONSTANTS d1, d2, r1, r2, r3, usdc, usdt
TwoMints == (r1 :> usdc) @@ (r2 :> usdc) @@ (r3 :> usdt)
HeldShares == (r1 :> 2) @@ (r2 :> 1) @@ (r3 :> 1)
UsdcIdle == (usdc :> 3) @@ (usdt :> 0)
UsdcFirst == (usdc :> 0) @@ (usdt :> 1)
=============================================================================
