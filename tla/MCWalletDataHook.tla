-------------------------- MODULE MCWalletDataHook --------------------------
(* WalletDataHook on a small instance. *)
EXTENDS WalletDataHook
CONSTANTS w1, w2
TwoWallets == {w1, w2}
=============================================================================
