---------------------------- MODULE MCWalletSend ----------------------------
(* WalletSend on small instances. *)
EXTENDS WalletSend
=============================================================================
