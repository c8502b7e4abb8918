---------------------------- MODULE MCWalletPage ----------------------------
(***************************************************************************)
(* A small instance of WalletPage: the platform of SLP tokens with one of  *)
(* them, and a shielded coin.                                              *)
(***************************************************************************)
EXTENDS WalletPage
=============================================================================
