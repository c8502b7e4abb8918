-------------------------- MODULE MCWalletSession --------------------------
(***************************************************************************)
(* A small instance of WalletSession: a password that contains the suffix  *)
(* and one that does not.                                                  *)
(***************************************************************************)
EXTENDS WalletSession
MCPasswords == {<<"a">>, <<"s", "b">>}
MCPinSuffixes == {<<"s">>}
MCDefaultSuffix == <<"d">>
=============================================================================
