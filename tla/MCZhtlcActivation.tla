-------------------------- MODULE MCZhtlcActivation --------------------------
(* An instance of ZhtlcActivation for TLC.                                  *)
EXTENDS ZhtlcActivation

CONSTANTS ARRR, ZOMBIE

MCCoins == {ARRR, ZOMBIE}
MCSavedActive == {ARRR, ZOMBIE}
=============================================================================
