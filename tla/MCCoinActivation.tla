-------------------------- MODULE MCCoinActivation --------------------------
(* An instance of CoinActivation for TLC: one default coin, one platform    *)
(* coin and one of its tokens, activated by two batch families.             *)
EXTENDS CoinActivation

CONSTANTS KMD, ETH, TOK, utxo, erc

MCCoins == {KMD, ETH, TOK}
MCDefaultCoins == {KMD}
MCPrimaryDexCoins == {KMD}
MCSavedActive == {KMD}
MCParent == [c \in MCCoins |-> IF c = TOK THEN ETH ELSE c]
MCFamilies == {utxo, erc}
MCFamily == [c \in MCCoins |-> IF c = KMD THEN utxo ELSE erc]
=============================================================================
