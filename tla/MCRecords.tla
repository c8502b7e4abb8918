------------------------------- MODULE MCRecords ------------------------------
(* What is kept by records of several parts: the coin files, the address   *)
(* book and the rows of the orderbook.  They share nothing; a behaviour    *)
(* runs the one that "which" names, and the others stay as they began.     *)
EXTENDS CoinStatusFile, Addressbook, MCOrderbookRows, TLC

CONSTANTS KMD, BTC, ARRR, X, Y, MainThread

MCMainCoins == {KMD, BTC, ARRR}
MCTwoCustomCoins == {X, Y}
MCDefaultCoins == {KMD, BTC}
MCPrimaryDexCoins == {KMD}
MCShieldedCoins == {ARRR}
MCOldActive == {KMD, ARRR}
MCSymmetry == Permutations({X, Y})

MCValidAddresses == {<<"BNB", "v1">>}

VARIABLE which
MCInit ==
    /\ Init /\ BookInit /\ RowsInit
    /\ which \in {"coin files", "addresses", "orders"}
MCNext ==
    \/ which = "coin files" /\ Next /\ UNCHANGED <<bookVars, rowVars, which>>
    \/ which = "addresses" /\ BookNext /\ UNCHANGED <<vars, rowVars, which>>
    \/ which = "orders" /\ RowsNext /\ UNCHANGED <<vars, bookVars, which>>
MCSpec == MCInit /\ [][MCNext]_<<vars, bookVars, rowVars, which>>
=============================================================================
