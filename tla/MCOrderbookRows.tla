---------------------------- MODULE MCOrderbookRows --------------------------
(* Prices of the orders, for the runs with the rows of an orderbook.        *)
EXTENDS OrderbookRows
MCOrderPrices == {<<1, 2>>, <<3, 4>>}
=============================================================================
