---------------------------- MODULE MCTradingPage ----------------------------
(***************************************************************************)
(* A small instance of TradingPage: two coins that can be sold and one that *)
(* is only held, orders at two prices for two pairs with the same base, a  *)
(* second order at one of the prices for one of the runs, and a pair with  *)
(* settings of the bot.                                                    *)
(***************************************************************************)
EXTENDS TradingPage
MCOrder(base, rel, price) == [base |-> base, rel |-> rel, price |-> price, n |-> 1]
MCListed == {MCOrder("LTC", "KMD", 1), MCOrder("LTC", "DGB", 2)}
MCTwins == {[MCOrder("LTC", "KMD", 1) EXCEPT !.n = n] : n \in 1..2}
MCBotPairs == {<<"KMD", "LTC">>}
=============================================================================
