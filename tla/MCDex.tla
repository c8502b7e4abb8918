-------------------------------- MODULE MCDex -------------------------------
(* Trading under fairness: the page that places orders, the orders and      *)
(* swaps shown, the orders that follow the market.  They share nothing; a   *)
(* behaviour runs the one that "which" names, and the others stay as they   *)
(* began.                                                                   *)
EXTENDS MCTradingPage, MCOrdersModel, MakerBot

MCPairOf(o) == IF o = "m2" THEN "p2" ELSE "p1"
MCPrice(r, s) == r + s

VARIABLE which
MCInit ==
    /\ Init /\ OrdersInit /\ BotInit
    /\ which \in {"trading", "orders", "bot"}
    /\ which # "bot" => rate = [p \in MakerPairs |-> 1]
MCNext ==
    \/ which = "trading" /\ Next /\ UNCHANGED <<ordersVars, botVars, which>>
    \/ which = "orders" /\ OrdersNext /\ UNCHANGED <<vars, botVars, which>>
    \/ which = "bot" /\ BotNext /\ UNCHANGED <<vars, ordersVars, which>>

\* The fairness of each module, of the one that runs.
\* Fairness of TradingPage says WF_vars of the first two; here what enables them
\* is written out, which is all their guards ask for.
MCTradingFairness ==
    LET T == which = "trading"
    IN  /\ []<>~(T /\ calls # <<>>) \/ []<><<T /\ Answered(1)>>_vars
        /\ []<>~(T /\ page.actions > 0) \/ []<><<T /\ ProcessAction>>_vars
        /\ SF_vars(T /\ PeriodicFetch)
MCOrdersFairness ==
    LET O == which = "orders"
    IN  /\ WF_ordersVars(O /\ FetchOrders) /\ WF_ordersVars(O /\ Tick)
        /\ WF_ordersVars(O /\ \E i \in DOMAIN fetches : Longest(i, "sent") /\ KdfBegins(i))
        /\ WF_ordersVars(O /\ \E i \in DOMAIN fetches : Longest(i, "begun") /\ KdfAnswers(i))
        /\ WF_ordersVars(O /\ \E i \in DOMAIN fetches : Longest(i, "answered") /\ StoreReply(i))
        /\ WF_ordersVars(O /\ FundRecovered)
\* The tick goes on, snapshots are answered and the daemon meets each request.
MCBotFairness ==
    LET B == which = "bot"
    IN  /\ WF_botVars(B /\ SnapshotAnswered) /\ WF_botVars(B /\ BotTick)
        /\ \A u \in AllUpdates : WF_botVars(B /\ UpdateMet(u))

MCSpec ==
    /\ MCInit /\ [][MCNext]_<<vars, ordersVars, botVars, which>>
    /\ MCTradingFairness /\ MCOrdersFairness /\ MCBotFairness

\* BookCatchesUp of TradingPage, in the behaviours where the trading page runs: while
\* the orderbook is fetched the page comes to show that of its pair; and its calls and
\* scans end.
ShownBookCatchesUp == OrderCallEnds /\ ScanEnds /\ (which = "trading" => BookCatchesUp)
\* Settles of OrdersModel, in the behaviours where the orders run: orders_model comes
\* to hold the page, the limit and the filter the user chose last, and no other page
\* comes by itself.
ChosenPageComes == PagesAreTurnedByTheUser /\ (which = "orders" => Settles)
\* PricesFollow of MakerBot, in the behaviours where the bot runs: each maker order
\* auto_update_maker_order_service serves comes to the market's price and spread, and
\* no other order is moved.
MarketIsFollowed == []OnlyEnabledPairsMove /\ (which = "bot" => PricesFollow)
=============================================================================
