------------------------------- MODULE MCPages --------------------------------
(* Lists that follow what other threads and the daemon do: the coins of the *)
(* portfolio and the transactions of a coin.  They share nothing; a         *)
(* behaviour runs the one that "which" names, and the other stays as it     *)
(* began.                                                                   *)
EXTENDS Portfolio, TransactionsModel

CONSTANTS KMD, A, B

MCCoins == {KMD, A, B}
MCPrimaryDexCoins == {KMD}

VARIABLE which
\* The coin shown first has an old transaction; of those that may follow it one has
\* none, and one is scanned.
MCInit ==
    /\ Init /\ TxInit
    /\ which \in {"coins", "transactions"}
    /\ walletPage.ticker = "KMD" /\ \A c \in ShownCoins : txHistory[c] = <<>> <=> c = "BTC"
MCNext ==
    \/ which = "coins" /\ Next /\ UNCHANGED <<txVars, which>>
    \/ /\ which = "transactions" /\ TxNext /\ UNCHANGED <<vars, which>>
       /\ txUsed'.events + txUsed'.failures <= MaxTxEvents

\* The fairness of each module, of the one that runs.
MCCoinsFairness ==
    LET W == which = "coins" IN WF_vars(W /\ Tick) /\ WF_vars(W /\ DisconnectSignals)
MCTxFairness ==
    LET W == which = "transactions"
    IN  /\ SF_txVars(W /\ \E i \in TxSlots : FetchInfos(i))
        /\ \A i \in TxSlots : WF_txVars(W /\ CallProceeds(i))
MCSpec ==
    /\ MCInit /\ [][MCNext]_<<vars, txVars, which>>
    /\ MCCoinsFairness /\ MCTxFairness

\* AnnouncedIsShown of Portfolio, in the behaviours where the portfolio runs: a
\* coin announced while a session runs is shown by application::tick.
AnnouncedComesUp == which = "coins" => AnnouncedIsShown
\* HistoryCatchesUp of TransactionsModel, in the behaviours where it runs: the rows
\* of transactions_model come to be the history of the coin that is shown, and what
\* the page shows as being fetched is fetched.
ShownHistoryCatchesUp == TxFetchingEnds /\ (which = "transactions" => HistoryCatchesUp)
===============================================================================
