-------------------------- MODULE TransactionsModel --------------------------
(***************************************************************************)
(* The history of the coin the wallet page shows. The page asks the daemon *)
(* for the transactions of the current ticker when the user picks it, and  *)
(* kdf_service does so again and again; an answer is stored by a worker    *)
(* thread, which then triggers tx_fetch_finished: wallet_page compares the *)
(* ticker of the event with the current one, reads what is stored, and     *)
(* gives it to transactions_model, which inserts what it has not and       *)
(* updates what it has. Rows beyond a page are fetched by the view.        *)
(*                                                                         *)
(* Abstracted: a transaction is a coin and a number, with what it says of  *)
(* its confirmation; amounts, notes and the filter of empty transactions   *)
(* are left out. An operation of the model is one step, although the       *)
(* thread that does it is not the one that draws it. The three steps after *)
(* the comparison are separate: in between, the user may choose another    *)
(* coin, and another answer may be stored under the same key.              *)
(***************************************************************************)
EXTENDS Integers, Sequences, FiniteSets, SequencesExt, Subsequences

CONSTANTS
    ShownCoins,
    ErcCoins,       \* coins whose history comes from a scanner of tokens
    TxSlots,          \* bound: calls at a time
    PageSize,       \* g_file_count_limit, 15
    MaxTx,          \* bound: transactions of a coin
    OldTxs,         \* how many confirmed ones a coin may have at the start
    MaxChoices,    \* bound: choices of a ticker
    MaxTxEvents,      \* bound: what happens to transactions
    MaxTxFailures     \* bound: calls that fail

ASSUME TransactionsAssumption ==
    /\ ErcCoins \subseteq ShownCoins
    /\ PageSize \in Nat \ {0}
    /\ {MaxTx, MaxChoices, MaxTxEvents, MaxTxFailures} \subseteq Nat
    /\ OldTxs \subseteq 0..MaxTx

VARIABLES
    txHistory,    \* external: the transactions of each coin, the newest first
    txStored,     \* m_tx_informations: by ticker, or under "result"
    walletPage,       \* wallet_page and its transactions_model
    txCalls,      \* the calls under way, and the threads that handle answers
    txExcuses,    \* history: what a coin's rows may be wrong for
    txUsed        \* bound: events so far

txVars == <<txHistory, txStored, walletPage, txCalls, txExcuses, txUsed>>

TxSpend(what, max) == txUsed[what] < max /\ txUsed' = [txUsed EXCEPT ![what] = @ + 1]

Transaction == [id : ShownCoins \X (1..MaxTx), unconfirmed : BOOLEAN]
TxIds(txs) == {txs[i].id : i \in DOMAIN txs}
\* How many wait to be confirmed: a history begins with them.
InMempool(txs) == Cardinality({i \in DOMAIN txs : txs[i].unconfirmed})

NoHistory == <<[id |-> <<"none", 0>>, unconfirmed |-> FALSE]>>
\* overtaken, history: what the comparison of tickers was for is no longer so.
FreeCall == [at |-> "free", coin |-> "none", txs |-> <<>>, overtaken |-> FALSE]
TxKeys == ShownCoins \union {"result"}
TxKey(coin) == IF coin \in ErcCoins THEN coin ELSE "result"
\* The calls, when call i becomes "call" and those of "late" are overtaken.
CallsThen(i, call, late) ==
    [j \in TxSlots |-> IF j = i THEN call
                       ELSE [txCalls[j] EXCEPT !.overtaken = @ \/ j \in late]]

TxInit ==
    /\ \E n \in [ShownCoins -> OldTxs] :
          txHistory = [c \in ShownCoins |-> [i \in 1..n[c] |-> [id |-> <<c, n[c] + 1 - i>>, unconfirmed |-> FALSE]]]
    /\ txStored = [k \in TxKeys |-> NoHistory]
    /\ walletPage \in [ticker : ShownCoins, data : {<<>>}, shown : {0}, busy : {FALSE}, failed : {FALSE}]
    /\ txCalls = [i \in TxSlots |-> FreeCall]
    /\ txExcuses = {}
    /\ txUsed = [commands |-> 0, events |-> 0, failures |-> 0]

----------------------------------------------------------------------------
(* transactions_model                                                      *)
Reset(p) == [p EXCEPT !.data = <<>>, !.shown = 0]

Smaller(m, n) == IF m < n THEN m ELSE n

FetchMore(p) == [p EXCEPT !.shown = @ + Smaller(PageSize, Len(p.data) - @)]

\* The first time everything is taken; later, rows are inserted after a page.
InitTransactions(p, new) ==
    IF p.data = <<>>
    THEN [p EXCEPT !.data = new, !.shown = Smaller(PageSize, Len(new))]
    ELSE LET at == Smaller(PageSize, Len(p.data))
             after == [p EXCEPT !.data = SubSeq(@, 1, at) \o new \o SubSeq(@, at + 1, Len(@)),
                                !.shown = @ + Len(new)]
         IN IF Len(after.data) >= PageSize THEN FetchMore(after) ELSE after

\* match looks at the rows that are shown, and finds the first.
IsFirstRow(p, i) == \A j \in 1..(i - 1) : p.data[j].id # p.data[i].id
IsShown(p, tx) == \E i \in 1..p.shown : p.data[i].id = tx.id

\* Seeded fault: rows that are shown keep what they show.
MutUpdateTransactions(p, txs) == p

UpdateTransactions(p, txs) ==
    [p EXCEPT !.data = [i \in DOMAIN @ |->
        IF i <= p.shown /\ IsFirstRow(p, i) /\ p.data[i].id \in TxIds(txs)
        THEN CHOOSE tx \in Range(txs) : tx.id = p.data[i].id
        ELSE @[i]]]

\* The unconfirmed ones at the head that are not shown.
Missing(p, txs) ==
    SelectAt(txs, {i \in DOMAIN txs : (\A j \in 1..i : txs[j].unconfirmed) /\ ~IsShown(p, txs[i])})

\* Seeded fault: one more is taken than is new.
MutUpdateOrInsertTransactions(p, txs) ==
    LET difference == Len(txs) - Len(p.data)
        toInit == IF difference = 0 THEN <<>>
                  ELSE IF Missing(p, txs) # <<>> THEN Missing(p, txs)
                  ELSE SubSeq(txs, 1, difference + 1)
        updated == UpdateTransactions(p, SubSeq(txs, difference + 1, Len(txs)))
    IN IF difference < 0 THEN p
       ELSE IF toInit = <<>> THEN updated ELSE InitTransactions(updated, toInit)

\* A history that has become shorter is ignored.
UpdateOrInsertTransactions(p, txs) ==
    LET difference == Len(txs) - Len(p.data)
        toInit == IF difference = 0 THEN <<>>
                  ELSE IF Missing(p, txs) # <<>> THEN Missing(p, txs)
                  ELSE SubSeq(txs, 1, difference)
        updated == UpdateTransactions(p, SubSeq(txs, difference + 1, Len(txs)))
    IN IF difference < 0 THEN p
       ELSE IF toInit = <<>> THEN updated ELSE InitTransactions(updated, toInit)

\* Of what an answer has and the model has not, some waits and some does not.
SomeWait(p, txs) ==
    LET new == {i \in DOMAIN txs : txs[i].id \notin TxIds(p.data)}
    IN p.shown > 0 /\ \E i, j \in new : txs[i].unconfirmed /\ ~txs[j].unconfirmed

----------------------------------------------------------------------------
(* wallet_page and kdf_service                                             *)
Ask(i) ==
    /\ txCalls[i].at = "free"
    /\ \A j \in TxSlots : txCalls[j].at = "free" => ~(j < i)

\* The calls whose thread has compared the tickers and not yet updated the model.
Compared == {i \in TxSlots : txCalls[i].at \in {"named", "read"}}

SetCurrentTicker(coin, i) ==
    /\ coin # walletPage.ticker
    /\ Ask(i)
    /\ TxSpend("commands", MaxChoices)
    /\ walletPage' = [Reset(walletPage) EXCEPT !.ticker = coin, !.busy = TRUE]
    /\ txCalls' = CallsThen(i, [FreeCall EXCEPT !.at = "asked", !.coin = coin], Compared)
    /\ txExcuses' = txExcuses \ {"raced"}
    /\ UNCHANGED <<txHistory, txStored>>

\* fetch_infos_thread.
FetchInfos(i) ==
    /\ Ask(i)
    /\ txCalls' = [txCalls EXCEPT ![i] = [FreeCall EXCEPT !.at = "asked", !.coin = walletPage.ticker]]
    /\ UNCHANGED <<txHistory, txStored, walletPage, txExcuses, txUsed>>

HistoryAnswered(i) ==
    /\ txCalls[i].at = "asked"
    /\ txCalls' = [txCalls EXCEPT ![i].at = "answered", ![i].txs = txHistory[txCalls[i].coin]]
    /\ UNCHANGED <<txHistory, txStored, walletPage, txExcuses, txUsed>>

\* An error of the daemon or of the scanner empties the model.
KdfRefuses(i) ==
    /\ txCalls[i].at = "asked"
    /\ TxSpend("failures", MaxTxFailures)
    /\ txCalls' = [txCalls EXCEPT ![i] = FreeCall]
    /\ walletPage' = [Reset(walletPage) EXCEPT !.busy = FALSE]
    /\ txExcuses' = txExcuses \ {"raced"}
    /\ UNCHANGED <<txHistory, txStored>>

\* handle_exception_pplx_task says nothing to the page.
CallFails(i) ==
    /\ txCalls[i].at = "asked"
    /\ TxSpend("failures", MaxTxFailures)
    /\ txCalls' = [txCalls EXCEPT ![i] = FreeCall]
    /\ UNCHANGED <<txHistory, txStored, walletPage, txExcuses>>

\* The calls whose thread will read what this one stores, of another coin: only the
\* coins of a scanner have a key of their own.
Overwritten(i) ==
    {j \in TxSlots : /\ txCalls[j].at \in {"stored", "named"}
                     /\ txCalls[j].coin # txCalls[i].coin
                     /\ TxKey(txCalls[j].coin) = TxKey(txCalls[i].coin)}

ProcessTxAnswer(i) ==
    /\ txCalls[i].at = "answered"
    /\ txStored' = [txStored EXCEPT ![TxKey(txCalls[i].coin)] = txCalls[i].txs]
    /\ txCalls' = CallsThen(i, [txCalls[i] EXCEPT !.at = "stored"], Overwritten(i))
    /\ UNCHANGED <<txHistory, walletPage, txExcuses, txUsed>>

\* Seeded fault: the ticker of the event is not compared.
MutOnTxFetchFinished(i) ==
    /\ txCalls[i].at = "stored"
    /\ txCalls' = [txCalls EXCEPT ![i].at = "named"]
    /\ UNCHANGED <<walletPage, txExcuses, txHistory, txStored, txUsed>>

\* on_tx_fetch_finished: the ticker of the event is not the current one.
OnTxFetchFinished(i) ==
    /\ txCalls[i].at = "stored"
    /\ IF txCalls[i].coin = walletPage.ticker
       THEN txCalls' = [txCalls EXCEPT ![i].at = "named"] /\ UNCHANGED <<walletPage, txExcuses>>
       ELSE /\ txCalls' = [txCalls EXCEPT ![i] = FreeCall]
            /\ walletPage' = [Reset(walletPage) EXCEPT !.busy = FALSE]
            /\ txExcuses' = txExcuses \ {"raced"}
    /\ UNCHANGED <<txHistory, txStored, txUsed>>

\* get_tx_history asks again which ticker is the current one.
GetTxHistory(i) ==
    /\ txCalls[i].at = "named"
    /\ txCalls' = [txCalls EXCEPT ![i].at = "read", ![i].txs = txStored[TxKey(walletPage.ticker)]]
    /\ UNCHANGED <<txHistory, txStored, walletPage, txExcuses, txUsed>>

\* Rows of a coin that is not the one shown.
Strangers(p) == ~(TxIds(p.data) \subseteq {p.ticker} \X (1..MaxTx))

\* Seeded fault: the flag stays up when there is no history.
MutUpdateModel(i) ==
    /\ txCalls[i].at = "read"
    /\ LET none == txCalls[i].txs = NoHistory
           txs == IF none THEN <<>> ELSE txCalls[i].txs
           updated == IF walletPage.shown = 0 THEN InitTransactions(walletPage, txs)
                      ELSE UpdateOrInsertTransactions(walletPage, txs)
       IN walletPage' = [updated EXCEPT !.failed = none, !.busy = @ /\ txs = <<>>]
    /\ txCalls' = [txCalls EXCEPT ![i] = FreeCall]
    /\ txExcuses' = txExcuses
         \union (IF txCalls[i].overtaken /\ Strangers(walletPage') THEN {"raced"} ELSE {})
         \union (IF SomeWait(walletPage, txCalls[i].txs) THEN {"mixed"} ELSE {})
    /\ UNCHANGED <<txHistory, txStored, txUsed>>

UpdateModel(i) ==
    /\ txCalls[i].at = "read"
    /\ LET none == txCalls[i].txs = NoHistory
           txs == IF none THEN <<>> ELSE txCalls[i].txs
           updated == IF walletPage.shown = 0 THEN InitTransactions(walletPage, txs)
                      ELSE UpdateOrInsertTransactions(walletPage, txs)
       IN walletPage' = [updated EXCEPT !.failed = none, !.busy = FALSE]
    /\ txCalls' = [txCalls EXCEPT ![i] = FreeCall]
    /\ txExcuses' = txExcuses
         \union (IF txCalls[i].overtaken /\ Strangers(walletPage') THEN {"raced"} ELSE {})
         \union (IF SomeWait(walletPage, txCalls[i].txs) THEN {"mixed"} ELSE {})
    /\ UNCHANGED <<txHistory, txStored, txUsed>>

\* The view has been scrolled to its end.
Scroll ==
    /\ walletPage.shown < Len(walletPage.data)
    /\ walletPage' = FetchMore(walletPage)
    /\ UNCHANGED <<txHistory, txStored, txCalls, txExcuses, txUsed>>

----------------------------------------------------------------------------
(* External: what happens to transactions.                                 *)
Fresh(coin) == <<coin, Len(txHistory[coin]) + 1>>

Arrives(coin) ==
    /\ Len(txHistory[coin]) < MaxTx /\ coin \notin ErcCoins
    /\ TxSpend("events", MaxTxEvents)
    /\ txHistory' = [txHistory EXCEPT ![coin] = <<[id |-> Fresh(coin), unconfirmed |-> TRUE]>> \o @]
    /\ txExcuses' = txExcuses \union (IF InMempool(txHistory[coin]) >= PageSize THEN {"crowded"} ELSE {})
    /\ UNCHANGED <<txStored, walletPage, txCalls>>

\* One is seen when it is in a block, while others wait for theirs.
ArrivesConfirmed(coin) ==
    /\ Len(txHistory[coin]) < MaxTx
    /\ TxSpend("events", MaxTxEvents)
    /\ txHistory' = [txHistory EXCEPT ![coin] = SubSeq(@, 1, InMempool(@)) \o <<[id |-> Fresh(coin), unconfirmed |-> FALSE]>>
                                              \o SubSeq(@, InMempool(@) + 1, Len(@))]
    /\ txExcuses' = IF InMempool(txHistory[coin]) > 0 THEN txExcuses \union {"mixed"} ELSE txExcuses
    /\ UNCHANGED <<txStored, walletPage, txCalls>>

\* The oldest that waits is confirmed.
Confirms(coin) ==
    /\ InMempool(txHistory[coin]) > 0
    /\ TxSpend("events", MaxTxEvents)
    /\ txHistory' = [txHistory EXCEPT ![coin][InMempool(txHistory[coin])].unconfirmed = FALSE]
    /\ UNCHANGED <<txStored, walletPage, txCalls, txExcuses>>

TxNext ==
    \/ \E i \in TxSlots :
         \/ \E coin \in ShownCoins : SetCurrentTicker(coin, i)
         \/ FetchInfos(i)
         \/ HistoryAnswered(i)
         \/ KdfRefuses(i)
         \/ CallFails(i)
         \/ ProcessTxAnswer(i)
         \/ OnTxFetchFinished(i)
         \/ GetTxHistory(i)
         \/ UpdateModel(i)
    \/ Scroll
    \/ \E coin \in ShownCoins : Arrives(coin) \/ ArrivesConfirmed(coin) \/ Confirms(coin)

TxSpec == TxInit /\ [][TxNext]_txVars

\* What moves a call on; the place it is at allows one of these.
CallProceeds(i) ==
    HistoryAnswered(i) \/ ProcessTxAnswer(i) \/ OnTxFetchFinished(i) \/ GetTxHistory(i) \/ UpdateModel(i)

\* The periodic fetch goes on, calls are answered and answers handled.
TxFairness ==
    /\ SF_txVars(\E i \in TxSlots : FetchInfos(i))
    /\ \A i \in TxSlots : WF_txVars(CallProceeds(i))

TxFairSpec == TxSpec /\ TxFairness

----------------------------------------------------------------------------
\* Shapes; the rows shown are rows there are, at least a page of them.
TxTypeOK ==
    /\ \A c \in ShownCoins : txHistory[c] \in Seq(Transaction)
    /\ \A k \in TxKeys : txStored[k] = NoHistory \/ txStored[k] \in Seq(Transaction)
    /\ walletPage.data \in Seq(Transaction)
    /\ walletPage.shown \in 0..Len(walletPage.data)
    /\ walletPage.shown >= Smaller(PageSize, Len(walletPage.data))

\* A transaction has one row, whatever answers overtake each other and
\* whatever is confirmed meanwhile: but for what update_or_insert_transactions takes
\* wrongly, answers of whose new transactions some wait and some do not, histories in
\* which one was confirmed before others that wait, or in which more wait than a page
\* shows (match looks no further); and rows that a thread gave to the model of
\* another coin.
NoRowTwice ==
    \/ Cardinality(TxIds(walletPage.data)) = Len(walletPage.data)
    \/ txExcuses # {}

\* The page shows transactions of its coin, whichever order answers come in and
\* whenever the user chooses another; but for a thread that was overtaken between
\* comparing the tickers and updating the model, by another choice or by an answer
\* for another coin that is stored under the same key, until the page is emptied.
RowsAreOfTheTicker ==
    \/ \A i \in DOMAIN walletPage.data : walletPage.data[i].id[1] = walletPage.ticker
    \/ "raced" \in txExcuses

\* What the page shows as being fetched is fetched.
TxFetchingEnds == walletPage.busy ~> ~walletPage.busy

\* When nothing new happens, the page comes to show the history of its coin.
HistoryCatchesUp ==
    <>[](\/ txExcuses # {}
         \/ /\ TxIds(walletPage.data) = TxIds(txHistory[walletPage.ticker])
            /\ \A i \in 1..walletPage.shown : walletPage.data[i] \in Range(txHistory[walletPage.ticker]))

\* transactions_model holds each transaction once and those of the coin shown only,
\* however the answers of process_tx_answer overtake each other.
HistoryIsOfTheCoin == TxTypeOK /\ NoRowTwice /\ RowsAreOfTheTicker
=============================================================================
