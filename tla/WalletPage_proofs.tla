-------------------------- MODULE WalletPage_proofs -------------------------
(***************************************************************************)
(* Proofs about the wallet's page, for any coins, amounts and bounds: a    *)
(* modal broadcasts what it confirmed, for the coin of the page, and what  *)
(* it calls sent is in the ledger.                                         *)
(***************************************************************************)
EXTENDS WalletPage, TLAPS

-----------------------------------------------------------------------------
(* The inductive invariant.                                                *)

Fetches == [at : {"free", "answered", "checked"}, coin : Coins \union {""}, value : Nat]
Availabilities == [send : BOOLEAN, fees : BOOLEAN]
Pages == [ticker : Coins, send_busy : BOOLEAN, broadcast_busy : BOOLEAN, available : Availabilities]
Modals == [at : {"closed", "prepare", "confirm", "sent"}, result : Transaction, typed : Nat]
Calls == [at : {"free", "asked", "waiting", "answered", "timed_out"}, tx : Transaction, max : BOOLEAN]
Broadcasts == [at : {"free", "asked", "sent", "refused", "read"}, coin : Coins \union {""},
               tx : Transaction, typed : Nat, seen : Nat]

\* What the daemon and the balances are.
ChainTypes ==
    /\ pinned \in BOOLEAN
    /\ real \in [Coins -> Nat]
    /\ ledger \subseteq Transaction
    /\ enabled \subseteq Coins
    /\ balance \in [Coins -> Nat \union {Unknown}]
    /\ fetches \in [Slots -> Fetches]

\* What the page, the modal and their calls are.
PageTypes ==
    /\ page \in Pages
    /\ modal \in Modals
    /\ send \in Calls
    /\ broadcast \in Broadcasts
    /\ tries \in 0..LoopLimit
    /\ used \in [commands : Nat, events : Nat, failures : Nat, sends : Nat]

\* The coin of the page is enabled, and the page is busy with its calls.
PageFits ==
    /\ page.ticker \in enabled
    /\ page.send_busy <=> send.at # "free"
    /\ page.broadcast_busy <=> broadcast.at # "free"

\* A withdrawal is of a coin, is given up when the tries are used up, and is over
\* once a modal asks to confirm it.
SendFits ==
    /\ send.at # "free" => send.tx.coin \in Coins
    /\ tries = LoopLimit => send.at = "timed_out"
    /\ modal.at \in {"confirm", "sent"} => send.at = "free"

\* A modal confirms a transaction of the coin of the page, unless the answer came late.
ConfirmFits == modal.at = "confirm" => modal.result.coin = page.ticker \/ "late" \in excuses

\* A broadcast is of what the modal confirms, which waits for its answer.
BroadcastFits ==
    /\ broadcast.at \in {"asked", "sent", "refused"} =>
         modal.at = "confirm" /\ modal.result = broadcast.tx
    /\ broadcast.at = "asked" => broadcast.coin = page.ticker
    /\ broadcast.at = "sent" => broadcast.tx \in ledger

SentInv == ChainTypes /\ PageTypes /\ PageFits /\ SendFits /\ ConfirmFits /\ BroadcastFits /\ ShownAsSent

-----------------------------------------------------------------------------
(* Values.                                                                 *)

LEMMA Values ==
    /\ NoTx \in Transaction /\ FreeFetch \in Fetches /\ FreeFetch.at = "free"
    /\ FreeCall \in Calls /\ FreeCall.at = "free"
    /\ FreeBroadcast \in Broadcasts /\ FreeBroadcast.at = "free"
    /\ Closed \in Modals /\ Closed.at = "closed"
    /\ Shown(FALSE) \in Modals /\ Shown(FALSE).at = "prepare"
BY DEF NoTx, Transaction, FreeFetch, Fetches, FreeCall, Calls, FreeBroadcast, Broadcasts, Closed, Modals, Shown

LEMMA ShownSent ==
    ASSUME modal \in Modals
    PROVE  Shown(TRUE) \in Modals /\ Shown(TRUE).at = "sent" /\ Shown(TRUE).result = modal.result
BY DEF Modals, Shown

LEMMA CamouflagedType == ASSUME NEW n \in Nat PROVE Camouflaged(n) \in Nat
BY DEF Camouflaged

LEMMA BalanceType == ASSUME ChainTypes, NEW c \in Coins PROVE Balance(c) \in Nat
BY DEF ChainTypes, Balance, Unknown

LEMMA AvailabilityType == ASSUME NEW c PROVE Availability(c) \in Availabilities
BY DEF Availability, Availabilities

LEMMA SpendType ==
    ASSUME PageTypes, NEW what \in {"commands", "events", "failures", "sends"}, NEW max, Spend(what, max)
    PROVE  used' \in [commands : Nat, events : Nat, failures : Nat, sends : Nat]
BY DEF PageTypes, Spend

-----------------------------------------------------------------------------
(* The steps.                                                              *)

LEMMA ChainTypesStep == ChainTypes /\ PageTypes /\ PageFits /\ BroadcastFits /\ [Next]_vars => ChainTypes'
<1> SUFFICES ASSUME ChainTypes, PageTypes, PageFits, BroadcastFits, [Next]_vars PROVE ChainTypes'
  OBVIOUS
<1>1. CASE User
  BY <1>1 DEF User, SetCurrentTicker, OpenModal, CloseModal, BackToPrepare, PrepareSend, SendCoin,
              ChainTypes, chain
<1>2. CASE Balances
  <2>1. ASSUME NEW i \in Slots, \E coin \in Coins : FetchSingleBalance(i, coin) PROVE ChainTypes'
    <3>1. PICK coin \in Coins : FetchSingleBalance(i, coin)
      BY <2>1
    <3>2. [at |-> "answered", coin |-> coin, value |-> real[coin]] \in Fetches
      BY DEF Fetches, ChainTypes
    <3> QED BY <3>1, <3>2 DEF FetchSingleBalance, ChainTypes, chain
  <2>2. ASSUME NEW i \in Slots, BalanceFails(i) PROVE ChainTypes'
    BY <2>2, Values DEF BalanceFails, ChainTypes, chain
  <2>3. ASSUME NEW i \in Slots, CheckBalance(i) PROVE ChainTypes'
    <3>1. [fetches[i] EXCEPT !.at = "checked"] \in Fetches
      BY DEF ChainTypes, Fetches
    <3>2. fetches' = [fetches EXCEPT ![i] = [fetches[i] EXCEPT !.at = "checked"]]
          \/ fetches' = [fetches EXCEPT ![i] = FreeFetch]
      BY <2>3 DEF CheckBalance
    <3>3. fetches' \in [Slots -> Fetches]
      BY <3>1, <3>2, Values DEF ChainTypes
    <3> QED BY <2>3, <3>3 DEF CheckBalance, ChainTypes, chain
  <2>4. ASSUME NEW i \in Slots, WriteBalance(i) PROVE ChainTypes'
    <3>1. Camouflaged(fetches[i].value) \in Nat
      BY CamouflagedType DEF ChainTypes, Fetches
    <3> QED BY <2>4, <3>1, Values DEF WriteBalance, ChainTypes, chain
  <2>5. ASSUME NEW tokens \in SUBSET Tokens, ActivateSlp(tokens) PROVE ChainTypes'
    <3>1. tokens \subseteq Coins /\ Platform \in Coins
      BY WalletPageAssumption
    <3>2. CASE Platform \in enabled
      <4>1. PICK token \in tokens : balance' = [balance EXCEPT ![Platform] = real[token]]
        BY <2>5, <3>2 DEF ActivateSlp
      <4>2. real[token] \in Nat
        BY <3>1 DEF ChainTypes
      <4>3. balance' \in [Coins -> Nat \union {Unknown}]
        BY <4>1, <4>2 DEF ChainTypes
      <4> QED BY <2>5, <3>1, <3>2, <4>3 DEF ActivateSlp, ChainTypes, chain
    <3>3. CASE Platform \notin enabled
      BY <2>5, <3>1, <3>3 DEF ActivateSlp, ChainTypes, chain
    <3> QED BY <3>2, <3>3
  <2>6. ASSUME NEW coin \in Coins, DisableCoin(coin) PROVE ChainTypes'
    BY <2>6 DEF DisableCoin, ChainTypes, chain
  <2>7. ASSUME NEW coin \in Coins, FundsArrive(coin) PROVE ChainTypes'
    BY <2>7 DEF FundsArrive, ChainTypes
  <2> QED BY <1>2, <2>1, <2>2, <2>3, <2>4, <2>5, <2>6, <2>7 DEF Balances
<1>3. CASE KdfBroadcasts
  <2>1. broadcast.coin \in Coins /\ broadcast.tx \in Transaction /\ broadcast.tx.amount \in Nat
    BY <1>3 DEF KdfBroadcasts, BroadcastFits, PageTypes, Pages, Broadcasts, Transaction
  <2>2. CASE Valid(broadcast)
    <3>1. real[broadcast.coin] - broadcast.tx.amount \in Nat
      BY <2>1, <2>2 DEF Valid, ChainTypes
    <3> QED BY <1>3, <2>1, <2>2, <3>1 DEF KdfBroadcasts, ChainTypes
  <2>3. CASE ~Valid(broadcast)
    BY <1>3, <2>3 DEF KdfBroadcasts, ChainTypes, chain
  <2> QED BY <2>2, <2>3
<1>4. CASE DecreaseFakeBalance
  <2> DEFINE left == IF broadcast.typed > broadcast.seen THEN 0 ELSE broadcast.seen - broadcast.typed
  <2>1. left \in Nat
    <3>1. broadcast.typed \in Nat /\ broadcast.seen \in Nat
      BY DEF PageTypes, Broadcasts
    <3> QED BY <3>1
  <2>2. balance' = [balance EXCEPT ![broadcast.coin] = left]
    BY <1>4 DEF DecreaseFakeBalance
  <2> HIDE DEF left
  <2>3. balance' \in [Coins -> Nat \union {Unknown}]
    BY <2>1, <2>2 DEF ChainTypes
  <2> QED BY <1>4, <2>3 DEF DecreaseFakeBalance, ChainTypes, chain
<1>5. CASE Sending /\ ~KdfBroadcasts /\ ~DecreaseFakeBalance
  BY <1>5 DEF Sending, CheckSendAvailability, KdfWithdraws, WithdrawStatus, WithdrawTimesOut, SendAnswered,
              SendFails, BroadcastSent, BroadcastRefused, BroadcastFails, ChainTypes, chain
<1>6. CASE UNCHANGED vars
  BY <1>6 DEF vars, chain, ChainTypes
<1> QED BY <1>1, <1>2, <1>3, <1>4, <1>5, <1>6 DEF Next, Sending

LEMMA PageTypesStep ==
    ChainTypes /\ PageTypes /\ PageFits /\ SendFits /\ [Next]_vars => PageTypes'
<1> SUFFICES ASSUME ChainTypes, PageTypes, PageFits, SendFits, [Next]_vars PROVE PageTypes'
  OBVIOUS
<1> USE Values DEF PageTypes
<1>a. /\ \A s \in {TRUE, FALSE} : [page EXCEPT !.send_busy = s] \in Pages
      /\ \A s \in {TRUE, FALSE} : [page EXCEPT !.broadcast_busy = s] \in Pages
      /\ [page EXCEPT !.available = Availability(page.ticker)] \in Pages
      /\ \A c \in Coins : [page EXCEPT !.ticker = c, !.available = Availability(c)] \in Pages
  BY AvailabilityType DEF Pages
<1>1. CASE \E coin \in Coins : SetCurrentTicker(coin)
  BY <1>a, <1>1, SpendType DEF SetCurrentTicker
<1>2. CASE OpenModal \/ CloseModal \/ BackToPrepare
  <2>1. [modal EXCEPT !.at = "prepare"] \in Modals
    BY DEF Modals
  <2> QED BY <1>2, <2>1 DEF OpenModal, CloseModal, BackToPrepare, Close
<1>3. CASE \E amount \in Amounts : PrepareSend(amount)
  <2>1. PICK amount \in Amounts : PrepareSend(amount)
    BY <1>3
  <2>2. used.sends + 1 \in Nat /\ amount \in Nat /\ page.ticker \in Coins
    BY WalletPageAssumption DEF Pages
  <2>3. [coin |-> page.ticker, amount |-> amount, nr |-> used.sends + 1] \in Transaction
    BY <2>2 DEF Transaction
  <2>4. send' \in Calls
    BY <2>1, <2>3 DEF PrepareSend, Calls
  <2>5. [modal EXCEPT !.typed = amount] \in Modals
    BY <2>2 DEF Modals
  <2> QED BY <1>a, <2>1, <2>4, <2>5, SpendType DEF PrepareSend
<1>4. CASE SendCoin
  <2>1. modal.result \in Transaction /\ modal.typed \in Nat /\ page.ticker \in Coins
    BY DEF Modals, Pages
  <2>2. broadcast' \in Broadcasts
    BY <1>4, <2>1 DEF SendCoin, Broadcasts
  <2> QED BY <1>a, <1>4, <2>2 DEF SendCoin
<1>5. CASE Balances
  BY <1>5, SpendType DEF Balances, FetchSingleBalance, BalanceFails, CheckBalance, WriteBalance, ActivateSlp,
          DisableCoin, FundsArrive
<1>6. CASE CheckSendAvailability
  BY <1>a, <1>6 DEF CheckSendAvailability
<1>7. CASE KdfWithdraws
  <2>1. send.tx.coin \in Coins /\ send \in Calls
    BY <1>7 DEF KdfWithdraws, SendFits
  <2>2. real[send.tx.coin] \in Nat /\ send.tx.amount \in Nat
    BY <2>1 DEF ChainTypes, Calls, Transaction
  <2> DEFINE left == IF send.max THEN real[send.tx.coin] ELSE send.tx.amount
             next == IF send.tx.coin \in ShieldedCoins THEN "waiting" ELSE "answered"
  <2>3. left \in Nat /\ next \in {"waiting", "answered"}
    BY <2>2
  <2>4. send' = [send EXCEPT !.at = next, !.tx.amount = left]
    BY <1>7 DEF KdfWithdraws
  <2> HIDE DEF left, next
  <2>5. [send.tx EXCEPT !.amount = left] \in Transaction
    BY <2>1, <2>3 DEF Calls, Transaction
  <2>6. send' = [send EXCEPT !.at = next, !.tx = [send.tx EXCEPT !.amount = left]]
    BY <2>1, <2>4 DEF Calls
  <2>7. send' \in Calls
    BY <2>1, <2>3, <2>5, <2>6 DEF Calls
  <2> QED BY <1>7, <2>7 DEF KdfWithdraws
<1>8. CASE WithdrawStatus
  <2>1. send' \in Calls
    BY <1>8 DEF WithdrawStatus, Calls
  <2>2. tries \in 0..LoopLimit /\ tries # LoopLimit /\ LoopLimit \in Nat
    BY <1>8, WalletPageAssumption DEF WithdrawStatus, SendFits
  <2>3. tries' \in 0..LoopLimit
    BY <1>8, <2>2 DEF WithdrawStatus
  <2> QED BY <1>8, <2>1, <2>3 DEF WithdrawStatus
<1>9. CASE WithdrawTimesOut
  <2>1. 0 \in 0..LoopLimit
    BY WalletPageAssumption
  <2> QED BY <1>a, <1>9, <2>1 DEF WithdrawTimesOut
<1>10. CASE SendAnswered
  <2>1. send.tx \in Transaction /\ send.tx.amount \in Nat /\ modal \in Modals
    BY DEF Calls, Transaction
  <2>2. [modal EXCEPT !.at = "confirm", !.result = send.tx,
                      !.typed = IF send.max THEN send.tx.amount ELSE modal.typed] \in Modals
    BY <2>1 DEF Modals
  <2>3. modal' \in Modals
    BY <1>10, <2>2 DEF SendAnswered
  <2>4. tries' \in 0..LoopLimit
    BY <1>10, WalletPageAssumption DEF SendAnswered
  <2> QED BY <1>a, <1>10, <2>3, <2>4 DEF SendAnswered
<1>11. CASE SendFails
  <2>1. modal' \in Modals
    BY <1>11 DEF SendFails, Close
  <2> QED BY <1>a, <1>11, <2>1, SpendType DEF SendFails
<1>12. CASE KdfBroadcasts
  <2>1. broadcast' \in Broadcasts
    BY <1>12 DEF KdfBroadcasts, Broadcasts
  <2> QED BY <1>12, <2>1 DEF KdfBroadcasts
<1>13. CASE BroadcastSent
  <2>1. page.ticker \in Coins /\ Balance(page.ticker) \in Nat
    BY BalanceType DEF Pages
  <2>2. broadcast' \in Broadcasts
    BY <1>13, <2>1 DEF BroadcastSent, Broadcasts
  <2>3. page' \in Pages
    BY <1>a, <1>13 DEF BroadcastSent
  <2> QED BY <1>13, <2>2, <2>3, ShownSent DEF BroadcastSent
<1>14. CASE DecreaseFakeBalance \/ BroadcastRefused
  BY <1>a, <1>14 DEF DecreaseFakeBalance, BroadcastRefused
<1>15. CASE BroadcastFails
  <2>1. modal' \in Modals
    BY <1>15, ShownSent DEF BroadcastFails
  <2> QED BY <1>a, <1>15, <2>1, SpendType DEF BroadcastFails
<1>16. CASE UNCHANGED vars
  BY <1>16 DEF vars
<1> QED BY <1>1, <1>2, <1>3, <1>4, <1>5, <1>6, <1>7, <1>8, <1>9, <1>10, <1>11, <1>12, <1>13, <1>14, <1>15, <1>16
        DEF Next, User, Sending

Fits == PageFits /\ SendFits /\ ConfirmFits /\ BroadcastFits /\ ShownAsSent

LEMMA FitsStep == ChainTypes /\ PageTypes /\ PageTypes' /\ Fits /\ [Next]_vars => Fits'
<1> SUFFICES ASSUME ChainTypes, PageTypes, PageTypes', Fits, [Next]_vars PROVE Fits'
  OBVIOUS
<1> USE Values DEF Fits, PageFits, SendFits, ConfirmFits, BroadcastFits, ShownAsSent
<1>a. /\ page.send_busy \in BOOLEAN /\ page.broadcast_busy \in BOOLEAN
      /\ page'.send_busy \in BOOLEAN /\ page'.broadcast_busy \in BOOLEAN
  BY DEF PageTypes, Pages
<1>1. CASE \E coin \in Coins : SetCurrentTicker(coin)
  BY <1>1 DEF SetCurrentTicker, PageTypes, Pages, chain
<1>2. CASE OpenModal \/ CloseModal \/ BackToPrepare
  <2>1. modal'.at \in {"prepare", "closed"} /\ UNCHANGED <<chain, enabled, page, send, broadcast, tries, excuses>>
    BY <1>2 DEF OpenModal, CloseModal, BackToPrepare, Close, PageTypes, Modals
  <2>2. broadcast.at \notin {"asked", "sent", "refused"}
    BY <1>2 DEF OpenModal, CloseModal, BackToPrepare
  <2> QED BY <2>1, <2>2 DEF chain
<1>3. CASE \E amount \in Amounts : PrepareSend(amount)
  <2>1. /\ modal.at = "prepare" /\ modal'.at = "prepare" /\ send'.at = "asked"
        /\ send'.tx.coin = page.ticker /\ page'.ticker = page.ticker
        /\ page'.send_busy = TRUE /\ page'.broadcast_busy = page.broadcast_busy
        /\ page.send_busy = FALSE
        /\ UNCHANGED <<chain, enabled, broadcast, tries, excuses>>
    BY <1>3, <1>a DEF PrepareSend, PageTypes, Pages, Modals
  <2>2. page.ticker \in Coins
    BY DEF PageTypes, Pages
  <2> QED BY <2>1, <2>2, <1>a DEF chain
<1>4. CASE SendCoin
  <2>1. /\ broadcast'.at = "asked" /\ broadcast'.coin = page.ticker /\ broadcast'.tx = modal.result
        /\ page'.ticker = page.ticker /\ page'.send_busy = page.send_busy /\ page'.broadcast_busy = TRUE
        /\ modal.at = "confirm" /\ UNCHANGED <<chain, enabled, modal, send, tries, excuses>>
    BY <1>4 DEF SendCoin, PageTypes, Pages, Broadcasts
  <2> QED BY <2>1, <1>a DEF chain
<1>5. CASE Balances
  <2>1. /\ UNCHANGED <<ledger, page, modal, send, broadcast, tries>>
        /\ "late" \in excuses => "late" \in excuses'
        /\ "text" \in excuses => "text" \in excuses'
        /\ page.ticker \in enabled'
    BY <1>5 DEF Balances, FetchSingleBalance, BalanceFails, CheckBalance, WriteBalance, ActivateSlp,
          DisableCoin, FundsArrive, chain
  <2> QED BY <2>1
<1>6. CASE CheckSendAvailability
  <2>1. /\ page'.ticker = page.ticker /\ page'.send_busy = page.send_busy
        /\ page'.broadcast_busy = page.broadcast_busy
        /\ UNCHANGED <<chain, enabled, modal, send, broadcast, tries, excuses>>
    BY <1>6 DEF CheckSendAvailability, PageTypes, Pages
  <2> QED BY <2>1 DEF chain
<1>7. CASE KdfWithdraws
  <2>1. /\ send.at = "asked" /\ send'.at \in {"waiting", "answered"} /\ send'.tx.coin = send.tx.coin
        /\ UNCHANGED <<chain, enabled, page, modal, broadcast, tries, excuses>>
    BY <1>7 DEF KdfWithdraws, PageTypes, Calls, Transaction
  <2> QED BY <2>1, <1>a DEF chain
<1>8. CASE WithdrawStatus
  <2>1. /\ send.at = "waiting" /\ send'.at \in {"waiting", "answered", "timed_out"}
        /\ send'.tx.coin = send.tx.coin
        /\ UNCHANGED <<chain, enabled, page, modal, broadcast, excuses>>
    BY <1>8 DEF WithdrawStatus, PageTypes, Calls, Transaction
  <2>2. tries' = LoopLimit => send'.at = "timed_out"
    <3>1. CASE tries' = tries
      BY <2>1, <3>1
    <3>2. CASE tries' = tries + 1 /\ ~(tries' < LoopLimit)
      BY <1>8, <3>2 DEF WithdrawStatus, PageTypes, Calls
    <3>3. CASE tries' < LoopLimit
      <4>1. tries' # LoopLimit
        BY <3>3, WalletPageAssumption DEF PageTypes
      <4> QED BY <4>1
    <3> QED BY <1>8, <3>1, <3>2, <3>3 DEF WithdrawStatus
  <2> QED BY <2>1, <2>2, <1>a DEF chain
<1>9. CASE WithdrawTimesOut
  <2>1. /\ send.at = "timed_out" /\ send'.at = "free" /\ tries' = 0 /\ page'.send_busy = FALSE
        /\ page'.ticker = page.ticker /\ page'.broadcast_busy = page.broadcast_busy
        /\ UNCHANGED <<chain, enabled, modal, broadcast, excuses>>
    BY <1>9 DEF WithdrawTimesOut, PageTypes, Pages
  <2>2. LoopLimit # 0
    BY WalletPageAssumption
  <2> QED BY <2>1, <2>2, <1>a DEF chain
<1>10. CASE SendAnswered
  <2>1. /\ send.at = "answered" /\ send'.at = "free" /\ tries' \in {0, tries} /\ page'.send_busy = FALSE
        /\ page'.ticker = page.ticker /\ page'.broadcast_busy = page.broadcast_busy
        /\ UNCHANGED <<chain, enabled, broadcast>>
        /\ modal.at = "closed" => modal' = modal
        /\ modal.at # "closed" => modal'.at = "confirm" /\ modal'.result = send.tx
        /\ modal.at # "closed" /\ send.tx.coin # page.ticker => "late" \in excuses'
        /\ "late" \in excuses => "late" \in excuses'
        /\ "text" \in excuses => "text" \in excuses'
    BY <1>10 DEF SendAnswered, PageTypes, Pages, Modals
  <2>2. LoopLimit # 0 /\ tries # LoopLimit
    BY <2>1, WalletPageAssumption
  <2>3. modal.at \notin {"confirm", "sent"} /\ broadcast.at \notin {"asked", "sent", "refused"}
    BY <2>1
  <2> QED BY <2>1, <2>2, <2>3, <1>a DEF chain
<1>11. CASE SendFails
  <2>1. /\ send.at # "free" /\ send'.at = "free" /\ page'.send_busy = FALSE
        /\ modal' = modal \/ modal'.at = "closed"
        /\ send.at # "timed_out"
        /\ page'.ticker = page.ticker /\ page'.broadcast_busy = page.broadcast_busy
        /\ UNCHANGED <<chain, enabled, broadcast, tries, excuses>>
    BY <1>11 DEF SendFails, Close, PageTypes, Pages
  <2>2. broadcast.at \notin {"asked", "sent", "refused"} /\ tries # LoopLimit
    BY <2>1
  <2> QED BY <2>1, <2>2, <1>a DEF chain
<1>12. CASE KdfBroadcasts
  <2>1. /\ broadcast.at = "asked" /\ broadcast'.at \in {"sent", "refused"} /\ broadcast'.tx = broadcast.tx
        /\ ledger \subseteq ledger'
        /\ broadcast'.at = "sent" => broadcast.tx \in ledger'
        /\ UNCHANGED <<enabled, page, modal, send, tries, excuses>>
    BY <1>12 DEF KdfBroadcasts, chain, PageTypes, Broadcasts
  <2> QED BY <2>1, <1>a
<1>13. CASE BroadcastSent
  <2>1. modal'.at = "sent" /\ modal'.result = modal.result
    BY <1>13, ShownSent DEF BroadcastSent, PageTypes
  <2>2. /\ broadcast.at = "sent" /\ broadcast'.at \in {"read", "free"}
        /\ page'.ticker = page.ticker /\ page'.send_busy = page.send_busy
        /\ broadcast'.at = "free" => page'.broadcast_busy = FALSE
        /\ broadcast'.at = "read" => page'.broadcast_busy = page.broadcast_busy
        /\ UNCHANGED <<chain, enabled, send, tries, excuses>>
    BY <1>13 DEF BroadcastSent, PageTypes, Pages, Broadcasts
  <2> QED BY <2>1, <2>2, <1>a DEF chain
<1>14. CASE DecreaseFakeBalance \/ BroadcastRefused
  <2>1. /\ broadcast'.at = "free" /\ page'.ticker = page.ticker /\ page'.send_busy = page.send_busy
        /\ page'.broadcast_busy = FALSE /\ (modal' = modal \/ modal'.at = "prepare")
        /\ UNCHANGED <<chain, enabled, send, tries, excuses>>
    BY <1>14 DEF DecreaseFakeBalance, BroadcastRefused, PageTypes, Pages
  <2> QED BY <2>1, <1>a DEF chain
<1>15. CASE BroadcastFails
  <2>1. /\ broadcast'.at = "free" /\ page'.ticker = page.ticker /\ page'.send_busy = page.send_busy
        /\ page'.broadcast_busy = FALSE /\ broadcast.at \in {"asked", "sent"}
        /\ UNCHANGED <<chain, enabled, send, tries>>
        /\ "late" \in excuses => "late" \in excuses'
        /\ "text" \in excuses => "text" \in excuses'
    BY <1>15 DEF BroadcastFails, PageTypes, Pages
  <2>2. \/ modal'.at = "prepare"
        \/ modal'.at = "sent" /\ modal'.result = modal.result /\ "text" \in excuses'
    BY <1>15, ShownSent DEF BroadcastFails, PageTypes
  <2> QED BY <2>1, <2>2, <1>a DEF chain
<1>16. CASE UNCHANGED vars
  BY <1>16 DEF vars, chain
<1> QED BY <1>1, <1>2, <1>3, <1>4, <1>5, <1>6, <1>7, <1>8, <1>9, <1>10, <1>11, <1>12, <1>13, <1>14, <1>15, <1>16
        DEF Next, User, Sending

-----------------------------------------------------------------------------
(* The balances of a camouflage session.                                   *)

Excused == excuses \intersect {"activated", "raced"} # {}

\* A thread that is to write a balance found it unknown, and a payment lowers the
\* balance it has read.
CamouflageFits ==
    /\ \A i \in Slots : fetches[i].at # "free" => fetches[i].coin \in Coins
    /\ broadcast.at = "read" => broadcast.coin \in Coins
    /\ pinned /\ ~Excused =>
         /\ \A i \in Slots : fetches[i].at = "checked" => balance[fetches[i].coin] = Unknown
         /\ broadcast.at = "read" => balance[broadcast.coin] = broadcast.seen

NoGrowth == pinned /\ ~Excused' => \A c \in Coins : balance[c] # Unknown => balance'[c] <= balance[c]

LEMMA NoGrowthUnchanged == ASSUME ChainTypes, balance' = balance PROVE NoGrowth
<1>1. ASSUME NEW c \in Coins, balance[c] # Unknown PROVE balance'[c] <= balance[c]
  <2>1. balance[c] \in Nat
    BY <1>1 DEF ChainTypes
  <2> QED BY <2>1
<1> QED BY <1>1 DEF NoGrowth

LEMMA ExcusesStay == [Next]_vars => excuses \subseteq excuses' /\ pinned' = pinned
BY DEF Next, User, Balances, Sending, SetCurrentTicker, OpenModal, CloseModal, BackToPrepare, PrepareSend,
       SendCoin, FetchSingleBalance, BalanceFails, CheckBalance, WriteBalance, ActivateSlp, DisableCoin,
       FundsArrive, CheckSendAvailability, KdfWithdraws, WithdrawStatus, WithdrawTimesOut, SendAnswered,
       SendFails, KdfBroadcasts, BroadcastSent, DecreaseFakeBalance, BroadcastRefused, BroadcastFails, vars

\* The write of an answer: no other thread is to write the same balance.
LEMMA WriteStep ==
    ASSUME ChainTypes, PageTypes, CamouflageFits, NEW i \in Slots, WriteBalance(i), Excused => Excused'
    PROVE  CamouflageFits' /\ NoGrowth
<1>1. /\ fetches[i].at = "checked" /\ fetches' = [fetches EXCEPT ![i] = FreeFetch]
      /\ balance' = [balance EXCEPT ![fetches[i].coin] = Camouflaged(fetches[i].value)]
      /\ UNCHANGED <<pinned, broadcast>>
  BY DEF WriteBalance
<1>2. fetches[i].coin \in Coins
  BY <1>1 DEF CamouflageFits
<1>3. \A j \in Slots : fetches'[j].at # "free" => j # i /\ fetches'[j] = fetches[j]
  BY <1>1, Values DEF ChainTypes
<1>4. \A c \in Coins : c # fetches[i].coin => balance'[c] = balance[c]
  BY <1>1 DEF ChainTypes
<1>5. ASSUME pinned, ~Excused'
      PROVE  /\ ~Excused /\ balance[fetches[i].coin] = Unknown
             /\ \A j \in Slots \ {i} : fetches[j].at = "checked" => fetches[j].coin # fetches[i].coin
  BY <1>1, <1>5 DEF WriteBalance, Excused, CamouflageFits
<1>6. NoGrowth
  <2>1. ASSUME pinned, ~Excused', NEW c \in Coins, balance[c] # Unknown PROVE balance'[c] <= balance[c]
    <3>1. balance[c] \in Nat /\ balance'[c] = balance[c]
      BY <1>4, <1>5, <2>1 DEF ChainTypes
    <3> QED BY <3>1
  <2> QED BY <2>1 DEF NoGrowth
<1>7. ASSUME pinned', ~Excused'
      PROVE  /\ \A j \in Slots : fetches'[j].at = "checked" => balance'[fetches'[j].coin] = Unknown
             /\ broadcast'.at = "read" => balance'[broadcast'.coin] = broadcast'.seen
  <2>1. pinned /\ ~Excused
    BY <1>1, <1>7
  <2>2. ASSUME NEW j \in Slots, fetches'[j].at = "checked" PROVE balance'[fetches'[j].coin] = Unknown
    <3>1. j # i /\ fetches'[j] = fetches[j]
      BY <1>3, <2>2
    <3>2. fetches[j].coin \in Coins /\ balance[fetches[j].coin] = Unknown /\ fetches[j].coin # fetches[i].coin
      BY <1>5, <1>7, <2>1, <2>2, <3>1 DEF CamouflageFits
    <3> QED BY <1>4, <3>1, <3>2
  <2>3. ASSUME broadcast'.at = "read" PROVE balance'[broadcast'.coin] = broadcast'.seen
    <3>1. broadcast.at = "read" /\ broadcast.coin \in Coins /\ balance[broadcast.coin] = broadcast.seen
      BY <1>1, <2>1, <2>3 DEF CamouflageFits
    <3>2. broadcast.seen # Unknown
      <4>1. broadcast.seen \in Nat
        BY DEF PageTypes, Broadcasts
      <4> QED BY <4>1 DEF Unknown
    <3>3. broadcast.coin # fetches[i].coin
      BY <1>1, <1>5, <1>7, <3>1, <3>2
    <3> QED BY <1>1, <1>4, <3>1, <3>3
  <2> QED BY <2>2, <2>3
<1> QED BY <1>1, <1>3, <1>6, <1>7 DEF CamouflageFits

LEMMA LowerStep ==
    ASSUME ChainTypes, PageTypes, CamouflageFits, DecreaseFakeBalance, Excused => Excused'
    PROVE  CamouflageFits' /\ NoGrowth
<1> DEFINE left == IF broadcast.typed > broadcast.seen THEN 0 ELSE broadcast.seen - broadcast.typed
<1>1. broadcast.typed \in Nat /\ broadcast.seen \in Nat
  BY DEF PageTypes, Broadcasts
<1>2. left \in Nat /\ left <= broadcast.seen
  BY <1>1
<1>3. /\ broadcast.at = "read" /\ broadcast.coin \in Coins /\ broadcast' = FreeBroadcast
      /\ balance' = [balance EXCEPT ![broadcast.coin] = left] /\ UNCHANGED <<pinned, fetches, excuses>>
  BY DEF DecreaseFakeBalance, CamouflageFits
<1> HIDE DEF left
<1>4. Excused' <=> Excused
  BY <1>3 DEF Excused
<1>5. /\ balance'[broadcast.coin] = left
      /\ \A c \in Coins : c # broadcast.coin => balance'[c] = balance[c]
  BY <1>3 DEF ChainTypes
<1>6. NoGrowth
  <2>1. ASSUME pinned, ~Excused', NEW c \in Coins, balance[c] # Unknown PROVE balance'[c] <= balance[c]
    <3>1. balance[c] \in Nat
      BY <2>1 DEF ChainTypes
    <3>2. CASE c = broadcast.coin
      BY <1>2, <1>3, <1>4, <1>5, <2>1, <3>1, <3>2 DEF CamouflageFits
    <3>3. CASE c # broadcast.coin
      BY <1>5, <3>1, <3>3
    <3> QED BY <3>2, <3>3
  <2> QED BY <2>1 DEF NoGrowth
<1>7. ASSUME pinned, ~Excused, NEW j \in Slots, fetches[j].at = "checked"
      PROVE  balance'[fetches[j].coin] = Unknown
  <2>1. fetches[j].coin \in Coins /\ balance[fetches[j].coin] = Unknown /\ balance[broadcast.coin] \in Nat
    BY <1>1, <1>3, <1>7 DEF CamouflageFits
  <2>2. fetches[j].coin # broadcast.coin
    BY <2>1 DEF Unknown
  <2> QED BY <1>5, <2>1, <2>2
<1> QED BY <1>3, <1>4, <1>6, <1>7, Values DEF CamouflageFits

LEMMA CamouflageStep ==
    SentInv /\ CamouflageFits /\ [Next]_vars => CamouflageFits' /\ NoGrowth
<1> SUFFICES ASSUME SentInv, CamouflageFits, [Next]_vars PROVE CamouflageFits' /\ NoGrowth
  OBVIOUS
<1>a. ChainTypes /\ PageTypes /\ PageFits
  BY DEF SentInv
<1>b. (Excused => Excused') /\ pinned' = pinned
  BY ExcusesStay DEF Excused
<1>1. CASE \E i \in Slots : WriteBalance(i)
  BY <1>1, <1>a, <1>b, WriteStep
<1>2. CASE DecreaseFakeBalance
  BY <1>2, <1>a, <1>b, LowerStep
<1>3. CASE \E i \in Slots : (\E coin \in Coins : FetchSingleBalance(i, coin)) \/ BalanceFails(i) \/ CheckBalance(i)
  <2>1. PICK i \in Slots : (\E coin \in Coins : FetchSingleBalance(i, coin)) \/ BalanceFails(i) \/ CheckBalance(i)
    BY <1>3
  <2>2. UNCHANGED <<balance, broadcast>> /\ \A j \in Slots : j # i => fetches'[j] = fetches[j]
    BY <1>a, <2>1 DEF FetchSingleBalance, BalanceFails, CheckBalance, ChainTypes
  <2>3. \/ fetches'[i].at = "free"
        \/ fetches'[i].at = "answered" /\ fetches'[i].coin \in Coins
        \/ /\ fetches'[i].at = "checked" /\ fetches'[i].coin \in Coins
           /\ pinned => balance[fetches'[i].coin] = Unknown
    <3>1. CASE \E coin \in Coins : FetchSingleBalance(i, coin)
      BY <1>a, <3>1 DEF FetchSingleBalance, ChainTypes
    <3>2. CASE BalanceFails(i)
      BY <1>a, <3>2, Values DEF BalanceFails, ChainTypes
    <3>3. CASE CheckBalance(i)
      <4>1. fetches[i].coin \in Coins
        BY <3>3 DEF CheckBalance, CamouflageFits
      <4>2. CASE pinned /\ balance[fetches[i].coin] # Unknown
        BY <1>a, <3>3, <4>2, Values DEF CheckBalance, ChainTypes
      <4>3. CASE ~(pinned /\ balance[fetches[i].coin] # Unknown)
        <5>1. fetches'[i] = [fetches[i] EXCEPT !.at = "checked"] /\ fetches[i] \in Fetches
          BY <1>a, <3>3, <4>3 DEF CheckBalance, ChainTypes
        <5>2. fetches'[i].at = "checked" /\ fetches'[i].coin = fetches[i].coin
          BY <5>1 DEF Fetches
        <5> QED BY <4>1, <4>3, <5>2
      <4> QED BY <4>2, <4>3
    <3> QED BY <2>1, <3>1, <3>2, <3>3
  <2>4. CamouflageFits'
    BY <1>b, <2>2, <2>3 DEF CamouflageFits
  <2> QED BY <1>a, <2>2, <2>4, NoGrowthUnchanged
<1>4. CASE \E tokens \in SUBSET Tokens : ActivateSlp(tokens)
  <2>1. UNCHANGED <<fetches, broadcast>> /\ (pinned => Excused')
    BY <1>4 DEF ActivateSlp, Excused
  <2> QED BY <1>b, <2>1 DEF CamouflageFits, NoGrowth
<1>5. CASE BroadcastSent
  <2>1. UNCHANGED <<balance, fetches>>
    BY <1>5 DEF BroadcastSent
  <2>2. page.ticker \in Coins /\ page.ticker \in enabled
    BY <1>a DEF PageTypes, Pages, PageFits
  <2>3. broadcast'.at = "read" =>
          broadcast'.coin = page.ticker /\ broadcast'.seen = balance[page.ticker]
    BY <1>5, <1>a, <2>2, Values DEF BroadcastSent, PageTypes, Broadcasts, Balance
  <2>4. CamouflageFits'
    BY <1>b, <2>1, <2>2, <2>3 DEF CamouflageFits
  <2> QED BY <1>a, <2>1, <2>4, NoGrowthUnchanged
<1>6. CASE SendCoin \/ KdfBroadcasts \/ BroadcastRefused \/ BroadcastFails
  <2>1. UNCHANGED <<balance, fetches>> /\ broadcast'.at # "read"
    BY <1>6, <1>a, Values DEF SendCoin, KdfBroadcasts, BroadcastRefused, BroadcastFails, PageTypes, Broadcasts
  <2>2. CamouflageFits'
    BY <1>b, <2>1 DEF CamouflageFits
  <2> QED BY <1>a, <2>1, <2>2, NoGrowthUnchanged
<1>7. ASSUME UNCHANGED <<balance, fetches, broadcast>> PROVE CamouflageFits' /\ NoGrowth
  BY <1>7, <1>a, <1>b, NoGrowthUnchanged DEF CamouflageFits
<1>8. CASE \E coin \in Coins : DisableCoin(coin) \/ FundsArrive(coin)
  BY <1>7, <1>8 DEF DisableCoin, FundsArrive
<1>9. CASE User /\ ~SendCoin
  BY <1>7, <1>9 DEF User, SetCurrentTicker, OpenModal, CloseModal, BackToPrepare, PrepareSend
<1>10. CASE CheckSendAvailability \/ KdfWithdraws \/ WithdrawStatus \/ WithdrawTimesOut \/ SendAnswered \/ SendFails
  BY <1>7, <1>10 DEF CheckSendAvailability, KdfWithdraws, WithdrawStatus, WithdrawTimesOut, SendAnswered, SendFails
<1>11. CASE UNCHANGED vars
  BY <1>7, <1>11 DEF vars
<1> QED BY <1>1, <1>2, <1>3, <1>4, <1>5, <1>6, <1>8, <1>9, <1>10, <1>11 DEF Next, User, Balances, Sending

-----------------------------------------------------------------------------
(* The theorems.                                                           *)

LEMMA SentInit == Init => SentInv
<1> SUFFICES ASSUME Init PROVE SentInv
  OBVIOUS
<1>1. enabled \subseteq Coins /\ Funds \in Nat /\ 1 \in 0..LoopLimit /\ 1 # LoopLimit
  BY WalletPageAssumption DEF Init
<1>2. ChainTypes
  BY <1>1, Values DEF Init, ChainTypes
<1>3. page \in Pages /\ page.ticker \in enabled /\ page.send_busy = FALSE /\ page.broadcast_busy = FALSE
  <2>1. [send |-> FALSE, fees |-> TRUE] \in Availabilities
    BY DEF Availabilities
  <2>2. PICK none : none \in Availabilities /\ none = [send |-> FALSE, fees |-> TRUE]
    BY <2>1
  <2>3. page \in [ticker : enabled, send_busy : {FALSE}, broadcast_busy : {FALSE}, available : {none}]
    BY <2>2 DEF Init
  <2> QED BY <1>1, <2>2, <2>3 DEF Pages
<1>4. PageTypes
  BY <1>1, <1>3, Values DEF Init, PageTypes
<1> QED BY <1>1, <1>2, <1>3, <1>4, Values DEF Init, SentInv, PageFits, SendFits, ConfirmFits, BroadcastFits, ShownAsSent

LEMMA SentStep == SentInv /\ [Next]_vars => SentInv'
<1> SUFFICES ASSUME SentInv, [Next]_vars PROVE SentInv'
  OBVIOUS
<1>1. ChainTypes' /\ PageTypes'
  BY ChainTypesStep, PageTypesStep DEF SentInv
<1>2. Fits'
  BY <1>1, FitsStep DEF SentInv, Fits
<1> QED BY <1>1, <1>2 DEF SentInv, Fits

LEMMA SentInvHolds == SentInv => SentIsConfirmed
<1> SUFFICES ASSUME SentInv PROVE SentIsConfirmed
  OBVIOUS
<1>1. TypeOK
  BY DEF SentInv, ChainTypes, PageTypes, PageFits, TypeOK, Modals, Calls, Broadcasts
<1>2. BroadcastIsOfTheCoin
  BY DEF SentInv, BroadcastFits, ConfirmFits, BroadcastIsOfTheCoin
<1> QED BY <1>1, <1>2 DEF SentInv, SentIsConfirmed

\* For any coins, amounts, tries and fetches: what is broadcast is of the coin of
\* the page unless its answer came late, and what the modal calls sent is in the
\* ledger unless the text of an exception was taken for a hash.
THEOREM WhatIsSentWasConfirmed == Spec => []SentIsConfirmed
<1>1. Spec => []SentInv
  BY SentInit, SentStep, PTL DEF Spec
<1> QED BY <1>1, SentInvHolds, PTL

\* For any coins, fetches and failures: no step of a camouflage session makes a
\* known balance larger, whatever arrives and whatever fetches overtake a payment,
\* but after an SLP activation or two threads that found the balance unknown.
THEOREM CamouflageBalancesNeverGrow == Spec => CamouflageNeverGrows
<1> DEFINE Kept == pinned => \A c \in Coins : balance[c] # Unknown => balance'[c] <= balance[c]
                                  \/ excuses' \intersect {"activated", "raced"} # {}
<1>1. Init => SentInv /\ CamouflageFits
  BY SentInit, Values DEF Init, CamouflageFits
<1>2. SentInv /\ CamouflageFits /\ [Next]_vars => SentInv' /\ CamouflageFits'
  BY SentStep, CamouflageStep
<1>3. SentInv /\ CamouflageFits /\ [Next]_vars => [Kept]_vars
  BY CamouflageStep DEF NoGrowth, Excused
<1> HIDE DEF Kept
<1>4. Spec => [][Kept]_vars
  BY <1>1, <1>2, <1>3, PTL DEF Spec
<1> QED BY <1>4 DEF CamouflageNeverGrows, Kept
=============================================================================
