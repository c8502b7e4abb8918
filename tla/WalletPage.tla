----------------------------- MODULE WalletPage -----------------------------
(***************************************************************************)
(* Balances and sending. kdf_service keeps the balance of each coin: true, *)
(* or, for a session opened with the camouflage password, a part of it     *)
(* that is fetched once and then only lowered by what is sent. wallet_page *)
(* asks the daemon for a withdrawal (in one call, or for a shielded coin   *)
(* by a task it polls), SendModal shows the answer, and the user           *)
(* broadcasts it. Answers are handled by worker threads, which also write  *)
(* the balances.                                                           *)
(*                                                                         *)
(* Abstracted: a transaction is a coin, an amount and a number; fees,      *)
(* memos, fiat amounts and the fields of an address are left out. The two  *)
(* notifications of an answer (its data, and that nothing is busy now) are *)
(* one step. A daemon that has the funds may still refuse.                 *)
(***************************************************************************)
EXTENDS Integers, FiniteSets

CONSTANTS
    Coins,
    Platform,       \* BCH
    Tokens,         \* SLP tokens: fees are paid in Platform
    ShieldedCoins,
    Sessions,       \* the sets of coins a session begins with
    Slots,          \* bound: fetches of a balance at a time
    Amounts,        \* what is typed
    Funds,          \* what a coin has at first
    LoopLimit,      \* loop_limit, 600
    MaxCommands,    \* bound: commands of the user
    MaxEvents,      \* bound: coins that come and go, funds that arrive
    MaxFailures     \* bound: calls that fail

ASSUME WalletPageAssumption ==
    /\ Platform \in Coins
    /\ Tokens \subseteq Coins \ {Platform}
    /\ ShieldedCoins \subseteq Coins \ (Tokens \union {Platform})
    /\ Sessions \subseteq (SUBSET Coins) \ {{}}
    /\ Amounts \subseteq Nat \ {0}
    /\ Funds \in Nat
    /\ LoopLimit \in Nat \ {0, 1}
    /\ {MaxCommands, MaxEvents, MaxFailures} \subseteq Nat

VARIABLES
    pinned,     \* is_pin_cfg_enabled: opened with the camouflage password
    real,       \* external: what the daemon says of each coin
    ledger,     \* external: the transactions taken by the network
    enabled,    \* currently_enabled
    balance,    \* m_balance_informations
    fetches,    \* calls for a balance, and the threads that handle them
    page,       \* wallet_page
    modal,      \* SendModal
    send,       \* the withdrawal under way
    broadcast,  \* the broadcast under way
    tries,      \* z_nb_try, a static of wallet_page::send
    excuses,    \* history: what may have gone wrong
    used        \* bound: events so far

chain == <<real, ledger>>
vars == <<pinned, chain, enabled, balance, fetches, page, modal, send, broadcast, tries, excuses, used>>

Spend(what, max) == used[what] < max /\ used' = [used EXCEPT ![what] = @ + 1]

Unknown == -1
NoTx == [coin |-> "", amount |-> 0, nr |-> 0]
FreeFetch == [at |-> "free", coin |-> "", value |-> 0]
FreeCall == [at |-> "free", tx |-> NoTx, max |-> FALSE]
FreeBroadcast == [at |-> "free", coin |-> "", tx |-> NoTx, typed |-> 0, seen |-> 0]
Closed == [at |-> "closed", result |-> NoTx, typed |-> 0]

\* t_float_50(balance) * m_balance_factor
Camouflaged(n) == IF pinned THEN n \div 2 ELSE n

\* get_balance_info
Balance(coin) == IF coin \in enabled /\ balance[coin] # Unknown THEN balance[coin] ELSE 0

\* check_send_availability
Availability(coin) ==
    LET fees == IF coin \in Tokens THEN Platform ELSE coin
    IN [send |-> Balance(coin) > 0 /\ (fees \in enabled => Balance(fees) > 0),
        fees |-> Balance(coin) > 0 => fees \in enabled]

Init ==
    /\ pinned \in BOOLEAN
    /\ real = [c \in Coins |-> Funds]
    /\ ledger = {}
    /\ enabled \in Sessions
    /\ balance = [c \in Coins |-> Unknown]
    /\ fetches = [i \in Slots |-> FreeFetch]
    /\ page \in [ticker : enabled, send_busy : {FALSE}, broadcast_busy : {FALSE},
                 available : {[send |-> FALSE, fees |-> TRUE]}]
    /\ modal = Closed
    /\ send = FreeCall
    /\ broadcast = FreeBroadcast
    /\ tries = 1
    /\ excuses = {}
    /\ used = [commands |-> 0, events |-> 0, failures |-> 0, sends |-> 0]

----------------------------------------------------------------------------
(* Balances                                                                *)

\* fetch_single_balance: a known balance is not asked for again in camouflage.
\* The answer is on its way as soon as the call is.
FetchSingleBalance(i, coin) ==
    /\ fetches[i].at = "free"
    /\ \A j \in Slots : fetches[j].at = "free" => ~(j < i)
    /\ coin \in enabled
    /\ pinned => balance[coin] = Unknown
    /\ fetches' = [fetches EXCEPT ![i] = [at |-> "answered", coin |-> coin, value |-> real[coin]]]
    /\ UNCHANGED <<pinned, chain, enabled, balance, page, modal, send, broadcast, tries, excuses, used>>

BalanceFails(i) ==
    /\ fetches[i].at = "answered"
    /\ Spend("failures", MaxFailures)
    /\ fetches' = [fetches EXCEPT ![i] = FreeFetch]
    /\ UNCHANGED <<pinned, chain, enabled, balance, page, modal, send, broadcast, tries, excuses>>

\* Seeded fault: a balance that is known is written again.
MutCheckBalance(i) ==
    /\ fetches[i].at = "answered"
    /\ fetches' = [fetches EXCEPT ![i].at = "checked"]
    /\ UNCHANGED <<pinned, chain, enabled, balance, page, modal, send, broadcast, tries, excuses, used>>

\* process_balance_answer, under a shared lock.
CheckBalance(i) ==
    /\ fetches[i].at = "answered"
    /\ fetches' = IF pinned /\ balance[fetches[i].coin] # Unknown
                  THEN [fetches EXCEPT ![i] = FreeFetch]
                  ELSE [fetches EXCEPT ![i].at = "checked"]
    /\ UNCHANGED <<pinned, chain, enabled, balance, page, modal, send, broadcast, tries, excuses, used>>

\* Seeded fault: the first balance is kept, camouflage or not.
MutWriteOnce(i) ==
    /\ fetches[i].at = "checked"
    /\ balance' = [balance EXCEPT ![fetches[i].coin] =
                      IF @ = Unknown THEN Camouflaged(fetches[i].value) ELSE @]
    /\ fetches' = [fetches EXCEPT ![i] = FreeFetch]
    /\ UNCHANGED <<pinned, chain, enabled, page, modal, send, broadcast, tries, excuses, used>>

\* process_balance_answer, under a unique lock taken later.
WriteBalance(i) ==
    /\ fetches[i].at = "checked"
    /\ balance' = [balance EXCEPT ![fetches[i].coin] = Camouflaged(fetches[i].value)]
    /\ excuses' = IF pinned /\ \E j \in Slots \ {i} : fetches[j].at = "checked" /\ fetches[j].coin = fetches[i].coin
                  THEN excuses \union {"raced"} ELSE excuses
    /\ fetches' = [fetches EXCEPT ![i] = FreeFetch]
    /\ UNCHANGED <<pinned, chain, enabled, page, modal, send, broadcast, tries, used>>

\* enable_slp_coins: the answer to the activation of the platform, with the
\* tokens asked for, or to that of one token, is written as it is. That of a
\* token names the platform.
ActivateSlp(tokens) ==
    /\ Spend("events", MaxEvents)
    /\ IF Platform \in enabled
       THEN /\ tokens \ enabled # {} /\ Cardinality(tokens) = 1
            /\ enabled' = enabled \union tokens
            /\ \E token \in tokens : balance' = [balance EXCEPT ![Platform] = real[token]]
       ELSE /\ enabled' = enabled \union tokens \union {Platform}
            /\ balance' = [c \in Coins |-> IF c \in tokens \union {Platform} THEN real[c] ELSE balance[c]]
    /\ excuses' = IF pinned THEN excuses \union {"activated"} ELSE excuses
    /\ UNCHANGED <<pinned, chain, fetches, page, modal, send, broadcast, tries>>

\* Balances outlive the coins.
DisableCoin(coin) ==
    /\ coin \in enabled \ {page.ticker}
    /\ coin = Platform => Tokens \intersect enabled = {}
    /\ Spend("events", MaxEvents)
    /\ enabled' = enabled \ {coin}
    /\ UNCHANGED <<pinned, chain, balance, fetches, page, modal, send, broadcast, tries, excuses>>

FundsArrive(coin) ==
    /\ Spend("events", MaxEvents)
    /\ real' = [real EXCEPT ![coin] = @ + 2]
    /\ UNCHANGED <<pinned, ledger, enabled, balance, fetches, page, modal, send, broadcast, tries, excuses>>

----------------------------------------------------------------------------
(* The page and the modal                                                  *)
\* Seeded fault: the list of coins can be used behind the modal.
MutSetCurrentTicker(coin) ==
    /\ coin \in enabled \ {page.ticker}
    /\ Spend("commands", MaxCommands)
    /\ page' = [page EXCEPT !.ticker = coin, !.available = Availability(coin)]
    /\ UNCHANGED <<pinned, chain, enabled, balance, fetches, modal, send, broadcast, tries, excuses>>

SetCurrentTicker(coin) ==
    /\ modal.at = "closed"
    /\ coin \in enabled \ {page.ticker}
    /\ Spend("commands", MaxCommands)
    /\ page' = [page EXCEPT !.ticker = coin, !.available = Availability(coin)]
    /\ UNCHANGED <<pinned, chain, enabled, balance, fetches, modal, send, broadcast, tries, excuses>>

\* Seeded fault: only what forbids to send is told.
MutCheckSendAvailability ==
    /\ page.available # Availability(page.ticker) /\ page.available.send
    /\ page' = [page EXCEPT !.available = Availability(page.ticker)]
    /\ UNCHANGED <<pinned, chain, enabled, balance, fetches, modal, send, broadcast, tries, excuses, used>>

\* update, every second while the page is open.
CheckSendAvailability ==
    /\ page.available # Availability(page.ticker)
    /\ page' = [page EXCEPT !.available = Availability(page.ticker)]
    /\ UNCHANGED <<pinned, chain, enabled, balance, fetches, modal, send, broadcast, tries, excuses, used>>

OpenModal ==
    /\ modal.at = "closed"
    /\ page.available.send /\ page.available.fees
    /\ modal' = [modal EXCEPT !.at = "prepare"]
    /\ UNCHANGED <<pinned, chain, enabled, balance, fetches, page, send, broadcast, tries, excuses, used>>

\* The loader destroys it.
Close == Closed

\* Cancel is enabled while the withdrawal is under way.
CloseModal ==
    /\ modal.at \in {"prepare", "sent"}
    /\ modal' = Close
    /\ UNCHANGED <<pinned, chain, enabled, balance, fetches, page, send, broadcast, tries, excuses, used>>

\* Back.
BackToPrepare ==
    /\ modal.at = "confirm" /\ ~page.broadcast_busy
    /\ modal' = [modal EXCEPT !.at = "prepare"]
    /\ UNCHANGED <<pinned, chain, enabled, balance, fetches, page, send, broadcast, tries, excuses, used>>

\* prepareSendCoin, and send.
PrepareSend(amount) ==
    /\ modal.at = "prepare" /\ ~page.send_busy
    /\ amount <= Balance(page.ticker)
    /\ Spend("sends", MaxCommands)
    /\ send' = [at |-> "asked", max |-> amount = Balance(page.ticker),
                tx |-> [coin |-> page.ticker, amount |-> amount, nr |-> used.sends + 1]]
    /\ page' = [page EXCEPT !.send_busy = TRUE]
    /\ modal' = [modal EXCEPT !.typed = amount]
    /\ UNCHANGED <<pinned, chain, enabled, balance, fetches, broadcast, tries, excuses>>

\* The daemon answers at once, or begins a task. All of it means all there is.
KdfWithdraws ==
    /\ send.at = "asked"
    /\ send' = [send EXCEPT !.at = IF send.tx.coin \in ShieldedCoins THEN "waiting" ELSE "answered",
                            !.tx.amount = IF send.max THEN real[send.tx.coin] ELSE @]
    /\ UNCHANGED <<pinned, chain, enabled, balance, fetches, page, modal, broadcast, tries, excuses, used>>

\* Seeded fault: the counter wraps.
MutWithdrawStatus ==
    /\ send.at = "waiting"
    /\ \/ send' = [send EXCEPT !.at = "answered"] /\ UNCHANGED tries
       \/ tries' = (tries + 1) % LoopLimit /\ UNCHANGED send
    /\ UNCHANGED <<pinned, chain, enabled, balance, fetches, page, modal, broadcast, excuses, used>>

\* One turn of the loop: the task is done, or not yet.
WithdrawStatus ==
    /\ send.at = "waiting"
    /\ \/ send' = [send EXCEPT !.at = "answered"] /\ UNCHANGED tries
       \/ /\ tries' = tries + 1
          /\ IF tries' < LoopLimit THEN UNCHANGED send ELSE send' = [send EXCEPT !.at = "timed_out"]
    /\ UNCHANGED <<pinned, chain, enabled, balance, fetches, page, modal, broadcast, excuses, used>>

\* Seeded fault: the page stays busy.
MutWithdrawTimesOut ==
    /\ send.at = "timed_out"
    /\ tries' = 0
    /\ send' = FreeCall
    /\ UNCHANGED <<pinned, chain, enabled, balance, fetches, page, modal, broadcast, excuses, used>>

\* "Timed out" is a status of its own: the modal keeps its page.
WithdrawTimesOut ==
    /\ send.at = "timed_out"
    /\ tries' = 0
    /\ send' = FreeCall
    /\ page' = [page EXCEPT !.send_busy = FALSE]
    /\ UNCHANGED <<pinned, chain, enabled, balance, fetches, modal, broadcast, excuses, used>>

\* onSend_rpc_resultChanged, whoever asked.
SendAnswered ==
    /\ send.at = "answered"
    /\ tries' = IF send.tx.coin \in ShieldedCoins THEN 0 ELSE tries
    /\ send' = FreeCall
    /\ page' = [page EXCEPT !.send_busy = FALSE]
    /\ modal' = IF modal.at = "closed" THEN modal
                ELSE [modal EXCEPT !.at = "confirm", !.result = send.tx,
                                   !.typed = IF send.max THEN send.tx.amount ELSE @]
    /\ excuses' = IF modal.at # "closed" /\ send.tx.coin # page.ticker
                  THEN excuses \union {"late"} ELSE excuses
    /\ UNCHANGED <<pinned, chain, enabled, balance, fetches, broadcast, used>>

\* A refusal, or an exception: tries that were made stay counted. One that is
\* caught within the loop is a status too.
SendFails ==
    /\ send.at \in {"asked", "waiting"}
    /\ Spend("failures", MaxFailures)
    /\ send' = FreeCall
    /\ page' = [page EXCEPT !.send_busy = FALSE]
    /\ \/ modal' = Close
       \/ send.at = "waiting" /\ UNCHANGED modal
    /\ UNCHANGED <<pinned, chain, enabled, balance, fetches, broadcast, tries, excuses>>

----------------------------------------------------------------------------
(* broadcast_on_auth_finished                                              *)
SendCoin ==
    /\ modal.at = "confirm" /\ ~page.broadcast_busy
    /\ broadcast' = [FreeBroadcast EXCEPT !.at = "asked", !.coin = page.ticker, !.tx = modal.result,
                                          !.typed = modal.typed]
    /\ page' = [page EXCEPT !.broadcast_busy = TRUE]
    /\ UNCHANGED <<pinned, chain, enabled, balance, fetches, modal, send, tries, excuses, used>>

Valid(b) == b.coin = b.tx.coin /\ b.tx \notin ledger /\ b.tx.amount <= real[b.coin]

KdfBroadcasts ==
    /\ broadcast.at = "asked"
    /\ IF Valid(broadcast)
       THEN /\ ledger' = ledger \union {broadcast.tx}
            /\ real' = [real EXCEPT ![broadcast.coin] = @ - broadcast.tx.amount]
            /\ broadcast' = [broadcast EXCEPT !.at = "sent"]
       ELSE /\ UNCHANGED chain
            /\ broadcast' = [broadcast EXCEPT !.at = "refused"]
    /\ UNCHANGED <<pinned, enabled, balance, fetches, page, modal, send, tries, excuses, used>>

\* Seeded fault: the answer is not looked at.
MutShown(hash) == [modal EXCEPT !.at = "sent"]

\* onBroadcast_resultChanged: a text with "error" in it resets the modal.
Shown(hash) == IF hash THEN [modal EXCEPT !.at = "sent"] ELSE [Closed EXCEPT !.at = "prepare"]

\* The hash is shown; in camouflage the balance is read for what was typed to
\* be subtracted (max does not reach broadcast: send_result was replaced).
BroadcastSent ==
    /\ broadcast.at = "sent"
    /\ modal' = Shown(TRUE)
    /\ IF pinned /\ balance[page.ticker] # Unknown
       THEN /\ broadcast' = [broadcast EXCEPT !.at = "read", !.coin = page.ticker,
                                              !.seen = Balance(page.ticker)]
            /\ UNCHANGED page
       ELSE /\ broadcast' = FreeBroadcast
            /\ page' = [page EXCEPT !.broadcast_busy = FALSE]
    /\ UNCHANGED <<pinned, chain, enabled, balance, fetches, send, tries, excuses, used>>

\* decrease_fake_balance, under a lock taken later.
DecreaseFakeBalance ==
    /\ broadcast.at = "read"
    /\ balance' = [balance EXCEPT ![broadcast.coin] =
                      IF broadcast.typed > broadcast.seen THEN 0 ELSE broadcast.seen - broadcast.typed]
    /\ broadcast' = FreeBroadcast
    /\ page' = [page EXCEPT !.broadcast_busy = FALSE]
    /\ UNCHANGED <<pinned, chain, enabled, fetches, modal, send, tries, excuses, used>>

BroadcastRefused ==
    /\ broadcast.at = "refused"
    /\ modal' = Shown(FALSE)
    /\ broadcast' = FreeBroadcast
    /\ page' = [page EXCEPT !.broadcast_busy = FALSE]
    /\ UNCHANGED <<pinned, chain, enabled, balance, fetches, send, tries, excuses, used>>

\* The call fails, before or after the daemon has done it: the text of the
\* exception is taken for a hash unless it has "error" in it.
BroadcastFails ==
    /\ broadcast.at \in {"asked", "sent"}
    /\ Spend("failures", MaxFailures)
    /\ \E hash \in BOOLEAN :
         /\ modal' = Shown(hash)
         /\ excuses' = IF hash THEN excuses \union {"text"} ELSE excuses
    /\ broadcast' = FreeBroadcast
    /\ page' = [page EXCEPT !.broadcast_busy = FALSE]
    /\ UNCHANGED <<pinned, chain, enabled, balance, fetches, send, tries>>

User ==
    \/ \E coin \in Coins : SetCurrentTicker(coin)
    \/ OpenModal
    \/ CloseModal
    \/ BackToPrepare
    \/ \E amount \in Amounts : PrepareSend(amount)
    \/ SendCoin

Balances ==
    \/ \E i \in Slots :
         \/ \E coin \in Coins : FetchSingleBalance(i, coin)
         \/ BalanceFails(i)
         \/ CheckBalance(i)
         \/ WriteBalance(i)
    \/ \E tokens \in SUBSET Tokens : ActivateSlp(tokens)
    \/ \E coin \in Coins : DisableCoin(coin) \/ FundsArrive(coin)

Sending ==
    \/ CheckSendAvailability
    \/ KdfWithdraws
    \/ WithdrawStatus
    \/ WithdrawTimesOut
    \/ SendAnswered
    \/ SendFails
    \/ KdfBroadcasts
    \/ BroadcastSent
    \/ DecreaseFakeBalance
    \/ BroadcastRefused
    \/ BroadcastFails

Next == User \/ Balances \/ Sending

Spec == Init /\ [][Next]_vars

\* Every 23 s the balances of the enabled coins are asked for. Calls end.
Fairness ==
    /\ \A coin \in Coins : SF_vars(\E i \in Slots : FetchSingleBalance(i, coin))
    /\ \A i \in Slots : WF_vars(CheckBalance(i)) /\ WF_vars(WriteBalance(i))
    /\ WF_vars(CheckSendAvailability)
    /\ WF_vars(KdfWithdraws)
    /\ WF_vars(WithdrawStatus)
    /\ WF_vars(WithdrawTimesOut)
    /\ WF_vars(SendAnswered)
    /\ WF_vars(KdfBroadcasts)
    /\ WF_vars(BroadcastSent)
    /\ WF_vars(DecreaseFakeBalance)
    /\ WF_vars(BroadcastRefused)

FairSpec == Spec /\ Fairness

----------------------------------------------------------------------------
Transaction == [coin : Coins \union {""}, amount : Nat, nr : Nat]

\* Shapes; what is busy is under way.
TypeOK ==
    /\ real \in [Coins -> Nat] /\ ledger \subseteq Transaction /\ enabled \subseteq Coins
    /\ balance \in [Coins -> Nat \union {Unknown}]
    /\ page.ticker \in enabled
    /\ modal.at \in {"closed", "prepare", "confirm", "sent"}
    /\ modal.result \in Transaction /\ send.tx \in Transaction /\ broadcast.tx \in Transaction
    /\ page.send_busy <=> send.at # "free"
    /\ page.broadcast_busy <=> broadcast.at # "free"
    /\ tries \in 0..LoopLimit

\* What is broadcast is a transaction of the coin it is broadcast for: but for
\* an answer that found the modal opened again for another coin.
BroadcastIsOfTheCoin == broadcast.at = "asked" => broadcast.coin = broadcast.tx.coin \/ "late" \in excuses

\* A modal that says a transaction is broadcast is right, but when the text
\* of an exception was taken for a hash.
ShownAsSent == modal.at = "sent" => modal.result \in ledger \/ "text" \in excuses

\* The camouflage password "will display your balance lower than it actually
\* is": what is shown of a coin that was not spent is less than there is.
BalanceIsLower ==
    pinned => \A c \in Coins : balance[c] \in {Unknown, 0} \/ balance[c] < real[c] \/ ledger # {}

\* In camouflage a balance never grows, whatever arrives and whatever fetches
\* overtake a payment: but for coins activated again as SLP coins are, and for
\* two threads that found the balance unknown at a time.
CamouflageNeverGrows ==
    [][pinned => \A c \in Coins : balance[c] # Unknown => balance'[c] <= balance[c]
                                  \/ excuses' \intersect {"activated", "raced"} # {}]_vars

\* In a true session the balances come to be those of the daemon.
BalanceCatchesUp ==
    <>[](~pinned => \A c \in enabled : balance[c] = real[c])

\* The page comes to say whether it can send, as balances and coins change.
AvailabilityCatchesUp == []<>(page.available = Availability(page.ticker))

\* A withdrawal is answered or given up.
SendEnds == page.send_busy ~> ~page.send_busy

\* What send_amount and the SendModal broadcast is what was confirmed, and what they
\* call sent was sent.
SentIsConfirmed == TypeOK /\ BroadcastIsOfTheCoin /\ ShownAsSent

\* The balances shown follow the daemon in a true session, never grow in a camouflage
\* session, and the page says accordingly whether it can send.
BalancesAreRight == CamouflageNeverGrows /\ BalanceCatchesUp /\ AvailabilityCatchesUp
=============================================================================
