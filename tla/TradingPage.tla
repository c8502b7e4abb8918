------------------------------ MODULE TradingPage ------------------------------
(***************************************************************************)
(* The trading page: the pair that is selected, the form of the order to   *)
(* place, the orderbook the page shows, and the calls that fill it in.     *)
(*                                                                         *)
(* A selected pair is handed to kdf_service, which asks the daemon for the *)
(* orderbook of the pair and, on a reset, for the volumes that can be      *)
(* traded. The answers are stored in worker threads, which push an event   *)
(* the page treats in its next tick; the event says, in a flag shared by   *)
(* all events, whether the book is to be reset or refreshed. An order can  *)
(* be picked from the book or from the best orders of all pairs; one of    *)
(* another pair selects that pair and waits for the reset to be applied.   *)
(*                                                                         *)
(* Abstracted: amounts are small numbers and all orders offer one unit; of *)
(* the two sides of the book the one the market mode takes is kept; the    *)
(* minimal volume of the form is positive; segwit tickers, exchange rates, *)
(* volumes of 24 hours and the sorting proxies; the checks of parent       *)
(* chains among the trading errors; a call is answered with what holds     *)
(* when its answer is treated; the two writes that end a call to place an  *)
(* order are one step.                                                     *)
(***************************************************************************)
EXTENDS Integers, Sequences, SequencesExt, FiniteSets, FiniteSetsExt

CONSTANTS
    Coins,          \* enabled coins
    FirstCoin, SecondCoin,  \* DEX_PRIMARY_COIN, DEX_SECOND_PRIMARY_COIN
    WalletOnly,     \* coins that cannot be traded
    Listed,         \* orders that may be in the books: [base, rel, price, n]
    BotPairs,       \* pairs with trading settings of their own
    NoOrder, NoPair, NoFees,
    MaxFunds,       \* bound: units of each coin
    Amounts,        \* bound: prices and volumes the user types
    MaxCommands,    \* bound: what the user does
    MaxCalls,       \* bound: calls under way when a periodic one is sent
    MaxEvents       \* bound: calls refused or lost, and changes of the market

ASSUME TradingAssumption ==
    /\ {FirstCoin, SecondCoin} \subseteq Coins /\ FirstCoin # SecondCoin
    /\ WalletOnly \subseteq Coins \ {SecondCoin}
    /\ Listed \subseteq [base : Coins, rel : Coins, price : Nat \ {0}, n : Nat]
    /\ \A o \in Listed : o.base # o.rel
    /\ NoOrder \notin [order : Listed, initial : Nat]
    /\ BotPairs \subseteq Coins \X Coins
    /\ Amounts \subseteq Nat
    /\ {MaxFunds, MaxCommands, MaxCalls, MaxEvents} \subseteq Nat

VARIABLES
    page,       \* trading_page and market_pairs: the pair, the form, its flags
    wrapper,    \* qt_orderbook_wrapper: the book shown and the volumes
    kdf,        \* kdf_service: the pair, the book and the volumes it keeps
    calls,      \* calls under way, in the order they were sent
    market,     \* external: the orders in the daemon's books
    funds,      \* external: what the daemon can trade of a coin
    sent,       \* history: what the last order sent asks for
    excuses,    \* history: what may keep the page from the pair
    used        \* bound: commands and events so far

vars == <<page, wrapper, kdf, calls, market, funds, sent, excuses, used>>

Pair(p) == <<p.left, p.right>>
Least(a, b) == IF a < b THEN a ELSE b

(***************************************************************************)
(* The handlers run to completion in one thread and call each other: each  *)
(* is an operator from a state of page, wrapper, kdf and calls to another. *)
(***************************************************************************)
App == [p |-> page, w |-> wrapper, k |-> kdf, c |-> calls]

Commit(st) ==
    /\ page' = st.p
    /\ wrapper' = st.w
    /\ kdf' = st.k
    /\ calls' = st.c

Ask(st, call) == [st EXCEPT !.c = Append(@, call)]

\* process_best_orders: one scan at a time, and none off the page.
ProcessBestOrders(st) ==
    IF st.w.best_busy \/ ~st.k.thread_active THEN st
    ELSE Ask([st EXCEPT !.w.best_busy = TRUE],
             [kind |-> "best", pair |-> Pair(st.p), reset |-> FALSE])

RefreshBestOrders(st) ==
    IF st.p.volume > 0 THEN ProcessBestOrders(st) ELSE [st EXCEPT !.w.best_orders = {}]

\* set_volume with the cap_volume it ends with.
SetVolume(st, volume) ==
    IF volume = st.p.volume THEN st
    ELSE LET capped == IF st.p.max_volume # 0 THEN Least(volume, st.p.max_volume) ELSE volume
         IN  RefreshBestOrders([st EXCEPT !.p.volume = capped])

CapVolume(st) ==
    IF st.p.max_volume # 0 /\ st.p.volume > st.p.max_volume
    THEN SetVolume(st, st.p.max_volume) ELSE st

\* determine_max_volume when selling: nothing until the volume is known, none
\* of another coin, and a selected order caps it once.
MaxToSell(st) ==
    LET max == st.w.base_max
        preferred == st.p.preferred
    IN  IF max.coin = NoPair THEN st
        ELSE CapVolume(
            IF max.volume <= 0 \/ max.coin # st.p.left THEN [st EXCEPT !.p.max_volume = 0]
            ELSE IF preferred = NoOrder THEN [st EXCEPT !.p.max_volume = max.volume]
            ELSE IF preferred.capped THEN st
            ELSE [st EXCEPT !.p.max_volume = Least(1, max.volume), !.p.preferred.capped = TRUE])

\* determine_max_volume when buying: what the other coin can pay at the price.
MaxToBuy(st) ==
    LET preferred == st.p.preferred
        max == st.w.rel_max.volume
    IN  CapVolume(
            IF preferred = NoOrder
            THEN [st EXCEPT !.p.max_volume = IF st.p.price > 0 THEN max \div st.p.price ELSE 0]
            ELSE IF max >= preferred.order.price \/ max <= 0
            THEN [st EXCEPT !.p.max_volume = IF max <= 0 THEN 0 ELSE 1]
            ELSE IF st.p.price > 0
            THEN [st EXCEPT !.p.max_volume = max \div preferred.order.price,
                            !.p.preferred.theoretical = max \div preferred.order.price]
            ELSE [st EXCEPT !.p.max_volume = max])

DetermineMaxVolume(st) == IF st.p.market_mode = "Sell" THEN MaxToSell(st) ELSE MaxToBuy(st)

\* set_price: a locked order is released; one that is not is locked now.
SetPrice(st, price) ==
    IF price = st.p.price THEN st
    ELSE LET released == [st EXCEPT !.p.price = price,
                            !.p.preferred = IF @ # NoOrder /\ @.locked THEN NoOrder ELSE @]
             Lock(s) == IF s.p.preferred = NoOrder THEN s ELSE [s EXCEPT !.p.preferred.locked = TRUE]
         IN  Lock(IF st.p.market_mode = "Buy" THEN DetermineMaxVolume(released) ELSE released)

\* Seeded fault: the fees stay when the form is cleared.
MutClearForms(st) ==
    LET Unbound(s) == [s EXCEPT !.p.max_volume = 0]
        Forget(s)  == [s EXCEPT !.p.preferred = NoOrder, !.p.order_status = "None"]
    IN  Forget(SetVolume(Unbound(SetPrice(st, 0)), 0))

\* clear_forms: a cancelled order of the simple view leaves the amount typed.
ClearForms(st) ==
    LET Keep(s)    == [SetVolume(s, s.p.preferred.initial)
                         EXCEPT !.p.max_volume = s.w.base_max.volume]
        Unbound(s) == [s EXCEPT !.p.max_volume = 0]
        Forget(s)  == [s EXCEPT !.p.preferred = NoOrder, !.p.fees = NoFees,
                                !.p.order_status = "None"]
    IN  IF /\ st.p.preferred # NoOrder
           /\ st.p.view = "Simple"
           /\ st.p.order_status = "OrderNotExistingAnymore"
        THEN Forget(SetPrice(Keep(st), 0))
        ELSE Forget(SetVolume(Unbound(SetPrice(st, 0)), 0))

\* determine_fees: asked for the form as it is now.
FeesQuestion(p) == [pair |-> Pair(p), mode |-> p.market_mode, volume |-> p.volume,
                    price |-> p.price]

DetermineFees(st) ==
    IF st.p.left = st.p.right \/ st.p.volume = 0 \/ st.p.price = 0 THEN st
    ELSE Ask([st EXCEPT !.p.preimage_busy = TRUE],
             [kind |-> "fees", pair |-> Pair(st.p), reset |-> FALSE, form |-> FeesQuestion(st.p)])

SetPreferredOrder(st, order, initial) ==
    LET chosen == [order |-> order, locked |-> FALSE, capped |-> FALSE,
                   initial |-> initial, theoretical |-> -1]
        priced == DetermineMaxVolume(SetPrice([st EXCEPT !.p.preferred = chosen], order.price))
        filled == SetVolume(priced, IF st.p.view = "Pro" THEN 1 ELSE initial)
    IN  DetermineFees(RefreshBestOrders(filled))

\* Seeded fault: the book of a new pair is refreshed, not reset.
MutRefreshPair(st, pair) ==
    Ask([st EXCEPT !.k.pair = pair], [kind |-> "book", pair |-> pair, reset |-> FALSE])

\* on_refresh_orderbook_model_data: kdf_service's pair, and a reset of the book.
RefreshPair(st, pair) ==
    Ask([st EXCEPT !.k.pair = pair],
        [kind |-> "book", pair |-> pair, reset |-> TRUE])

\* Seeded fault: the form is cleared without looking at the coins, which are
\* set before they are compared.
MutSetCurrentOrderbook(st, left, right) ==
    IF left \in WalletOnly THEN st
    ELSE RefreshPair([st EXCEPT !.p.left = left, !.p.right = right], <<left, right>>)

\* Seeded fault: coins that cannot be traded are not refused.
MutTradeAll(st, left, right) ==
    RefreshPair(ClearForms([st EXCEPT !.p.left = left, !.p.right = right]), <<left, right>>)

SetCurrentOrderbook(st, left, right) ==
    IF left \in WalletOnly THEN st
    ELSE LET selected == [st EXCEPT !.p.left = left, !.p.right = right]
             cleared  == IF Pair(st.p) # <<left, right>> /\ st.p.view = "Pro"
                         THEN ClearForms([selected EXCEPT !.w.rows = {}, !.w.rows_pair = NoPair,
                                                          !.w.best_orders = {}])
                         ELSE selected
         IN  RefreshPair(cleared, <<left, right>>)

\* set_pair: the coin of the other side swaps the pair.
SetPair(st, is_left_side, coin) ==
    IF coin = (IF is_left_side THEN st.p.left ELSE st.p.right) THEN st
    ELSE IF coin = (IF is_left_side THEN st.p.right ELSE st.p.left)
    THEN SetCurrentOrderbook(st, st.p.right, st.p.left)
    ELSE IF is_left_side THEN SetCurrentOrderbook(st, coin, st.p.right)
    ELSE SetCurrentOrderbook(st, st.p.left, coin)

SetMarketMode(st, mode) ==
    IF mode = st.p.market_mode THEN st
    ELSE SetCurrentOrderbook(ClearForms([st EXCEPT !.p.market_mode = mode]), st.p.left, st.p.right)

\* select_best_order: an order of another pair waits for the reset of its pair.
SelectBestOrder(st, order) ==
    LET waiting == [st EXCEPT !.w.selected_best = [order |-> order, initial |-> st.p.volume]]
    IN  IF order.rel = st.p.right THEN SetPreferredOrder(waiting, order, st.p.volume)
        ELSE SetPair(waiting, FALSE, order.rel)

\* Seeded fault: only better orders are reported.
MutStatusAfter(st, rows) ==
    LET preferred == st.p.preferred
    IN  IF preferred # NoOrder /\ \E o \in rows \ st.w.rows : o.price > preferred.order.price
        THEN "BetterPriceAvailable" ELSE st.p.order_status

\* initialize_order, removeRows and check_for_better_order: what the rows that
\* come and go say of the selected order, when selling.
StatusAfter(st, rows) ==
    LET preferred == st.p.preferred
        better(orders) == \E o \in orders : o.price > preferred.order.price
        all == st.w.rows \union rows
    IN  IF preferred = NoOrder \/ st.p.market_mode = "Buy" THEN st.p.order_status
        ELSE IF preferred.order \in st.w.rows \ rows
        THEN IF better(all) THEN "BetterPriceAvailable" ELSE "OrderNotExistingAnymore"
        ELSE IF better(rows \ st.w.rows) THEN "BetterPriceAvailable"
        ELSE st.p.order_status

SetBothTakerVol(st) ==
    [st EXCEPT !.w.base_max = st.k.base_max, !.w.rel_max = st.k.rel_max,
               !.w.min_coins = st.k.min_coins]

RefreshOrderbook(st, book) ==
    SetBothTakerVol([st EXCEPT !.p.order_status = StatusAfter(st, book.orders),
                               !.w.rows = book.orders, !.w.rows_pair = book.pair,
                               !.w.best_orders = st.w.best_infos])

\* reset_orderbook: the order that waits is selected, whatever the pair is now.
ResetOrderbook(st, book) ==
    LET reset == SetBothTakerVol([st EXCEPT !.w.rows = book.orders, !.w.rows_pair = book.pair])
        best  == st.w.selected_best
        taken == IF best = NoOrder THEN reset ELSE SetPreferredOrder(reset, best.order, best.initial)
    IN  ProcessBestOrders([taken EXCEPT !.w.selected_best = NoOrder, !.w.best_orders = {}])

\* set_preferred_settings: the form is filled in for the pairs of the bot.
SetPreferredSettings(st) ==
    IF Pair(st.p) \notin BotPairs THEN st
    ELSE LET priced == DetermineMaxVolume(SetPrice(st, 1))
         IN  SetVolume(priced, priced.p.max_volume)

\* get_orderbook: refused when empty or when the base is not that of the pair.
BookIsAccepted(st) ==
    /\ st.k.book.pair # NoPair
    /\ st.k.pair # NoPair
    /\ st.k.book.pair[1] = st.k.pair[1]

\* on_process_orderbook_finished_event, in the worker of the answer.
PushFinished(st, is_a_reset) ==
    DetermineMaxVolume([st EXCEPT !.p.actions = @ + 1, !.p.need_a_reset = is_a_reset])

----------------------------------------------------------------------------
EmptyForm == [price |-> 0, volume |-> 0, max_volume |-> 0]
Unknown == [coin |-> NoPair, volume |-> 0]

Init ==
    /\ page = [left |-> SecondCoin, right |-> FirstCoin, market_mode |-> "Sell", view |-> "Pro",
               price |-> 0, volume |-> 0, max_volume |-> 0, preferred |-> NoOrder,
               fees |-> NoFees, order_status |-> "None", actions |-> 0,
               need_a_reset |-> FALSE, rpc_busy |-> FALSE, preimage_busy |-> FALSE]
    /\ wrapper = [rows |-> {}, rows_pair |-> NoPair, best_orders |-> {}, best_infos |-> {},
                  best_busy |-> FALSE, selected_best |-> NoOrder, base_max |-> Unknown,
                  rel_max |-> Unknown, min_coins |-> NoPair]
    /\ kdf = [pair |-> <<SecondCoin, FirstCoin>>, thread_active |-> TRUE,
              book |-> [pair |-> NoPair, orders |-> {}], base_max |-> Unknown,
              rel_max |-> Unknown, min_coins |-> NoPair]
    /\ calls = <<[kind |-> "book", pair |-> <<SecondCoin, FirstCoin>>, reset |-> TRUE]>>
    /\ market = Listed
    /\ funds = [c \in Coins |-> MaxFunds]
    /\ sent = NoOrder
    /\ excuses = {}
    /\ used = [commands |-> 0, events |-> 0]

Spend(what) == used' = [used EXCEPT ![what] = @ + 1]
\* The user does something to the page.
Command(after, why) ==
    /\ used.commands < MaxCommands
    /\ Spend("commands")
    /\ \E st \in {after} : Commit(st)
    /\ excuses' = excuses \union why
    /\ UNCHANGED <<market, funds, sent>>

\* What a change of the pair leaves behind.
LeftBehind ==
    (IF wrapper.selected_best # NoOrder THEN {"overtaken"} ELSE {})
      \union {IF calls[i].kind = "fees" THEN "late_fees" ELSE "overlapped" :
                i \in {j \in DOMAIN calls : calls[j].kind \in {"fees", "book", "extras"}}}

SelectPair(is_left_side, coin) ==
    /\ page.view = "Simple" => is_left_side
    /\ coin # (IF is_left_side THEN page.left ELSE page.right)
    /\ Command(SetPair(IF page.view = "Simple" THEN ClearForms(App) ELSE App, is_left_side, coin),
               LeftBehind)

ChooseMarketMode(mode) ==
    page.market_mode # mode /\ page.view = "Pro" /\ Command(SetMarketMode(App, mode), LeftBehind)

\* set_current_trading_mode: the form is cleared in the view that is left.
ChooseView(view) ==
    /\ page.view # view
    /\ Command([SetMarketMode(ClearForms(App), "Sell") EXCEPT !.p.view = view], LeftBehind)

TypePrice(price) == page.view = "Pro" /\ page.price # price /\ Command(SetPrice(App, price), {})
TypeVolume(volume) == page.volume # volume /\ Command(SetVolume(App, volume), {})
ResetOrder == page.price # 0 /\ Command(ClearForms(App), {})

\* ProView's selectOrder: an order of the book shown.
SelectOrder(order) ==
    /\ page.view = "Pro"
    /\ order \in wrapper.rows
    /\ Command(SetPreferredOrder(App, order, 0),
               IF wrapper.rows_pair # Pair(page) THEN {"other_book"} ELSE {})

ChooseBestOrder(order) ==
    /\ order \in wrapper.best_orders
    /\ LET after == SelectBestOrder(App, order)
       IN  Command(IF page.view = "Simple" THEN DetermineFees(after) ELSE after,
                   (IF order.rel # page.right THEN LeftBehind \ {"overtaken"} ELSE {"unnoticed"})
                     \union (IF order.base # page.left THEN {"other_book"} ELSE {})
                     \union (IF order.rel # page.right /\ page.view = "Simple" THEN {"kept_fees"} ELSE {}))

AskFees == Command(DetermineFees(App), {})

LeaveOrEnterDex == Command([App EXCEPT !.k.thread_active = ~@], {})

\* disable_coins: the default pair is set before set_current_orderbook looks
\* whether the pair changes.
DisableCoin(coin) ==
    /\ coin \in {page.left, page.right}
    /\ Command(SetCurrentOrderbook([App EXCEPT !.p.left = SecondCoin, !.p.right = FirstCoin],
                                   SecondCoin, FirstCoin),
               LeftBehind \union {"disabled"})

\* The volume a request asks for: the selected order's, what can be traded, or
\* the one typed.
SellVolume ==
    LET is_max == page.max_volume = page.volume
    IN  IF page.preferred = NoOrder
        THEN IF is_max THEN wrapper.base_max.volume ELSE page.volume
        ELSE IF page.volume = 1 THEN 1
        ELSE IF is_max /\ page.view = "Pro" THEN wrapper.base_max.volume ELSE page.volume

BuyVolume ==
    LET is_max == page.max_volume = page.volume
    IN  IF page.preferred = NoOrder \/ ~is_max THEN page.volume
        ELSE IF page.max_volume = 1 THEN 1
        ELSE IF page.preferred.theoretical >= 0 THEN page.preferred.theoretical ELSE page.volume

\* determine_error_cases: what keeps the button from being pressed.
TradingError ==
    IF (IF page.market_mode = "Sell" THEN wrapper.base_max ELSE wrapper.rel_max).volume < 1
    THEN "BalanceIsLessThanTheMinimalTradingAmount"
    ELSE IF page.volume = 0 THEN "VolumeFieldNotFilled"
    ELSE IF page.price = 0 THEN "PriceFieldNotFilled"
    ELSE "None"

\* place_sell_order, place_buy_order and place_setprice_order.
PlaceOrder(kind) ==
    /\ TradingError = "None"
    /\ ~page.rpc_busy
    /\ kind = "buy" <=> page.market_mode = "Buy"
    /\ kind = "setprice" => page.preferred = NoOrder /\ page.view = "Pro"
    /\ used.commands < MaxCommands
    /\ Spend("commands")
    /\ Commit(Ask([App EXCEPT !.p.rpc_busy = TRUE],
                  [kind |-> "order", pair |-> Pair(page), reset |-> FALSE]))
    /\ sent' = [pair |-> Pair(page), order |-> page.preferred,
                price |-> IF page.preferred = NoOrder \/ kind = "setprice" THEN page.price
                          ELSE page.preferred.order.price,
                volume |-> CASE kind = "sell" -> SellVolume
                             [] kind = "buy" -> BuyVolume
                             [] kind = "setprice" -> page.volume,
                shown |-> [price |-> page.price, volume |-> page.volume]]
    /\ UNCHANGED <<market, funds, excuses>>

----------------------------------------------------------------------------
\* kdf_service's update, every five seconds while the page is open.
PeriodicFetch ==
    /\ kdf.thread_active
    /\ Len(calls) < MaxCalls
    /\ page.actions = 0
    /\ Commit(Ask(App, [kind |-> "book", pair |-> kdf.pair, reset |-> FALSE]))
    /\ UNCHANGED <<market, funds, sent, excuses, used>>

\* orderbook_scanner_service's update, every 45 seconds.
PeriodicScan ==
    /\ kdf.thread_active /\ ~wrapper.best_busy
    /\ Len(calls) < MaxCalls
    /\ page.actions = 0
    /\ Commit(ProcessBestOrders(App))
    /\ UNCHANGED <<market, funds, sent, excuses, used>>

\* External: what the daemon answers, with what holds when the answer is treated.
OrdersOf(call) ==
    IF call.kind = "book" THEN {o \in market : <<o.base, o.rel>> = call.pair}
    ELSE {o \in market : o.base = call.pair[1] /\ o.rel # o.base}

Without(i) == [App EXCEPT !.c = RemoveAt(@, i)]

\* Seeded fault: only a reset is announced.
MutBookStored(i) ==
    LET stored == [Without(i) EXCEPT !.k.book = [pair |-> calls[i].pair,
                                                 orders |-> OrdersOf(calls[i])]]
    IN  IF calls[i].reset THEN PushFinished(stored, TRUE) ELSE stored

\* prepare_orderbook's callback: the book is kept whatever pair it is of, and
\* a reset asks for the volumes of the pair there is now.
BookStored(i) ==
    LET call == calls[i]
        asked == IF call.reset
                 THEN Ask(Without(i), [kind |-> "extras", pair |-> kdf.pair, reset |-> TRUE])
                 ELSE Without(i)
    IN  PushFinished([asked EXCEPT !.k.book = [pair |-> call.pair, orders |-> OrdersOf(call)]],
                     call.reset)

\* process_orderbook_extras: the maxima are compared with the pair there is
\* now, the minima are not.
ExtrasStored(i) ==
    LET call == calls[i]
        max(n, was) == IF call.pair[n] = kdf.pair[n]
                       THEN [coin |-> call.pair[n], volume |-> funds[call.pair[n]]] ELSE was
    IN  [Without(i) EXCEPT !.k.base_max = max(1, @), !.k.rel_max = max(2, @),
                           !.k.min_coins = call.pair]

\* Seeded fault: the scanner stays busy.
MutScanStored(i) ==
    PushFinished([Without(i) EXCEPT !.w.best_infos = OrdersOf(calls[i])], FALSE)

\* process_best_orders' callback.
ScanStored(i) ==
    PushFinished([Without(i) EXCEPT !.w.best_infos = OrdersOf(calls[i]), !.w.best_busy = FALSE],
                 FALSE)

\* An answer is treated in its worker thread.
Answered(i) ==
    /\ i \in DOMAIN calls
    /\ \E st \in {CASE calls[i].kind = "book" -> BookStored(i)
                    [] calls[i].kind = "extras" -> ExtrasStored(i)
                    [] calls[i].kind = "best" -> ScanStored(i)
                    [] calls[i].kind = "fees" ->
                         [Without(i) EXCEPT !.p.fees = calls[i].form, !.p.preimage_busy = FALSE]
                    [] calls[i].kind = "order" ->
                         ClearForms([Without(i) EXCEPT !.p.rpc_busy = FALSE])} : Commit(st)
    /\ UNCHANGED <<market, funds, sent, excuses, used>>

\* The daemon refuses: no book and no volumes, a reset after a scan, no fees
\* but an error; an order that is refused ends as one that is taken.
Refused(i) ==
    /\ i \in DOMAIN calls /\ calls[i].kind # "order"
    /\ used.events < MaxEvents
    /\ Spend("events")
    /\ \E st \in {CASE calls[i].kind = "best" ->
                         PushFinished([Without(i) EXCEPT !.w.best_busy = FALSE], TRUE)
                    [] calls[i].kind = "fees" ->
                         [Without(i) EXCEPT !.p.fees = calls[i].form, !.p.preimage_busy = FALSE]
                    [] OTHER -> Without(i)} : Commit(st)
    /\ excuses' = excuses \union (IF calls[i].kind \in {"book", "extras"} THEN {"refused"} ELSE {})
    /\ UNCHANGED <<market, funds, sent>>

\* Seeded fault: no continuation looks at the exception of a lost order.
MutLost(i) ==
    /\ i \in DOMAIN calls
    /\ used.events < MaxEvents
    /\ Spend("events")
    /\ Commit(Without(i))
    /\ UNCHANGED <<market, funds, sent, excuses>>

\* No answer comes: only the continuation of an order says so to the page.
Lost(i) ==
    /\ i \in DOMAIN calls
    /\ used.events < MaxEvents
    /\ Spend("events")
    /\ \E st \in {IF calls[i].kind = "order"
                  THEN ClearForms([Without(i) EXCEPT !.p.rpc_busy = FALSE])
                  ELSE Without(i)} : Commit(st)
    /\ excuses' = excuses \union (CASE calls[i].kind \in {"book", "extras"} -> {"refused"}
                                    [] calls[i].kind = "best" -> {"lost_scan"}
                                    [] calls[i].kind = "fees" -> {"lost_fees"}
                                    [] calls[i].kind = "order" -> {})
    /\ UNCHANGED <<market, funds, sent>>

\* A reset does not look at the rows it replaces, and an order that was picked
\* among the best orders need not be in the book.
Unnoticed ==
    LET left_by_a_reset == page.preferred # NoOrder /\ page.need_a_reset
    IN  IF left_by_a_reset \/ wrapper.selected_best # NoOrder THEN {"unnoticed"} ELSE {}

\* process_action, in the application's tick: the flag is that of the event
\* pushed last.
ProcessAction ==
    /\ page.actions > 0
    /\ LET popped == [App EXCEPT !.p.actions = @ - 1]
           shown  == IF page.need_a_reset THEN ResetOrderbook(popped, kdf.book)
                     ELSE RefreshOrderbook(popped, kdf.book)
       IN  \E st \in {IF ~BookIsAccepted(popped) THEN popped
                      ELSE IF page.need_a_reset /\ page.view = "Pro"
                      THEN SetPreferredSettings(shown) ELSE shown} : Commit(st)
    /\ excuses' = excuses \union Unnoticed
    /\ UNCHANGED <<market, funds, sent, used>>

\* External: an order appears in the books or leaves them; a coin is spent.
MarketChanges(order) ==
    /\ used.events < MaxEvents
    /\ Spend("events")
    /\ market' = IF order \in market THEN market \ {order} ELSE market \union {order}
    /\ UNCHANGED <<page, wrapper, kdf, calls, funds, sent, excuses>>

CoinIsSpent(coin) ==
    /\ used.events < MaxEvents
    /\ Spend("events")
    /\ funds[coin] > 0
    /\ funds' = [funds EXCEPT ![coin] = 0]
    /\ excuses' = excuses \union {"spent"}
    /\ UNCHANGED <<page, wrapper, kdf, calls, market, sent>>

UserActs ==
    \/ \E coin \in Coins, is_left_side \in BOOLEAN : SelectPair(is_left_side, coin)
    \/ \E mode \in {"Buy", "Sell"} : ChooseMarketMode(mode)
    \/ \E view \in {"Pro", "Simple"} : ChooseView(view)
    \/ \E a \in Amounts : TypePrice(a) \/ TypeVolume(a)
    \/ ResetOrder
    \/ \E order \in Listed : SelectOrder(order) \/ ChooseBestOrder(order)
    \/ AskFees
    \/ LeaveOrEnterDex
    \/ \E coin \in Coins : DisableCoin(coin)
    \/ \E kind \in {"sell", "buy", "setprice"} : PlaceOrder(kind)

Next ==
    \/ UserActs
    \/ PeriodicFetch
    \/ PeriodicScan
    \/ \E i \in DOMAIN calls : Answered(i) \/ Refused(i) \/ Lost(i)
    \/ ProcessAction
    \/ \E order \in Listed : MarketChanges(order)
    \/ \E coin \in Coins : CoinIsSpent(coin)

Spec == Init /\ [][Next]_vars

\* The oldest call is answered, the tick keeps running, and so does the periodic
\* fetch, which only the bound on calls holds back.
Fairness ==
    /\ WF_vars(Answered(1))
    /\ WF_vars(ProcessAction)
    /\ SF_vars(PeriodicFetch)

FairSpec == Spec /\ Fairness

----------------------------------------------------------------------------
WaitingOrders == [order : Listed, initial : Nat] \union {NoOrder}
MaxVolumes == [coin : Coins \union {NoPair}, volume : 0..MaxFunds]

\* The variables keep their shapes: the form always has a price, a volume and
\* at most one selected order of the books.
TypeOK ==
    /\ page.left \in Coins \ WalletOnly /\ page.right \in Coins
    /\ {page.price, page.volume, page.max_volume, page.actions} \subseteq Nat
    /\ page.preferred # NoOrder => page.preferred.order \in Listed
    /\ page.order_status \in {"None", "BetterPriceAvailable", "OrderNotExistingAnymore"}
    /\ wrapper.rows \subseteq Listed /\ wrapper.best_orders \subseteq Listed
    /\ wrapper.selected_best \in WaitingOrders
    /\ {wrapper.base_max, wrapper.rel_max, kdf.base_max, kdf.rel_max} \subseteq MaxVolumes
    /\ kdf.pair \in Coins \X Coins
    /\ \A i \in DOMAIN calls : calls[i].kind \in {"book", "extras", "best", "fees", "order"}

\* The order the form is filled from is an order of the selected pair, although
\* it was picked in another pair's rows, waits for a reset and is applied by a
\* later tick: but for an order that still waits when the pair is changed again
\* or stays behind after it was applied at once (select_best_order), a coin that
\* is disabled (disable_coins leaves the form), and the simple view while the
\* reset is awaited.
PreferredIsOfThePair ==
    page.preferred # NoOrder =>
        \/ <<page.preferred.order.base, page.preferred.order.rel>> = Pair(page)
        \/ excuses \intersect {"overtaken", "disabled", "other_book"} # {}
        \/ page.view = "Simple" /\ wrapper.selected_best # NoOrder

\* The fees shown were asked for the selected pair, although they are answered
\* in another thread: but for an answer that was under way when the pair changed, a
\* disabled coin, and an order of another pair that is picked in the simple view, which
\* leaves the form as it is (determine_fees, clear_forms).
FeesAreOfThePair ==
    page.fees # NoFees =>
        \/ page.fees.pair = Pair(page)
        \/ excuses \intersect {"late_fees", "kept_fees", "disabled"} # {}

\* Once every call is answered, kdf_service's volumes are those of the pair the
\* page shows, the minima like the maxima: but for pairs changed while answers
\* were under way, and answers that were refused or lost (prepare_orderbook,
\* process_orderbook_extras).
VolumesAreOfThePair ==
    calls = <<>> =>
        \/ /\ kdf.pair = Pair(page)
           /\ kdf.base_max.coin = page.left /\ kdf.rel_max.coin = page.right
           /\ kdf.min_coins = Pair(page)
        \/ excuses \intersect {"overlapped", "refused"} # {}

\* A selected order that leaves the book is reported (removeRows,
\* check_for_better_order): but for a reset, which replaces the rows without
\* looking, and an order of the best orders the book never had.
VanishedOrderIsReported ==
    (/\ page.market_mode = "Sell"
     /\ page.preferred # NoOrder
     /\ wrapper.rows_pair = <<page.preferred.order.base, page.preferred.order.rel>>
     /\ page.preferred.order \notin wrapper.rows)
    => page.order_status # "None" \/ "unnoticed" \in excuses

\* An order is sent for the volume the form shows, although the request takes
\* it from the selected order, from the fractions of the tradable volume or
\* from the form, each kept by another object: but for a coin spent meanwhile
\* (place_sell_order, place_buy_order).
VolumeSentIsShown ==
    sent # NoOrder => sent.volume = sent.shown.volume \/ "spent" \in excuses

\* An order is sent at the price the form shows: set_price releases the selected
\* order "because price has been modified".
PriceSentIsShown == sent # NoOrder => sent.price = sent.shown.price

\* A call to place an order ends for the page, whatever becomes of it.
OrderCallEnds == page.rpc_busy ~> ~page.rpc_busy

\* A scan of the best orders ends, and the next can begin, unless its answer
\* never comes (process_best_orders).
ScanEnds == wrapper.best_busy ~> (~wrapper.best_busy \/ "lost_scan" \in excuses)

\* The book shown is in the end that of the selected pair, while the page is
\* open, whatever answers came late or never (fetch_current_orderbook_thread).
BookCatchesUp == <>[](kdf.thread_active => wrapper.rows_pair = Pair(page))

\* The order, the fees and the volumes behind the form of the trading page, each stored
\* by another thread in its own time, are of the pair the page shows.
FormIsOfThePair == TypeOK /\ PreferredIsOfThePair /\ FeesAreOfThePair /\ VolumesAreOfThePair
=============================================================================
