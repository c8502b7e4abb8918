# Komodo Wallet desktop: TLA+ models

Komodo Wallet is a Qt program in front of a daemon (KDF, formerly mm2) that holds the
keys, talks to the block chains and runs the atomic swaps. What the program itself has to
get right is *agreement*: between the daemon and the coins the service counts as enabled,
between these and what the portfolio shows, between what a form shows and what its button
sends, between memory and the files a wallet keeps. Several threads change these in pieces,
and answers come late, in any order, or not at all.

Paths below are relative to the repository; `kdf.service.cpp` and the like are in
`src/src/core/atomicdex/`, `app.cpp` is `src/src/app/app.cpp`, QML files are below
`src/atomic_defi_design/Dex/`. `PROJECT.json` lists every definition with the lines it
models, every hazard with its line, and for each property a mistake that breaks it.

- [Inventory](#inventory) - [Modules](#modules) - [Runs](#runs) - [Fairness](#fairness)
- [Proofs](#proofs) - [Only model-checked](#only-model-checked)
- [Where the code departs from what it says](#where-the-code-departs-from-what-it-says)
- [What is not modelled](#what-is-not-modelled) - [Plan](#plan)

## Inventory

### Threads

| thread | runs |
|---|---|
| GUI | QML, the models, the user's commands, and on a timer `application::tick`, which calls `update()` of every service and drains the queues the other threads fill |
| init | `m_kdf_init_thread` of `kdf_service`: waits for the daemon, then queues the coins of the last session |
| workers | the pplx pool: the continuations of every request; one stays in `enable_zhtlc` for as long as a shielded coin synchronises |

The entt dispatcher runs a handler *in the thread that triggers the event*: a worker that
triggers `coin_fully_initialized` runs `application::on_coin_fully_initialized_event`
itself, which pushes to the lock-free `m_portfolio_queue`; the GUI thread pops it in `tick`.
A Qt signal emitted by a worker is posted and reaches QML later, in order.

### Components

| component | its state | what is hard | correct when |
|---|---|---|---|
| coin activation (`kdf.service.cpp`) | registry of coins, activation queue, batches under way | flag, announcement, row and file change in different threads; a batch may be dropped whole; a coin the daemon refuses to disable has lost its row | no enabled coin goes missing, at rest everything agrees, every request is resolved, the primary pair stays |
| shielded activation (`enable_zhtlc`) | the worker's locals, a static counter of tries, the last status | the loop lasts for hours, the counter is shared by all coins | enabled coins stay visible, activations end, a first one is not interrupted |
| platforms with tokens | registry, its non-recursive mutex, the callbacks, rows | callbacks lock again what they hold; a refused platform drops its tokens; a request may be served and its answer lost; the user may disable a platform and keep its tokens | only the user takes a platform from a token, what is enabled is announced or shown, the mutex is freed |
| portfolio, coins configuration, enable dialog | rows, ticker registry, marks, the count of checked coins | three containers and a counter describe the same coins | they agree; nothing crosses into the next session |
| coins files (`kdf.service.cpp`, `app.cpp`) | main file, custom tokens file, the previous version's file | each function reads a whole file and rewrites it, from several threads; the process may end in between | memory and files agree; an upgrade loses nothing |
| custom tokens (`qt.settings.page.cpp`) | the form, the wallet's token file, `coins.json` shared by all wallets | two files, written one after the other | a kept token is known at the next login |
| session, daemon, wallet files | seed, `wallet` and rpcpass files, the login, the init thread, the daemon | rpcpass is written before the password is known to be right; a static count of tries; a logout while the daemon starts | a wallet opens with its password; the daemon serves the wallet that is open |
| preferences | `cfg.json`, `cfg.ini`, their copies by version | cut files, failed copies, a reset | choices survive ends and upgrades |
| trading page, pair, forms | pair, form, action queue, book, volumes, fees | each is stored by another thread for the pair it was asked for | what the form shows is of the pair shown |
| orderbook model | rows, ids, the picked order | the search for a better order runs while rows are removed | rows are the last answer; a better or vanished order is told of |
| numbers of the pair (`defi.stats.cpp`, `global.provider.cpp`) | statistics, rates, labels | read once, in two reads, while an answer comes | labels are of the pair chosen |
| orders and swaps, orders model, filter, exporter | one snapshot with page, limit and filter; rows; proxies; timers of QML | a reply replaces the whole snapshot; timers fire after the tab changed | rows describe one snapshot; lists are of the choice |
| automatic update of maker orders | settings of a pair, snapshot, requests | the page the user turned to hides the orders | orders follow the market |
| wallet page: sending, validation, rewards | busy flags, data, the modal | a modal closed and opened again while an answer is under way | what is sent is what was confirmed |
| balances, transactions | registry of balances, one key for all histories | reading and writing under two locks; late answers for another coin | balances and history are those of the coin shown |
| addressbook | contacts in the manager, in the models, the file | names may collide, the form changes during a validation | each contact has its own, validated entries |
| prices | market, rates, currency, rows, total | updates run in the thread that asks for them and compute a figure before they write it; `set_current_currency` calls itself | rows, total and currency agree |
| internet, update and time checkers, downloads | flags, questions, files | an answer lost leaves a flag; files are written after the progress says 100 %; the coins that wait may be refused at the limit | warnings go away; waiting coins come up |

The notification manager, the static configuration and the vendored code hold no state of
their own worth a model. The charts have a service of their own (created at `app.cpp` l. 503,
asked to refresh when a coin comes up or the currency changes), which only draws from
histories it fetches for itself; no other part reads it, and it is not modelled.

## Modules

```
CoinActivation      MCCoinActivation      CoinActivation_proofs
ZhtlcActivation     MCZhtlcActivation     ZhtlcActivation_proofs
PlatformActivation  MCPlatformActivation  PlatformActivation_proofs
WalletSession, Vault   MCWalletSession    Application_proofs
WalletPage          MCWalletPage          WalletPage_proofs
TradingPage         MCTradingPage         Forms_proofs
Portfolio, TransactionsModel -> MCPages   Portfolio_proofs, Application_proofs (TransactionsModel)
CoinStatusFile, Addressbook, OrderbookRows (MCOrderbookRows) -> MCRecords   Records_proofs
CustomTokens, Preferences, HistoryFilter, Recipient, Claims, PairStats,
  OrdersModel (MCOrdersModel) -> MCForms  Forms_proofs, Application_proofs (OrdersModel)
Subsequences: what a filter leaves of a list, for OrdersModel and TransactionsModel
TradingPage, OrdersModel, MakerBot -> MCDex       Portfolio_proofs (MakerBot)
Prices, Watchers, Downloads -> MCServices         Portfolio_proofs
```

The system is cut where the code has a narrow interface; at the cut a module lets the other
side do more than it does. `Portfolio` sees activation as "a coin that was asked for may be
announced, at any time, more than once". Activation sees the coins file as one atomic set;
`CoinStatusFile` takes it apart and sees activation as "the GUI thread or a shielded coin's
worker changes a flag". `TradingPage` has books as sets of orders, `OrderbookRows` the fields
of a row. `MakerBot` runs on the snapshot of `OrdersModel`; `HistoryFilter` instantiates the
rules of the orders' pages for three tabs. `MCPages`, `MCRecords`, `MCForms`, `MCDex` and
`MCServices` hold several components that do not meet: the constant variable `which` picks
the one that moves in a behaviour, so one run explores the sum of the state spaces and not
their product.

| module | code | state |
|---|---|---|
| `CoinActivation` | queue, batches, callbacks, disabling, marking; commands and tick of `application` | `currently_enabled`, `active`, `coins_file`, `activation_queue`, `batches` (with the place of each callback), `portfolio_queue`, `rows`, `gui`, external `kdf_coins` |
| `ZhtlcActivation` | `enable_zhtlc`, `is_zhtlc_coin_ready`, disabling, marking | `activation_status`, `z_nb_try`, `tasks` (a worker's place and locals), external `kdf_tasks` |
| `PlatformActivation` | queue, callbacks of Tendermint and SLP coins, `m_coin_cfg_mutex`, `disable_coins` | `currently_enabled`, `activation_queue`, `gui` (the GUI thread while it activates or disables, coin by coin), `calls` (the place of each callback, the tokens left), `mutex` (whose callback holds the registry), `portfolio_queue`, `rows`, external `kdf_coins`; the constant `Relock` says what a second lock of the same mutex does |
| `Portfolio` | portfolio model, coins configuration model, dialog, tick, disconnect | `rows`, `ticker_registry`, `view_rows`, `cfg_enabled`, `checked`, `checked_nb`, `dialog`, `portfolio_queue` |
| `CoinStatusFile` | the coins files | `registry`, `files` (the document at the start of a file, and its size), `old`, `writer` (the function each thread is in) |
| `WalletSession`, `Vault` | `qt.wallet.manager.cpp`, starting and ending the daemon; `Vault` is its abstract specification | `seed`, `rpcpass`, `config` (files, by wallet), `gui`, `login`, `suffix`, `kdf` (status, thread, tries), external `daemon`, `fetched` |
| `WalletPage` | choosing a coin, availability, withdrawal with its loop, broadcast, `SendModal.qml`, lowered balances | `page`, `modal`, `fetches`, `send`, `broadcast`, `tries`, `balance`, external `real`, `ledger` |
| `Recipient`, `Claims` | validation and conversion; `ClaimRewardsModal.qml` | busy flags, data, requests by place, signals posted to QML |
| `TransactionsModel` | `fetch_infos_thread`, `process_tx_answer`, `transactions_model.cpp` | `txCalls`, `txStored` (by ticker for coins with a scanner, under the one key "result" for all others), `walletPage`, external `txHistory` |
| `TradingPage` | action queue, pair, orders, fees, volumes, best orders | `page`, `wrapper`, `kdf`, `calls` (requests, each with the pair and the form it was asked for), external `market`, `funds` |
| `OrderbookRows` | `qt.orderbook.model.cpp`, what a row shows | `book`, `rows`, `orderIds`, `picked`, `orderStatus`; an order has a form, segwit or not, and `RowAt` finds the first row whose uuid begins with the one asked for |
| `PairStats` | statistics, rates, labels | `stats`, `statCalls`, `sheet`, `label` |
| `OrdersModel`, `HistoryFilter` | snapshot, pages, filters, `qt.orders.model.cpp` and its proxy, exporter | `model`, `snapshot`, `fetches`, `actions_queue`, external `kdf_orders`, `kdf_swaps`; `tab`, `tabChoice`, `timers`, `proxy`, `batches`, `csv` |
| `MakerBot` | `auto.update.maker.order.service.cpp` | `listed` (the snapshot's orders), `pairSettings`, `updates`, `rate`, external `open` |
| `Addressbook` | manager, models, file, dialogs | `data`, `contacts`, `bookFile`, `form`, `validating` |
| `CustomTokens`, `Preferences` | `qt.settings.page.cpp`, `app.cfg.cpp`, `main.prerequisites.hpp` | `tokenFiles`, `coinsFile`, `tokenWrite`, the two registries; `cfgJson` and `cfgIni` by version, `config`, `startPc` |
| `Prices` | `komodo.prices.provider.cpp`, `global.provider.cpp`, `portfolio.model.cpp`, `qt.portfolio.page.cpp`, currency in the settings | `marketHeld`, `asks`, rates, `currency`, `fiat`, `possible`, `bal`, `shown` (rows and total), `shows` and `due` (events to be triggered), `updating` (by thread: the figure computed and not yet written, and the rows left) |
| `Watchers`, `Downloads` | three checkers; shielded parameters | flags and questions; `wait`, `tried`, `up` and `forgotten` coins, `otherCoins`, files and progress |

**Grain.** A step is what runs between two points where another thread may come in: a lock
taken or released, a request sent, a queue pushed, a file opened or written, a signal posted.
A GUI handler that shares nothing on its way is one step. Time is left out: the clocks of
`update()` only say when it may act.

**History and bounds.** Variables and fields marked *history* are read by properties only;
`excuses` and the like collect, by name, the orders of events after which a property says
nothing, and the comment of each property names those it uses. Constants called `Max...`,
`...Slots`, `Losses`, `LoopLimit` bound the user, the world and the requests at a time.

**Seeded faults.** The `Mut...` operators each replace one definition by a plausible mistake;
with it the named property fails, which shows that the property depends on that code.

**Abstractions worth knowing.** `CoinStatusFile`: `coins.json` is left out (it is in
`CustomTokens`), the remove and the copy at the start of a reset are one step, a crash is the
end of the process, so what was written stays; the size of a document grows with its entries
and is a character more for `false` than for `true`, which decides whether a shorter document
leaves a tail. `Portfolio`: the order of rows is left out. `WalletSession`: encryption is
that only the same key opens what it closed. `Preferences`: values of `QSettings` that were
not synchronised when the process ends are taken as written. `TradingPage`: prices and
volumes are small numbers. `Prices`: a figure is the unit, the market and the amounts it was
computed from, not a number; the string of the currency is read as a whole; a coin that is
being disabled leaves the rows, its amount stays in the sum of the model; a balance has one
event at a time under way; with one poll of the market at a time a run does not see an older
market replace a newer one. `PlatformActivation`: a request whose answer is lost may have been
served (`AnswerLost` takes the `kdf_coins` that `KdfAnswers` takes, or leaves them); the other
families are in `CoinActivation`. `OrderbookRows`: of a uuid only the suffix matters, no two uuids begin with
each other otherwise. `WalletSession`: the destructor of the daemon's service throws where the
daemon is already gone (`kdf.service.cpp` l. 366), which ends the process. `Recipient`: the daemon's `validateaddress` and `convertaddress`
are functions of the address (`Verdict`, `Converted`), whose ranges are assumed.

## Runs

Every passing run explores all states. Two sessions, two or three commands and two requests
of a kind at once are the smallest numbers for which a command can meet the left-overs of
another, or a late answer overtake a newer one; the coins are those the questions need: one
that is always there (KMD), a platform and its token, shielded and plain ones. Small limits
stand for large ones wherever both sides of the limit are reached: batches of 2 for 20, 2
tries for 10000 (`MaxTries` of `ZhtlcActivation`) and for 30 (`WalletSession`), a
`LoopLimit` of 2 for the withdrawal's loop, a limit of 2 or 3 enabled coins.

| run | checks | bounds |
|---|---|---|
| `activation` | `EnabledCoinsAccountedFor`: an enabled coin is in a row, in the queue to one, in a running callback, being disabled, or one the daemon refused to disable. `StoresAgree`: the primary pair stays up; when nothing is pending, flags, rows, file and daemon agree (but for refused coins and those queued while pending); the periodic marking brings back no disabled coin. `ActivationSettles`: every request is resolved, every enabled coin saved | 3 coins in 2 families, batches of 2, limit 3, 2 batches in flight per family, 2 commands |
| `zhtlc` | `EnabledCoinsAreShown`; `FirstActivationIsNotInterrupted`: a coin is taken for disabling only after a task of it ended with Ok; `ActivationSettles`: every activation ends and what is enabled gets saved | 2 coins, 2 activations, 2 tries, 1 disable command |
| `platform` | `EnabledTokensHavePlatform`: an enabled token has its platform unless the user disabled that; `AnnouncementsAreTrue`: enabled coins are announced or shown, and shown ones enabled; `CallbacksEnd`: a second lock throws or waits, and only a callback that waits for itself keeps the registry, its worker or the GUI thread | 3 platforms, one not configured; 3 tokens, one of the platform that is not; requests for one coin, for a platform with its token, for coins of two platforms; 2 calls, 3 commands, each enabling or disabling |
| `pages` | `ContainersAgree`: one row per registered coin, rows as marked, views that miss no row, no more coins counted than checked. `HistoryIsOfTheCoin`: no transaction twice or of another coin. `AnnouncedComesUp`, `ShownHistoryCatchesUp` | 3 coins, limit 2, 2 sessions, 2 commands; 3 coins of which two share a key, 3 transactions of which one may be old, a page of 1, 2 events and failures together, 2 fetches, 1 choice |
| `records` | `SerialChangesHold`: changes that do not overlap keep files and memory in agreement wherever the process ends. `UpgradeKeepsSettings`. `ContactsAreKept`. `RowsAndStatusAgree`: rows are the last answer but where one form of an order was taken for the other, a better order is told of, one called gone is gone | 5 coins (2 custom, symmetric), 2 logins, 4 commands; 2 names, 2 types, 4 edits; 2 orders in 2 forms, 3 changes |
| `forms` | `TokensAreKept`, `SubmitRepairs`; `PreferencesAreKept`; `ListsAreOfTheChoice`: history, "Cancel All" and export are of the filter; `VerdictHolds`; `ClaimsAreFresh`; `FormShowsThePair`; `OrderRowsAgree`: rows, registries and filter are one snapshot, with a user who chooses during a fetch | 2 tokens, 2 wallets, 4 starts; 3 versions, 3 starts; 2 swaps, 2 batches, 5 acts; 4 addresses, 4 questions; 5 claims; 3 coins, 1 question at a time, 2 events; 3 items, 2 pages, 3 fetches |
| `dex` | `ShownBookCatchesUp`, `ChosenPageComes`, `MarketIsFollowed` | 3 coins, 1 order each way, 1 loss; 3 items, 2 pages, 2 filters; 3 orders, 3 rates, 3 events |
| `trading` | `FormIsOfThePair`: the picked order, fees and minimal volumes are of the pair shown; `VanishedOrderIsReported` | 3 coins, 2 commands, 1 call of a kind, 1 event |
| `session` | `SessionIsOfItsWallet`: a wallet opens with its password, a session confirms it, the daemon serves it; `ImplementsVault`; `ScreensEnd` | 2 wallets, 2 seeds, passwords with and without suffix, 2 tries, 6 commands, 1 event |
| `wallet` | `SentIsConfirmed`: what is broadcast was prepared for the coin and page shown, what is shown as sent was sent; `BalancesAreRight`: lowered balances never grow, true ones and availability catch up; `SendEnds` | 3 coins, a true and a camouflage session, 2 fetches, loop of 2, 1 command, 1 event, 1 failure |
| `services` | `PricesAgree`: total, rows and currency are of one market once the updates are done; the search for a currency ends; `RowsCatchUp`: whatever overlapped, the figures come back; `WatchersRecover`; `WaitingCoinsComeUp`: a coin that waits for its files comes up, or was in a list refused at the limit | 1 coin, 2 fiats and 2 coins to count in, one without an id, 2 quotes, an HTTP thread and the GUI thread, 1 poll at a time, 1 move; 2 questions, 3 turns; 1 shielded coin, a limit of 2 with none or one other, 1 failure, 1 new press, 1 enabled by hand |
| `wallet_camouflage` | violated: `BalanceIsLower`, see [below](#where-the-code-departs-from-what-it-says) | as `wallet`, one fetch |

**Deadlock** is not checked: the user may stop giving commands, and the bounds end every
behaviour.

## Fairness

Weak fairness, of what the platform schedules: a worker or the init thread that can step
does; the GUI thread finishes a command and comes back to its timer; posted signals are
taken; a request is answered or fails, for the HTTP client has a timeout. The user owes
nothing (`Downloads` alone asks him to press the button once more), and a *task* of the
daemon may never end: `ActivationEnds` then relies on the counter.

Strong fairness is used where a periodic action competes for something that others take and
give back again and again, and weak fairness would allow it never to find it free: the
periodic fetch of the book (`PeriodicFetch`, `TradingPage`), of a balance
(`FetchSingleBalance`, `WalletPage`) and of the transactions (`FetchInfos`,
`TransactionsModel`); and where the world outside succeeds now and then if it is tried for
ever: an answered ping and an answer of the time server (`Watchers`).

A call or a thread that can be at one of several places has one conjunct of weak fairness for
the disjunction of its steps (`CallProceeds` of `TransactionsModel`): each place allows at
most one of them. `MCDex` writes out what enables the steps of the trading page, which is all
that their guards ask for: `ENABLED` of the composed handlers takes TLC too long.

## Proofs

TLAPS checks every leaf. The constants are arbitrary under the assumptions that the modules
name (`CoinsAssumption`, `ZhtlcAssumption`, `PlatformAssumption`, `SessionAssumption` ...):
finite sets of coins, subsets as the code has them, natural bounds, values like `NoFile`
that are not among those they stand beside. So the bounds of the runs do not matter here: the
theorems hold for any number of coins, sessions, commands, requests at a time and tries.

Each proof goes the same way: an inductive invariant, made of named parts that say why the
property is kept, was first checked by TLC; then `Init` establishes it, each action keeps
each part it can disturb, and the property follows.

| theorem | states | by the invariant |
|---|---|---|
| `CoinActivation_proofs!TypeCorrect` | types | itself |
| `...!NoEnabledCoinGoesMissing` | `EnabledCoinsAccountedFor` | `IInv`: adds `FlagsOnlyAnnounced`; without it a callback could flag a coin nobody was told of |
| `...!StoresComeTogether` | `StoresAgree` | `PlacesInv`: where a coin can be (queue, batch, callback, daemon, row, file) before each place is reached, ten parts. Agreement at rest is what remains when the places in between are empty |
| `ZhtlcActivation_proofs!TypeCorrect` | types | itself |
| `...!EnabledCoinsStayVisible` | `EnabledCoinsAreShown` | `ShownInv`: while disabling, the GUI thread holds the coin whose row it dropped |
| `...!FirstActivationRunsOn` | `FirstActivationIsNotInterrupted` | `SlotsFillInOrder` and `ReadyInv`: a stored Ok came from a task of that coin |
| `...!CounterStaysBounded` | `CounterIsBounded` | `TriesFit`: the counter plus the activations that may still count stays within the limit plus the activations begun |
| `PlatformActivation_proofs!TypeCorrect`, `OwnerIsAlone` | types; only the owner of the mutex goes through its tokens | itself |
| `...!TokensHavePlatform` | `EnabledTokensHavePlatform` | `PlatformInv`: what is about to be enabled under a platform, in the queue, in an answer or in a callback, finds the platform enabled, disabled by the user since it last was (`left`), or asked for twice (`overlapped`); tokens left are of the call |
| `...!AnnouncementsAreRight` | `AnnouncementsAreTrue` | the same, with what is announced and not yet flagged by the place of its callback, and what the GUI thread is taking down by its place in `disable_coins` |
| `Portfolio_proofs!TypeCorrect`, `RowsMatchRegistry`, `RowsMatchMarks`, `ViewsCountEveryRow`, `CountNeverExceedsChecked`, `ContainersStayTogether` | types; the parts of `ContainersAgree`, and all of it | `Rows` (removing a row is only sound because a registered coin has one), `Marks`, `Count` (the count is at least the checked coins still in the dialog), `Views` |
| `Application_proofs!FilesAndDaemonFollowTheWallet` | `SessionIsOfItsWallet` | `SessionInv`: nobody is logged in at startup, the thread is of the login, the files fit the seed or an excuse, the daemon is of the login, a call that runs keeps its flag |
| `...!SessionImplementsVault` | `ImplementsVault` | the same: initial states are the vault's, and each step is a step of `Vault` or changes none of its variables |
| `...!OrderRowsAlwaysAgree` | `OrderRowsAgree` | `OrdersInv`: the daemon has each swap once and no open order of a swap's id (`DaemonSound`); what rows, snapshot and answers name the daemon has (`HeldSound`); batches that wait come before those begun (`Line`); as long as batches take turns (`Turns`) none under way has as an order what the rows or the snapshot have as a swap (`NoneIsBehind`), and registries name rows, an order's before its swap's (`Agreeing`); without an excuse snapshot, batches and rows are of one filter (`FiltersAgree`) |
| `...!PagesAlwaysTurnedByTheUser` | `PagesAreTurnedByTheUser`, a part of `ChosenPageComes` | `PagesInv`: unless something is excused, what is held, asked for and answered is of the chosen page, limit and filter (`AsChosen`), every number of pages held is one the history reaches (`Reaches`; a history only grows, `SelectionGrows`), and the answer that waits for the choice has rows when its page is not the first (`Filled`, `PageIsThere`), so that no refresh turns a page of its own |
| `...!HistoryIsAlwaysOfTheCoin` | `HistoryIsOfTheCoin` | `TxInv`: without mixed or crowded histories, what is stored and what calls carry is an earlier history of some coin (`IsHistory`: newest first, those that wait at its head and no more of them than a page); the rows of a page that was not raced are the oldest of its coin with none left out, and those of the newest page are shown (`RowsAre`), so that what `match` does not find is new |
| `Records_proofs!SerialChangesAlwaysHold` | `SerialChangesHold` | `FileInv`: as long as changes did not overlap one thread at most writes, the main file is whole or its writer holds what was in it, and what the registry says is saved or held by a writer |
| `...!UpgradesKeepSettings` | `UpgradeKeepsSettings` | `OldComesAlong` of the same: at each step of the upgrade the flags of the old file are in it, in the new one, or in the hands of the login |
| `WalletPage_proofs!WhatIsSentWasConfirmed` | `SentIsConfirmed` | `SentInv`: what the modal shows is what the withdrawal answered for this coin and page, at each place of the withdrawal, the confirmation and the broadcast |
| `...!CamouflageBalancesNeverGrow` | `CamouflageNeverGrows`, the part of `BalancesAreRight` about single steps | `CamouflageFits`: in a camouflage session an answer that is handled holds no more than the balance shown |
| `Forms_proofs!TokensStayKept`, `SubmitAlwaysRepairs` | `TokensAreKept`, `SubmitRepairs` | `TokensInv`: what a writer is about to write fits the files at each of its places; a token kept by a wallet is in `coins.json`, orphaned, or being written |
| `...!NumbersAreAlwaysOfThePair` | `FormShowsThePair` | `StatsInv`: sheet and labels are of what was known, a read in two parts is of the pair or excused |
| `...!ConfirmedClaimsAreFresh` | `ClaimsAreFresh` | `ClaimsInv`: as long as a claim's answer or its signals are on their way the form cannot confirm or was opened early |
| `...!PreferencesStayKept` | `PreferencesAreKept` | `PrefInv`: by version, what is chosen and what is in the files agree; newer versions have no files yet; what a copy leaves is whole or named |
| `...!ListsStayOfTheChoice` | `ListsAreOfTheChoice` | `HfInv`: the proxy is set as the boxes of the tab in front, what a snapshot and the rows show as finished passes the filter they were asked with, the history is asked with its boxes, what was due to an export stays due; each but for the excuses of the properties |
| `...!FormIsAlwaysOfThePair`, `VanishedOrdersAreReported` | `FormIsOfThePair`, `VanishedOrderIsReported` | `TradingInv`: what each answer under way is of, what waits in the queues, and for what a turned pair leaves behind its excuse. A handler is composed of several of the page's functions, so the lemmas are about any state of them (`Steady`, `Silent`, `Turned` ...) and compose as the code does |
| `Records_proofs!ContactsAreAlwaysKept` | `ContactsAreKept` | `BookInv`: the models are the contacts of the manager one by one, names and ids differ, entries were entered for their contact (until names collide); an untouched form is the one the daemon was asked about; entries are validated or excused, and told apart |
| `Records_proofs!RowsAndStatusAlwaysAgree` | `RowsAndStatusAgree` | `RowsInv`: an order whose lookup found its other form is `mistaken`; the rows of all others are kept one by one at every step of the two folds of a refresh, whichever row each lookup found, and what the status says is true of the rows of that step (`Told`): nothing better was seen, or the order picked was not the best of its time |
| `Portfolio_proofs!PricesAlwaysAgree` | `PricesAgree` | `PricesInv`: at every moment of a behaviour that is `settled`, each figure is the current one, or an event that will have it computed is pending, or a thread has it still to compute or has computed what it is now and not yet written it (`Agreement`); no two threads then write the same part. `ChoiceEnds` takes the first currency available down the list, wherever the search starts |
| `Portfolio_proofs!OnlyEnabledPairsEverMove` | `OnlyEnabledPairsMove`, a part of `MarketIsFollowed` | `BotInv`: an open order was placed; the pair of every request on its way was enabled once and its order is a maker order, however long it waits and whatever is disabled meanwhile |
| `...!NoCoinIsEverForgotten` | `DownloadsTypeOK` and `NoCoinIsForgotten`, a part of `WaitingCoinsComeUp` | `DownloadsInv`: every step that takes a coin from one of `wait`, `tried`, `up` puts it in another or, at a refusal, in `forgotten`; and the list that waits is never longer than the shielded coins and those enabled again by hand together, so that what was refused says what the other coins were |
| `...!LostCheckIsTheLast` | `WatchersTypeOK`, a part of `WatchersRecover`, and `updateLost => fetching` | inductive as they are. The second part is what the code does where `WatchersRecover` has its excuse: `is_fetching` is never lowered after a check that threw |
| `Forms_proofs!VerdictAlwaysHolds` | `VerdictHolds` | `RecipientInv`: with no question under way the result is the verdict of the last one asked; a conversion shown is of the address it was asked for |

**What the theorems leave open.** A theorem says what the code does, and where the code lets
an order of events break the property, its statement names that order; the words of the
excuses are in the comments of the properties. The ones to know: a custom token is kept unless
the process ends between the two writes (`orphaned`; `SubmitAlwaysRepairs` says how it is
repaired) or `coins.json` is cut or replaced; a claim is fresh unless its form was opened
while the one before was under way (`openedBusy`); contacts are distinct and entries validated
until a contact is renamed to the name of another (`collided`), and unless a form was touched
while the daemon was asked (`late`); the rows of the book leave out the orders for whose other
form a lookup was taken (`mistaken`); the history is of the coin unless the thread that gave it
was overtaken between comparing the tickers and updating the model (`raced`); a token has its
platform unless the user disabled that (`left`) or asked for it twice at a time; figures agree
unless updates overlapped since one last ran alone; a coin that waits comes up unless its list
was refused at the limit (`forgotten`). In these orders the code shows something wrong, and no
theorem denies it; where the figures are wrong the next poll sets them right (`RowsCatchUp`).

That a fold takes its steps one after the other (`TreatsInTurn`, `RemovesInTurn`) is proved by
induction over the numbers, from the definition of the fold in the community modules: a least
number that the fold does not reach contradicts the step before it. What holds of each step
of a refresh then holds of the refresh (`AllTreated`, `AllRemoved`).

A lemma behind `PreferencesStayKept` is about the code's arithmetic alone: `HeightIsNear`,
the start height that `get_pirate_sync_height` computes is the multiple of 1000 blocks next
below a date after the checkpoint, next above one before it, for every date and checkpoint.

**What the proofs found about the model.** `SyncHeightIsNear` was false for dates before the
first block, where the code clips the height at zero: no checkpoint of the run had been low
enough; the property names the case, and the run has such a checkpoint now. A `CASE` in
`CustomTokens!Submit` overlapped, which TLC resolves by order and the prover need not. Several
assumptions on constants were missing (`NoFile` outside the suffixes, the checked verdicts of
the daemon), and invariants that TLC accepts were not inductive: that a coin is announced
before it is flagged, that a stored Ok came from a task, that the one writer of a file holds
what the file held. Two properties were false for constants larger than those of the
runs, and name the case now: `FeesAreOfThePair` with four commands (an order of another pair
picked in the simple view leaves the fees, `qt.trading.page.cpp` l. 80-110, excuse
"kept_fees"), and `HistoryIsOfTheCoin` with pages shorter than what waits (`match` finds only
rows that are shown, `transactions_model.cpp` l. 238-278: excuses "mixed" and "crowded"; the
run has pages of one now). `TradingPage` needed an assumption that `NoOrder` is not an order, and
`OrdersModel` one that the swaps of the start are distinct and none has the id of an order
to come. The prover knows no definition of `SelectSeq`: `OrdersModel` says what a filter
leaves by the places it leaves (`Subsequences`), and so does `TransactionsModel`.

## Only model-checked

All liveness (`ActivationSettles`, `CallbacksEnd`, `AnnouncedComesUp`,
`ShownHistoryCatchesUp`, `ShownBookCatchesUp`, `ChosenPageComes`, `MarketIsFollowed`,
`ScreensEnd`, `SendEnds`, `RowsCatchUp`, `WatchersRecover`, `WaitingCoinsComeUp`, and the
parts `BalanceCatchesUp` and `AvailabilityCatchesUp` of `BalancesAreRight`): liveness under
fairness and `ENABLED` are out of the prover's reach.

Every invariant that a run checks is proved. Of `BalancesAreRight`,
`ChosenPageComes`, `MarketIsFollowed`, `WaitingCoinsComeUp` and `WatchersRecover` the parts
about single states and steps are proved and the others are liveness. The violated
`BalanceIsLower` has nothing to prove.

## Where the code departs from what it says

One run shows a violated expectation: `wallet_camouflage`. The camouflage password "will
display your balance lower than it actually is"; a coin activated as SLP coins are gets its
true balance (`kdf.service.cpp` l. 1446, which writes it without lowering it).

These further disagreements have no run of their own. Each can be seen by adding the property
to the configuration named, whose other constants stay as they are but for those in brackets.

| property | configuration | what happens |
|---|---|---|
| `AnnouncedCoinsAreEnabled` | `ZhtlcActivation` | The loop stores Ok, which makes the coin disablable, and announces it later (`kdf.service.cpp` l. 1920): disabled in between, it gets a row |
| `FailedCoinsAreNotActive` | `ZhtlcActivation` | A progress event flags the coin early (l. 1842); when the task fails the flag stays and the next marking saves it as active |
| `TimedOutAfterAllTries` | `ZhtlcActivation` | `z_nb_try` is static (l. 1758): all coins share its limit and it is never reset |
| `[](~WaitsForItself)` | `PlatformActivation` | A callback that locks the registry again waits for itself (l. 1267) |
| `RefusedOnlyOverLimit` | `Pages` [limit 3] | A coin enabled while checked in the dialog is counted twice against the limit (`app.cpp` l. 70) |
| `RowsAreOfThisSession` | `Pages` | Logging out empties the queue before it disconnects the workers (`app.cpp` l. 592): an announcement in between becomes a row of the next session |
| `SavedIsRegistry`, `FileStaysWhole`, `AddedCoinIsKept` | `Records` | The GUI thread and a worker both rewrite the coins file from what they read (`kdf.service.cpp` l. 154): a flag or a token is lost, or the tail of the longer document stays |
| `FetchingEnds` of `OrdersModel` | `Dex` [3 pages] | A page out of range is answered by another request for it, for ever (`qt.orders.model.cpp` l. 610) |
| `VolumeSentIsShown`, `PriceSentIsShown` | `TradingPage` [3, 4 commands] | What is sent is taken from the form later than what was confirmed (`qt.trading.page.cpp` l. 402, 775) |
| `PriceIsFromTheBook` | `Records` | An update writes the denominator into the numerator (`qt.orderbook.model.cpp` l. 260) |
| `FixNeverMisleads` | `Forms` | A refused conversion leaves the field to the earlier one (`qt.wallet.page.cpp` l. 357) |

Other behaviour that the modules follow and a reader may not expect:

- *Activation.* A token may be queued again while its activation is pending; two selections
  in a row may together exceed the limit; a coin announced again together with a new one makes
  the views count a row too many; `enable_erc20_coins` has no caller (l. 869-994).
- *Files.* The failed copy of a version's settings still removes the old folder; a copy cut
  short is never made again, and a cut `cfg.json` ends every start (`app.cfg.cpp` l. 59). An
  addressbook file cut short reads as an empty book. Entries of types no longer known are
  dropped at the next save.
- *Preferences.* "we round height to the nearest 1000 blocks" (`qt.settings.page.cpp` l. 107)
  truncates toward zero. The shipped `cfg.json` has `use_static_rpcpass`, the code reads
  `static_rpcpass_enabled`. `set_pirate_sync_date` writes `UseSyncDate`.
- *Answers that are lost* leave their flag raised until the process ends: validation of an
  address (`qt.wallet.page.cpp` l. 1125), the faucet, a manual fetch of orders
  (`qt.orders.model.cpp` l. 660), a custom token's question, a check for an update.
- *Orders.* A filter chosen outside the history is never fetched (l. 709); an empty page sends
  the model to page 1 (l. 469); the end of the chosen period is the start of its last day.
- *Trading.* The day's numbers are read only when a pair is chosen; `disable_coins` takes
  another pair without clearing them (`qt.trading.page.cpp` l. 541); trades are replaced only
  if the volume differs (l. 1528); a failed request for them is repeated for ever from a
  worker that sleeps (`defi.stats.cpp` l. 117), and a refusal empties them (l. 68).
- *Wallet page.* In camouflage "max" sends the whole true balance; the text of an exception is
  shown as the hash; the toast of a failed claim is never shown.
- *Prices.* Before the first answer about rates, and for ever where no coin to count in has an
  id, `set_current_currency` may call itself without end; a row's percentage stays when its
  balance becomes 0. An update of the figures computes each before it writes it
  (`portfolio.model.cpp` l. 164, `qt.portfolio.page.cpp` l. 91): one that runs in an HTTP thread
  while the user chooses a currency leaves figures of the one before until the next poll. It
  stops, without a total, at a coin that is enabled and has no row.
- *Platforms.* `disable_coins` takes a platform down and leaves its tokens enabled; a coin
  whose disabling fails has lost its row and stays enabled.
- *Orderbook.* A row is looked up by `match`, whose default takes a prefix
  (`qt.orderbook.model.cpp` l. 440, 551, 632), and the uuid of an order in segwit form is that
  of the order and a suffix: with both in the book, the row of one is updated or removed for
  the other.
- *History.* The histories of all coins without a scanner share the key "result"
  (`kdf.service.cpp` l. 2844): an answer for one, stored between another's event and its
  reading, is shown as the other's.
- *Shielded parameters.* At 100 % the status bar calls `enable_coins` and clears the list
  (`Dashboard.qml` l. 261-263); at the limit `enable_coins` refuses the whole list
  (`app.cpp` l. 69-73; a coin that waits twice counts twice), and its coins are forgotten.
- *Ending the daemon.* `~kdf_service` takes the answer of the stop request with `get()`
  (`kdf.service.cpp` l. 366): where the daemon is gone it throws, and the process ends.
- *Maker orders.* Requests of two rounds may overlap; a missing rate gives the price 0.

## What is not modelled

The daemon, the markets and the servers (not in this repository) are sets of answers. JSON
conversion, formatting, styling and the vendored SDK are left out; memory races on unguarded
reads are modelled only where an interleaving of whole operations shows the effect. Left out
for their size: the fees of a withdrawal, KMD's rewards beside their claim, the delegation of
QTUM, the faucet (`qt.wallet.page.cpp` l. 979-998), `get_ticker_infos`, the fields of an order
beyond price and volume, confirmations and notarisations, the order and search of the proxies
(the orderbook proxy's `lessThan` is no strict order), the filter of the best orders on rates,
the lists of tickers, the export of logs, QR codes. The narrowing of the daemon's task id to
eight bits (`kdf.service.cpp` l. 1754) is not modelled: a task is identified by its
activation. `Watchers` takes the clock to be comparable with the server's, which the epoch of
`high_resolution_clock` does not grant on every platform. `PROJECT.json` gives the reason for
each part.

## Plan

The models are complete as far as the inventory goes, and every invariant is proved. What a
change of the code asks for is to change the definition that the map names for its lines, to
run the configuration that checks it, and to prove again what no longer goes through.
