------------------------------ MODULE Portfolio ------------------------------
(***************************************************************************)
(* What the user sees of the coins: portfolio_model (the rows), its ticker *)
(* registry, global_coins_cfg_model (every coin, with an enabled and a     *)
(* checked mark) and the dialog that enables coins.  The GUI thread runs   *)
(* all of it, one handler at a time; workers of kdf_service announce coins *)
(* through m_portfolio_queue at any moment, also while the GUI thread is   *)
(* inside application::disconnect.                                         *)
(*                                                                         *)
(* Abstracted: the rows' order and contents; what kdf_service does between *)
(* a request and the announcement (CoinActivation, ZhtlcActivation), so a  *)
(* coin that was asked for may be announced at any time, more than once.   *)
(***************************************************************************)
EXTENDS Integers, FiniteSets

CONSTANTS
    Coins,           \* tickers of the coins file
    PrimaryDexCoins, \* never disabled
    SavedCoins,      \* coins a login enables by itself, the primary ones included
    MaxEnabled,      \* the MaximumNbCoinsEnabled setting
    MaxSessions,     \* bound: logins per behaviour
    MaxCommands      \* bound: disable commands per behaviour

ASSUME PortfolioAssumption ==
    /\ IsFiniteSet(Coins)
    /\ PrimaryDexCoins \subseteq SavedCoins
    /\ SavedCoins \subseteq Coins
    /\ MaxEnabled \in Nat
    /\ MaxSessions \in Nat
    /\ MaxCommands \in Nat

VARIABLES
    phase,           \* where the session stands
    session,         \* logins so far
    asked,           \* coins a worker of this session may announce
    portfolio_queue, \* m_portfolio_queue: tickers, and the session of each
    rows,            \* portfolio_model::m_model_data: rows per ticker
    ticker_registry, \* portfolio_model::m_ticker_registry
    view_rows,       \* rows the views were told of
    cfg_enabled,     \* global_coins_cfg_model::m_enabled_coins
    checked,         \* coins whose item is checked
    checked_nb,      \* m_checked_nb
    dialog,          \* EnableCoinModal: open or not, and the coins it filters
    fully_enabled,   \* m_primary/secondary_coin_fully_enabled
    stale,           \* history: rows an earlier session's announcement made
    refused,         \* history: coins the dialog still offered when it was refused
    commands         \* bound: disable commands so far

life == <<phase, session>>
cfg == <<cfg_enabled, checked, checked_nb>>
table == <<rows, ticker_registry, view_rows>>
history == <<stale, refused>>
vars == <<life, asked, portfolio_queue, table, cfg, dialog, history, fully_enabled, commands>>

-----------------------------------------------------------------------------
(* Seeded faults: each replaces one definition below, to show that a        *)
(* property notices it.                                                    *)

MutRemovedTwice(tickers) == [c \in Coins |-> IF c \in tickers THEN rows[c] - 2 ELSE rows[c]]

MutNewEveryTime(tickers) == tickers

MutBatchReplaces(tickers) == tickers

MutCloseKeepsCount == checked_nb

MutOnlyDisabledCoins(tickers) == tickers \ (cfg_enabled \cup PrimaryDexCoins)

MutOneIsTooFew == Cardinality(portfolio_queue) < 2

-----------------------------------------------------------------------------
Closed == [open |-> FALSE, filter |-> {}]

\* The rows of all_disabled_proxy.
Visible == dialog.filter \ cfg_enabled

Init ==
    /\ phase = "logged_out"
    /\ session = 0
    /\ asked = {}
    /\ portfolio_queue = {}
    /\ rows = [c \in Coins |-> 0]
    /\ ticker_registry = {}
    /\ view_rows = 0
    /\ cfg_enabled = {}
    /\ checked = {}
    /\ checked_nb = 0
    /\ dialog = Closed
    /\ fully_enabled = {}
    /\ stale = {}
    /\ refused = -1
    /\ commands = 0

-----------------------------------------------------------------------------
(* Sessions.                                                               *)

\* qt_wallet_manager::login: initialize_model replaces every item.
Login ==
    /\ phase = "logged_out"
    /\ session < MaxSessions
    /\ phase' = "starting"
    /\ session' = session + 1
    /\ asked' = SavedCoins
    /\ cfg_enabled' = {}
    /\ checked' = {}
    /\ checked_nb' = 0
    /\ UNCHANGED <<portfolio_queue, table, dialog, fully_enabled, history, commands>>

KdfStarted ==
    /\ phase = "starting"
    /\ phase' = "running"
    /\ UNCHANGED <<session, asked, portfolio_queue, table, cfg, dialog, fully_enabled, history, commands>>

\* application::disconnect, its first part: the queue is emptied while the
\* workers are still connected.
ClearPendingEvents ==
    /\ phase = "running"
    /\ ~ dialog.open
    /\ phase' = "leaving"
    /\ portfolio_queue' = {}
    /\ UNCHANGED <<session, asked, table, cfg, dialog, fully_enabled, history, commands>>

\* The rest: the rows are reset, then the workers are disconnected.
DisconnectSignals ==
    /\ phase = "leaving"
    /\ phase' = "logged_out"
    /\ asked' = {}
    /\ rows' = [c \in Coins |-> 0]
    /\ ticker_registry' = {}
    /\ view_rows' = 0
    /\ fully_enabled' = {}
    /\ stale' = {}
    /\ UNCHANGED <<session, portfolio_queue, cfg, dialog, refused, commands>>

-----------------------------------------------------------------------------
(* Announcements and the tick.                                             *)

\* A worker's coin_fully_initialized.
Announce(c) ==
    /\ phase \in {"running", "leaving"}
    /\ c \in asked
    /\ portfolio_queue' = portfolio_queue \cup {[coin |-> c, session |-> session]}
    /\ UNCHANGED <<life, asked, table, cfg, dialog, fully_enabled, history, commands>>

\* The drained tickers, each once.
ToInit == {e.coin : e \in portfolio_queue}

\* The tickers that get a row.
Datas(tickers) == tickers \ ticker_registry

\* What beginInsertRows is told.
RowsAnnounced(tickers) == tickers

\* global_coins_cfg_model::update_status(tickers, true).
MarkedEnabled(tickers) == cfg_enabled \cup tickers

NothingPending == portfolio_queue = {}

\* application::tick drains the queue into portfolio_page::initialize_portfolio:
\* tickers without a row get one, the views are told of as many rows as there
\* are tickers, and every ticker is marked enabled.
Tick ==
    /\ phase = "running"
    /\ ~ NothingPending
    /\ portfolio_queue' = {}
    /\ rows' = [c \in Coins |-> IF c \in Datas(ToInit) THEN rows[c] + 1 ELSE rows[c]]
    /\ ticker_registry' = ticker_registry \cup ToInit
    /\ view_rows' = IF Datas(ToInit) = {} THEN view_rows
                    ELSE view_rows + Cardinality(RowsAnnounced(ToInit))
    /\ cfg_enabled' = MarkedEnabled(ToInit)
    /\ fully_enabled' = fully_enabled \cup (ToInit \cap PrimaryDexCoins)
    /\ stale' = stale \cup {c \in Datas(ToInit) : [coin |-> c, session |-> session] \notin portfolio_queue}
    /\ UNCHANGED <<life, asked, checked, checked_nb, dialog, refused, commands>>

\* Loading is "complete": the dashboard takes commands.
Dashboard == phase = "running" /\ PrimaryDexCoins \subseteq fully_enabled

\* removeRow for each of the tickers.
Removed(tickers) == [c \in Coins |-> IF c \in tickers THEN rows[c] - 1 ELSE rows[c]]

\* application::disable_coins, the GUI's share: portfolio_page::disable_coins
\* removes the first row of each coin and its enabled mark.
DisableCoins(request) ==
    /\ Dashboard
    /\ ~ dialog.open
    /\ commands < MaxCommands
    /\ request # {}
    /\ request \subseteq ticker_registry \ PrimaryDexCoins
    /\ rows' = Removed(request)
    /\ ticker_registry' = ticker_registry \ request
    /\ view_rows' = view_rows - Cardinality(request)
    /\ cfg_enabled' = cfg_enabled \ request
    /\ stale' = stale \ request
    /\ commands' = commands + 1
    /\ UNCHANGED <<life, asked, portfolio_queue, checked, checked_nb, dialog, fully_enabled, refused>>

-----------------------------------------------------------------------------
(* The dialog.  set_all_state(false) reaches the rows of the proxy only,   *)
(* that is the coins not enabled at that moment.                           *)

Unchecked == checked \cap cfg_enabled

OpenDialog ==
    /\ Dashboard
    /\ ~ dialog.open
    /\ dialog' = [open |-> TRUE, filter |-> Coins]
    /\ checked' = Unchecked
    /\ checked_nb' = 0
    /\ UNCHANGED <<life, asked, portfolio_queue, table, cfg_enabled, fully_enabled, history, commands>>

FilterCoins(coins) ==
    /\ dialog.open
    /\ dialog' = [dialog EXCEPT !.filter = coins]
    /\ UNCHANGED <<life, asked, portfolio_queue, table, cfg, fully_enabled, history, commands>>

\* setData(Checked, true), refused at the limit.
Check(c) ==
    /\ dialog.open
    /\ c \in Visible \ checked
    /\ MaxEnabled > Cardinality(cfg_enabled) + checked_nb
    /\ checked' = checked \cup {c}
    /\ checked_nb' = checked_nb + 1
    /\ UNCHANGED <<life, asked, portfolio_queue, table, cfg_enabled, dialog, fully_enabled, history, commands>>

Uncheck(c) ==
    /\ dialog.open
    /\ c \in Visible \cap checked
    /\ checked' = checked \ {c}
    /\ checked_nb' = checked_nb - 1
    /\ UNCHANGED <<life, asked, portfolio_queue, table, cfg_enabled, dialog, fully_enabled, history, commands>>

\* Closing leaves no coin of the proxy checked and sets the count to zero.
CountAfterClosing == 0

Close ==
    /\ dialog' = Closed
    /\ checked' = Unchecked
    /\ checked_nb' = CountAfterClosing
    /\ UNCHANGED <<life, portfolio_queue, table, cfg_enabled, fully_enabled, stale, commands>>

CloseDialog ==
    /\ dialog.open
    /\ Close
    /\ UNCHANGED <<asked, refused>>

WithinLimit(request) == Cardinality(request) + Cardinality(cfg_enabled) <= MaxEnabled

\* "Enable": application::enable_coins gets every checked coin.
EnableClicked ==
    /\ dialog.open
    /\ checked_nb > 0
    /\ WithinLimit(checked)
    /\ asked' = asked \cup checked
    /\ Close
    /\ UNCHANGED refused

\* The label: the coins that may still be enabled.
StillEnableable == MaxEnabled - Cardinality(ticker_registry) - checked_nb

\* application::enable_coins returns false; the dialog ignores it and closes.
EnableRefused ==
    /\ dialog.open
    /\ checked_nb > 0
    /\ ~ WithinLimit(checked)
    /\ refused' = StillEnableable
    /\ Close
    /\ UNCHANGED asked

-----------------------------------------------------------------------------
Next ==
    \/ Login \/ KdfStarted \/ ClearPendingEvents \/ DisconnectSignals
    \/ \E c \in Coins : Announce(c) \/ Check(c) \/ Uncheck(c)
    \/ Tick
    \/ \E coins \in SUBSET Coins : DisableCoins(coins) \/ FilterCoins(coins)
    \/ OpenDialog \/ CloseDialog \/ EnableClicked \/ EnableRefused

Spec == Init /\ [][Next]_vars

\* application::tick runs on a timer of the GUI thread, and a disconnect that
\* has begun ends.
Fairness == WF_vars(Tick) /\ WF_vars(DisconnectSignals)

FairSpec == Spec /\ Fairness

-----------------------------------------------------------------------------
(* Properties.                                                             *)

\* Every variable has its type.
TypeOK ==
    /\ phase \in {"logged_out", "starting", "running", "leaving"}
    /\ session \in 0..MaxSessions
    /\ asked \subseteq Coins
    /\ portfolio_queue \subseteq [coin: Coins, session: Nat]
    /\ rows \in [Coins -> Nat]
    /\ ticker_registry \subseteq Coins
    /\ view_rows \in Int
    /\ cfg_enabled \subseteq Coins
    /\ checked \subseteq Coins
    /\ checked_nb \in Int
    /\ dialog \in [open: BOOLEAN, filter: SUBSET Coins]
    /\ fully_enabled \subseteq PrimaryDexCoins
    /\ stale \subseteq Coins
    /\ refused \in Int
    /\ commands \in 0..MaxCommands

\* The registry tells which tickers have a row, and none has two, however often
\* a coin is announced, disabled and announced again.
OneRowPerCoin == \A c \in Coins : rows[c] = IF c \in ticker_registry THEN 1 ELSE 0

\* While a session runs the rows and the coins marked enabled are the same, so
\* update_currency_values never gives up on a coin that is not inserted yet.
ShownIsEnabledInCfg == phase \in {"running", "leaving"} => ticker_registry = cfg_enabled

\* The dialog never counts a coin that is not checked.
CountedCoinsAreChecked == checked_nb \in 0..Cardinality(checked)

\* A coin announced while a session runs is shown, unless the session ends.
AnnouncedIsShown ==
    \A c \in Coins : (phase = "running" /\ c \in ToInit) ~> (c \in ticker_registry \/ phase # "running")

\* "You can still enable %1 assets. Selected: %2.": a selection is only refused
\* when the label has run below zero.
RefusedOnlyOverLimit == refused < 0

\* A coin announced again together with a new one makes the views count a row
\* too many; whatever is announced, disabled and announced again they never count
\* one too few, which would put the removal of a row out of their range.
ViewsMissNoRow == Cardinality(ticker_registry) <= view_rows

\* "Clears pending events": no row comes from an earlier session.
RowsAreOfThisSession == stale = {}

\* The rows, their registry, the marks of the coins configuration, the views and the
\* dialog's counter, changed one after the other by insert_coins, disable_coins and
\* the dialog, describe the same coins.
ContainersAgree ==
    OneRowPerCoin /\ ShownIsEnabledInCfg /\ ViewsMissNoRow /\ CountedCoinsAreChecked
=============================================================================
