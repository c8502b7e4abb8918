--------------------------- MODULE CoinActivation ---------------------------
(***************************************************************************)
(* How kdf_service turns a coin on and off, and how the portfolio follows. *)
(*                                                                         *)
(* Three threads touch this state.  The GUI thread runs the user's         *)
(* commands (application::enable_coins, disable_coins), the activation     *)
(* part of kdf_service::update and the drain of m_portfolio_queue in       *)
(* application::tick; none of these overlap.  The init thread queues the   *)
(* coins of the last session.  Worker threads run the callback of each     *)
(* batch of activation RPCs the daemon (KDF) answers; they interleave with *)
(* the other two at every lock the callback takes.                         *)
(*                                                                         *)
(* Abstracted: time (the 5/7/23 second clocks only say when update() may   *)
(* act), the coin's configuration but for its parent and the RPC family it *)
(* is activated with, and the families whose callbacks are not the batch   *)
(* one (ZHTLC, Tendermint, SLP).  rows stands for the three sets the GUI   *)
(* thread changes together: portfolio_model's rows, its m_ticker_registry  *)
(* and the enabled coins of global_coins_cfg_model.                        *)
(***************************************************************************)
EXTENDS Integers, Sequences, FiniteSets

CONSTANTS
    Coins,          \* tickers of the coins file
    DefaultCoins,   \* g_default_coins, active at login whatever the file says
    PrimaryDexCoins,\* the primary and secondary DEX coins, never disabled
    Parent,         \* Parent[c] is c's fees_ticker, c itself for a platform coin
    Families,       \* the batch families of activate_coins: UTXO/QRC20, ERC, BEP20
    Family,         \* Family[c] is the family activate_coins puts c in
    SavedActive,    \* coins whose saved "active" field is true at login
    MaxBatch,       \* coins update() takes from the queue at once (20)
    MaxEnabled,     \* the MaximumNbCoinsEnabled setting
    MaxInFlight,    \* bound: unanswered batches per family
    MaxCommands     \* bound: user commands per behaviour

ASSUME CoinsAssumption ==
    /\ IsFiniteSet(Coins)
    /\ DefaultCoins \subseteq Coins
    /\ PrimaryDexCoins \subseteq DefaultCoins
    /\ SavedActive \subseteq Coins
    /\ Parent \in [Coins -> Coins]
    /\ Family \in [Coins -> Families]

ASSUME BoundsAssumption ==
    /\ MaxBatch \in Nat \ {0}
    /\ MaxEnabled \in Nat
    /\ MaxInFlight \in Nat \ {0}
    /\ MaxCommands \in Nat

VARIABLES
    currently_enabled,  \* m_coins_informations[c].currently_enabled
    active,             \* m_coins_informations[c].active
    coins_file,         \* the "active" fields saved on disk
    activation_queue,   \* m_activation_queue
    kdf_running,        \* m_kdf_running
    init_todo,          \* coins the init thread has yet to queue
    batches,            \* activation RPC batches and the callbacks they run
    kdf_coins,          \* external: the coins the daemon has activated
    portfolio_queue,    \* m_portfolio_queue
    rows,               \* coins shown in the portfolio
    fully_enabled,      \* m_primary/secondary_coin_fully_enabled
    gui,                \* the command the GUI thread is in
    refused,            \* history: coins the daemon refused to disable
    overlapped,         \* history: coins queued while pending or enabled
    commands            \* bound: user commands so far

vars == <<currently_enabled, active, coins_file, activation_queue, kdf_running,
          init_todo, batches, kdf_coins, portfolio_queue, rows, fully_enabled,
          gui, refused, overlapped, commands>>

-----------------------------------------------------------------------------
BatchIds == Families \X (1..MaxInFlight)

NoBatch == [pc |-> "idle", coins |-> {}, activated |-> {}, failed |-> {}, todo |-> {}]

\* A batch request: one entry per coin, answered in the same order.
Sent(coins) == [NoBatch EXCEPT !.pc = "sent", !.coins = coins]

Batch == [pc: {"idle", "sent", "answers", "enable", "fail"}, coins: SUBSET Coins,
          activated: SUBSET Coins, failed: SUBSET Coins, todo: SUBSET Coins]

GuiIdle == [pc |-> "idle", todo |-> {}, asked |-> {}, coin |-> {}]

\* coin is empty, or holds the one coin whose disable RPC is out.
Gui == [pc: {"idle", "enabling", "disabling", "disable_rpc", "disabled"},
        todo: SUBSET Coins, asked: SUBSET Coins, coin: SUBSET Coins]

SeqSet(s) == {s[i] : i \in DOMAIN s}

InFlight(b) == batches[b].coins

Pending == SeqSet(activation_queue) \cup UNION {InFlight(b) : b \in BatchIds}

\* application::tick sets the loading status to "complete"; the dashboard, and
\* with it every user command, is reachable from then on.
Complete == fully_enabled = PrimaryDexCoins

-----------------------------------------------------------------------------
(* Seeded faults: each replaces one definition below, to show that a        *)
(* property notices it.                                                    *)

MutDisableableAny == rows

MutFlagKept == currently_enabled

MutStatusKept(field) == field

MutMarkMarked == currently_enabled \cap active

MutNothingErased == activation_queue

MutAnnouncedUnlessEnabled(batch) == batch.activated \ currently_enabled

MutAnyTickerIsPrimary(tickers) == tickers

-----------------------------------------------------------------------------
Init ==
    /\ currently_enabled = {}
    /\ active = SavedActive \cup DefaultCoins
    /\ coins_file = SavedActive
    /\ activation_queue = <<>>
    /\ kdf_running = FALSE
    /\ init_todo = SavedActive \cup DefaultCoins
    /\ batches = [b \in BatchIds |-> NoBatch]
    /\ kdf_coins = {}
    /\ portfolio_queue = {}
    /\ rows = {}
    /\ fully_enabled = {}
    /\ gui = GuiIdle
    /\ refused = {}
    /\ overlapped = {}
    /\ commands = 0

-----------------------------------------------------------------------------
(* The init thread, and the locked push both threads share.                *)

\* One iteration of enable_coins under m_activation_mutex.
Enqueue(c) ==
    /\ activation_queue' = Append(activation_queue, c)
    /\ overlapped' = IF c \in Pending \cup currently_enabled THEN overlapped \cup {c} ELSE overlapped

\* enable_default_coins queues get_active_coins(); nothing is enabled yet.
EnableDefaultCoin(c) ==
    /\ c \in init_todo
    /\ init_todo' = init_todo \ {c}
    /\ Enqueue(c)
    /\ UNCHANGED <<currently_enabled, active, coins_file, kdf_running, batches,
                   kdf_coins, portfolio_queue, rows, fully_enabled, gui,
                   refused, commands>>

KdfStarted ==
    /\ ~kdf_running
    /\ init_todo = {}
    /\ kdf_running' = TRUE
    /\ UNCHANGED <<currently_enabled, active, coins_file, activation_queue,
                   init_todo, batches, kdf_coins, portfolio_queue, rows,
                   fully_enabled, gui, refused, overlapped, commands>>

-----------------------------------------------------------------------------
(* application::enable_coins, then kdf_service::enable_coins.              *)

\* Parents added to a request: those neither enabled nor marked active.
ExtraCoins(request) ==
    {p \in {Parent[c] : c \in request} : p \notin request \cup currently_enabled \cup active}

\* The enabled coins are read once, then each of the others is queued.  The
\* dialog offers the coins the portfolio does not show.
EnableCoins ==
    /\ gui.pc = "idle" /\ Complete
    /\ commands < MaxCommands
    /\ \E request \in (SUBSET (Coins \ rows)) \ {{}} :
         /\ Cardinality(request) + Cardinality(rows) =< MaxEnabled
         /\ gui' = [GuiIdle EXCEPT !.pc = "enabling",
                      !.todo = (request \cup ExtraCoins(request)) \ currently_enabled]
    /\ commands' = commands + 1
    /\ UNCHANGED <<currently_enabled, active, coins_file, activation_queue,
                   kdf_running, init_todo, batches, kdf_coins, portfolio_queue,
                   rows, fully_enabled, refused, overlapped>>

EnableOne(c) ==
    /\ gui.pc = "enabling"
    /\ c \in gui.todo
    /\ gui' = [gui EXCEPT !.todo = @ \ {c}]
    /\ Enqueue(c)
    /\ UNCHANGED <<currently_enabled, active, coins_file, kdf_running, init_todo,
                   batches, kdf_coins, portfolio_queue, rows, fully_enabled,
                   refused, commands>>

EnableDone ==
    /\ gui.pc = "enabling"
    /\ gui.todo = {}
    /\ gui' = GuiIdle
    /\ UNCHANGED <<currently_enabled, active, coins_file, activation_queue,
                   kdf_running, init_todo, batches, kdf_coins, portfolio_queue,
                   rows, fully_enabled, refused, overlapped, commands>>

-----------------------------------------------------------------------------
(* application::disable_coins, then kdf_service::disable_multiple_coins.   *)

\* disable_coins passes over the primary and the secondary DEX coin.
Disableable == rows \ PrimaryDexCoins

\* The shown coins leave the portfolio before the daemon is asked.  The coins
\* of a swap in progress are dropped from the request: any subset may remain.
DisableCoins ==
    /\ gui.pc = "idle" /\ Complete
    /\ commands < MaxCommands
    /\ \E request \in (SUBSET Disableable) \ {{}} :
         /\ rows' = rows \ request
         /\ gui' = [pc |-> "disabling", todo |-> request, asked |-> request, coin |-> {}]
    /\ commands' = commands + 1
    /\ UNCHANGED <<currently_enabled, active, coins_file, activation_queue,
                   kdf_running, init_todo, batches, kdf_coins, portfolio_queue,
                   fully_enabled, refused, overlapped>>

IsToken(c) == Parent[c] # c

\* disable_coin: tokens come first, and a coin that is not enabled is passed
\* over; for the others the RPC leaves and the GUI thread waits.
DisableOne(c) ==
    /\ gui.pc = "disabling"
    /\ c \in gui.todo
    /\ IsToken(c) \/ \A d \in gui.todo : ~IsToken(d)
    /\ gui' = IF c \in currently_enabled
              THEN [gui EXCEPT !.pc = "disable_rpc", !.coin = {c}]
              ELSE [gui EXCEPT !.todo = @ \ {c}]
    /\ UNCHANGED <<currently_enabled, active, coins_file, activation_queue,
                   kdf_running, init_todo, batches, kdf_coins, portfolio_queue,
                   rows, fully_enabled, refused, overlapped, commands>>

\* External: the daemon drops a coin it has.
KdfDisables ==
    /\ gui.pc = "disable_rpc"
    /\ gui.coin \subseteq kdf_coins
    /\ kdf_coins' = kdf_coins \ gui.coin
    /\ gui' = [gui EXCEPT !.pc = "disabled"]
    /\ UNCHANGED <<currently_enabled, active, coins_file, activation_queue,
                   kdf_running, init_todo, batches, portfolio_queue, rows,
                   fully_enabled, refused, overlapped, commands>>

\* External: "no such coin", active swaps, matching orders.  disable_coin
\* returns false, disable_multiple_coins goes on with the next coin.
KdfRefuses ==
    /\ gui.pc = "disable_rpc"
    /\ refused' = refused \cup gui.coin
    /\ gui' = [gui EXCEPT !.pc = "disabling", !.todo = @ \ gui.coin, !.coin = {}]
    /\ UNCHANGED <<currently_enabled, active, coins_file, activation_queue,
                   kdf_running, init_todo, batches, kdf_coins, portfolio_queue,
                   rows, fully_enabled, overlapped, commands>>

\* currently_enabled after the daemon has dropped the coin.
FlagAfterDisable == currently_enabled \ gui.coin

\* The success path of disable_coin, under m_coin_cfg_mutex.
ClearEnabled ==
    /\ gui.pc = "disabled"
    /\ currently_enabled' = FlagAfterDisable
    /\ gui' = [gui EXCEPT !.pc = "disabling", !.todo = @ \ gui.coin, !.coin = {}]
    /\ UNCHANGED <<active, coins_file, activation_queue, kdf_running, init_todo,
                   batches, kdf_coins, portfolio_queue, rows, fully_enabled,
                   refused, overlapped, commands>>

\* update_coin_status(tickers, false) on one "active" field.
Deactivated(field) == field \ gui.asked

\* update_coin_status(tickers, false), for the refused coins as well.
DisableDone ==
    /\ gui.pc = "disabling"
    /\ gui.todo = {}
    /\ active' = Deactivated(active)
    /\ coins_file' = Deactivated(coins_file)
    /\ gui' = GuiIdle
    /\ UNCHANGED <<currently_enabled, activation_queue, kdf_running, init_todo,
                   batches, kdf_coins, portfolio_queue, rows, fully_enabled,
                   refused, overlapped, commands>>

-----------------------------------------------------------------------------
(* kdf_service::update, its activation part, and activate_coins.           *)

TakeCount == IF Len(activation_queue) < MaxBatch THEN Len(activation_queue) ELSE MaxBatch

Taken == {activation_queue[i] : i \in 1..TakeCount}

OfFamily(coins, f) == {c \in coins : Family[c] = f}

FreeSlots(f) == {n \in 1..MaxInFlight : batches[<<f, n>>].pc = "idle"}

FreeSlot(f) == CHOOSE n \in FreeSlots(f) : TRUE

\* The enabled coins update() still has to mark active.
Unmarked == currently_enabled \ active

\* The queue once the coins taken are erased.
Remaining == SubSeq(activation_queue, TakeCount + 1, Len(activation_queue))

\* Enabled coins not marked active are marked and saved; then the head of the
\* queue is sent, one batch per family, and erased.
UpdateActivation ==
    /\ kdf_running /\ gui.pc = "idle"
    /\ \A f \in Families : OfFamily(Taken, f) # {} => FreeSlots(f) # {}
    /\ active' = active \cup Unmarked
    /\ coins_file' = coins_file \cup Unmarked
    /\ batches' = [b \in BatchIds |->
                     IF OfFamily(Taken, b[1]) # {} /\ b[2] = FreeSlot(b[1])
                     THEN Sent(OfFamily(Taken, b[1]))
                     ELSE batches[b]]
    /\ activation_queue' = Remaining
    /\ UNCHANGED <<currently_enabled, kdf_running, init_todo, kdf_coins,
                   portfolio_queue, rows, fully_enabled, gui, refused,
                   overlapped, commands>>

-----------------------------------------------------------------------------
(* The daemon, and the callback of a batch (the same in                    *)
(* enable_utxo_qrc20_coins and enable_erc_family_coins).                   *)

\* External: each coin is started, found already initialized, or fails; a
\* coin asked for twice may get two different answers.
KdfAnswers(b) ==
    /\ batches[b].pc = "sent"
    /\ \E activated, failed \in SUBSET batches[b].coins :
         /\ activated \cup failed = batches[b].coins
         /\ activated \cap failed \subseteq overlapped
         /\ kdf_coins' = kdf_coins \cup activated
         /\ batches' = [batches EXCEPT ![b] =
                          [pc |-> "answers", coins |-> @.coins, activated |-> activated,
                           failed |-> failed, todo |-> activated \ kdf_coins]]
    /\ UNCHANGED <<currently_enabled, active, coins_file, activation_queue,
                   kdf_running, init_todo, portfolio_queue, rows, fully_enabled,
                   gui, refused, overlapped, commands>>

\* External: the request fails, before or after the daemon has served it; the
\* callback throws or sees an "error", and nothing else happens.
AnswerLost(b) ==
    /\ batches[b].pc = "sent"
    /\ \E started \in SUBSET batches[b].coins : kdf_coins' = kdf_coins \cup started
    /\ batches' = [batches EXCEPT ![b] = NoBatch]
    /\ UNCHANGED <<currently_enabled, active, coins_file, activation_queue,
                   kdf_running, init_todo, portfolio_queue, rows, fully_enabled,
                   gui, refused, overlapped, commands>>

\* process_batch_enable_answer sets the flag of a started coin; once all the
\* answers are read, the loop over activated_coins sets it again.
MarkEnabled(b, c) ==
    /\ batches[b].pc \in {"answers", "enable"}
    /\ c \in batches[b].todo
    /\ currently_enabled' = currently_enabled \cup {c}
    /\ batches' = [batches EXCEPT ![b].todo = @ \ {c}]
    /\ UNCHANGED <<active, coins_file, activation_queue, kdf_running, init_todo,
                   kdf_coins, portfolio_queue, rows, fully_enabled, gui,
                   refused, overlapped, commands>>

AnswersRead(b) ==
    /\ batches[b].pc = "answers"
    /\ batches[b].todo = {}
    /\ batches' = [batches EXCEPT ![b] = [@ EXCEPT !.pc = "enable", !.todo = batches[b].activated]]
    /\ UNCHANGED <<currently_enabled, active, coins_file, activation_queue,
                   kdf_running, init_todo, kdf_coins, portfolio_queue, rows,
                   fully_enabled, gui, refused, overlapped, commands>>

\* The callback ends, and its batch with it, after the last failed coin.
FreedAtEnd(batch) == IF batch.pc = "fail" /\ batch.todo = {} THEN NoBatch ELSE batch

\* The tickers of coin_fully_initialized.
Announced(batch) == batch.activated

\* trigger<coin_fully_initialized>: on_coin_fully_initialized_event runs in
\* this thread and fills m_portfolio_queue.
CoinFullyInitialized(b) ==
    /\ batches[b].pc = "enable"
    /\ batches[b].todo = {}
    /\ portfolio_queue' = portfolio_queue \cup Announced(batches[b])
    /\ batches' = [batches EXCEPT ![b] = FreedAtEnd([@ EXCEPT !.pc = "fail", !.todo = batches[b].failed])]
    /\ UNCHANGED <<currently_enabled, active, coins_file, activation_queue,
                   kdf_running, init_todo, kdf_coins, rows, fully_enabled, gui,
                   refused, overlapped, commands>>

\* The loop over failed_coins.
ClearFailed(b, c) ==
    /\ batches[b].pc = "fail"
    /\ c \in batches[b].todo
    /\ currently_enabled' = currently_enabled \ {c}
    /\ batches' = [batches EXCEPT ![b] = FreedAtEnd([@ EXCEPT !.todo = batches[b].todo \ {c}])]
    /\ UNCHANGED <<active, coins_file, activation_queue, kdf_running, init_todo,
                   kdf_coins, portfolio_queue, rows, fully_enabled, gui,
                   refused, overlapped, commands>>

-----------------------------------------------------------------------------
\* The flags tick() sets while it pops the tickers.
PrimaryCoins(tickers) == tickers \cap PrimaryDexCoins

\* application::tick drains m_portfolio_queue into the portfolio.
DrainPortfolioQueue ==
    /\ kdf_running /\ gui.pc = "idle"
    /\ portfolio_queue # {}
    /\ portfolio_queue' = {}
    /\ rows' = rows \cup portfolio_queue
    /\ refused' = refused \ portfolio_queue
    /\ fully_enabled' = fully_enabled \cup PrimaryCoins(portfolio_queue)
    /\ UNCHANGED <<currently_enabled, active, coins_file, activation_queue,
                   kdf_running, init_todo, batches, kdf_coins, gui, overlapped,
                   commands>>

-----------------------------------------------------------------------------
InitThread == KdfStarted \/ \E c \in Coins : EnableDefaultCoin(c)

GuiCommand == EnableCoins \/ DisableCoins

GuiStep ==
    \/ EnableDone \/ ClearEnabled \/ DisableDone
    \/ \E c \in Coins : EnableOne(c) \/ DisableOne(c)

DisableAnswer == KdfDisables \/ KdfRefuses

BatchAnswer(b) == KdfAnswers(b) \/ AnswerLost(b)

Callback(b) ==
    \/ AnswersRead(b) \/ CoinFullyInitialized(b)
    \/ \E c \in Coins : MarkEnabled(b, c) \/ ClearFailed(b, c)

Next ==
    \/ InitThread \/ GuiCommand \/ GuiStep \/ DisableAnswer
    \/ UpdateActivation \/ DrainPortfolioQueue
    \/ \E b \in BatchIds : BatchAnswer(b) \/ Callback(b)

Spec == Init /\ [][Next]_vars

\* Threads are scheduled, the tick timer fires, and a request is answered or
\* fails; the user owes nothing.
Fairness ==
    /\ WF_vars(InitThread)
    /\ WF_vars(GuiStep)
    /\ WF_vars(DisableAnswer)
    /\ WF_vars(UpdateActivation)
    /\ WF_vars(DrainPortfolioQueue)
    /\ \A b \in BatchIds : WF_vars(BatchAnswer(b)) /\ WF_vars(Callback(b))

FairSpec == Spec /\ Fairness

-----------------------------------------------------------------------------
\* Every variable stays in the set of values the code gives it.
TypeOK ==
    /\ currently_enabled \in SUBSET Coins
    /\ active \in SUBSET Coins
    /\ coins_file \in SUBSET Coins
    /\ activation_queue \in Seq(Coins)
    /\ kdf_running \in BOOLEAN
    /\ init_todo \in SUBSET Coins
    /\ batches \in [BatchIds -> Batch]
    /\ kdf_coins \in SUBSET Coins
    /\ portfolio_queue \in SUBSET Coins
    /\ rows \in SUBSET Coins
    /\ fully_enabled \in SUBSET PrimaryDexCoins
    /\ gui \in Gui
    /\ refused \in SUBSET Coins
    /\ overlapped \in SUBSET Coins
    /\ commands \in 0..MaxCommands

\* The callback of b will still announce c to the portfolio.
WillAnnounce(b, c) ==
    /\ batches[b].pc \in {"answers", "enable"}
    /\ c \in batches[b].activated

IsBeingDisabled(c) ==
    /\ gui.pc \in {"disabling", "disable_rpc", "disabled"}
    /\ c \in gui.todo

IsAccountedFor(c) ==
    \/ c \in rows \cup portfolio_queue
    \/ \E b \in BatchIds : WillAnnounce(b, c)
    \/ IsBeingDisabled(c)
    \/ c \in refused

\* A coin the service holds enabled is on its way into the portfolio, in it,
\* or being disabled; it goes missing only when the daemon refused to disable
\* it after application::disable_coins had removed its row.
EnabledCoinsAccountedFor == \A c \in currently_enabled : IsAccountedFor(c)

\* Once loading is complete the primary DEX coins are shown, enabled and known
\* to the daemon, whatever the user disables or the daemon answers.
PrimaryCoinsStayUp ==
    Complete => PrimaryDexCoins \subseteq rows \cap currently_enabled \cap kdf_coins

Quiescent ==
    /\ Pending = {}
    /\ portfolio_queue = {}
    /\ gui = GuiIdle

\* At rest, the service, the portfolio and the daemon agree on every coin that
\* was never queued while already pending or enabled.
AtRestAllAgree ==
    Quiescent => \A c \in Coins \ overlapped :
        /\ c \in currently_enabled <=> c \in rows \cup refused
        /\ c \in rows => c \in kdf_coins

\* At rest, a coin saved as active is enabled or was active at the last login:
\* the periodic marking in update() does not bring back a disabled coin.
SavedCoinsAreEnabled ==
    Quiescent => coins_file \ overlapped \subseteq currently_enabled \cup SavedActive

\* A queued or requested activation is answered or fails; the queue drains.
PendingIsResolved == \A c \in Coins : c \in Pending ~> c \notin Pending

\* An enabled coin is saved as active, so that the next login enables it
\* (login enables the default coins whatever the file says).
EnabledIsSaved ==
    \A c \in Coins :
        c \in currently_enabled ~> c \in coins_file \cup DefaultCoins \/ c \notin currently_enabled

\* What service, portfolio, file and daemon say of a coin comes together again after
\* every command, answer and refusal, and the primary coins are never taken down.
StoresAgree == PrimaryCoinsStayUp /\ AtRestAllAgree /\ SavedCoinsAreEnabled

\* Nothing asked for stays pending, nothing enabled stays unsaved.
ActivationSettles == PendingIsResolved /\ EnabledIsSaved
=============================================================================
