-------------------------- MODULE PlatformActivation --------------------------
(***************************************************************************)
(* How kdf_service activates a platform coin together with its tokens:     *)
(* enable_slp_coins (BCH), enable_slp_testnet_coins (tBCH) and             *)
(* enable_tendermint_coins (one platform per parent coin).                 *)
(*                                                                         *)
(* If the platform is enabled, each token is asked for on its own; if not, *)
(* one RPC asks for the platform and all its tokens.  The callback runs in *)
(* a worker and keeps m_coin_cfg_mutex, a std::shared_mutex, while it goes *)
(* through the tokens; the SLP callbacks, and the Tendermint one when the  *)
(* platform is already activated, then lock it again for each token.       *)
(* Locking a std::shared_mutex one holds is undefined: with libstdc++ the  *)
(* lock throws (kdf_client::process_rpc_async catches and logs it), with   *)
(* libc++ and on Windows the worker waits for itself.                      *)
(*                                                                         *)
(* The user may disable what is shown, a platform alone as well: its row   *)
(* goes first, then the GUI thread waits for the daemon, coin by coin.     *)
(*                                                                         *)
(* Abstracted: the other families, the limit of enabled coins and the      *)
(* saved marks (CoinActivation), balances, the parameters of the RPCs.     *)
(* The parent that application::enable_coins adds is asked for with its    *)
(* group anyway.  enable_erc20_coins has the shape of the SLP functions,   *)
(* but nothing calls it.                                                   *)
(***************************************************************************)
EXTENDS Integers, FiniteSets

CONSTANTS
    Platforms,      \* tickers of platform coins
    Tokens,         \* tickers of tokens
    Parent,         \* Parent[c] is the platform of c; of a platform, itself
    SlpPlatforms,   \* platforms activated by the two SLP functions
    Configured,     \* platforms that are in the coins file (has_coin)
    Relock,         \* what locking a held mutex does: {"throws"}, {"waits"}
    NoOwner,        \* nobody holds m_coin_cfg_mutex
    Requests,       \* bound: what the user asks for at a time
    MaxCalls,       \* bound: RPCs unanswered or in their callback
    MaxCommands     \* bound: commands of the user

Coins == Platforms \cup Tokens

ASSUME PlatformAssumption ==
    /\ IsFiniteSet(Coins)
    /\ Platforms # {} /\ Platforms \cap Tokens = {}
    /\ Parent \in [Coins -> Platforms]
    /\ \A p \in Platforms : Parent[p] = p
    /\ SlpPlatforms \subseteq Platforms
    /\ Configured \subseteq Platforms
    /\ Relock \subseteq {"throws", "waits"}
    /\ Requests \subseteq SUBSET Coins
    /\ MaxCalls \in Nat
    /\ MaxCommands \in Nat
    /\ NoOwner \notin 1..MaxCalls

VARIABLES
    currently_enabled,  \* m_coins_informations[c].currently_enabled
    activation_queue,   \* m_activation_queue; the order does not matter here
    gui,                \* the GUI thread in activate_coins or disable_multiple_coins
    calls,              \* activation RPCs, and the callbacks they run
    mutex,              \* the call whose callback holds m_coin_cfg_mutex
    portfolio_queue,    \* coins announced by coin_fully_initialized
    rows,               \* coins the portfolio shows
    kdf_coins,          \* external: the coins the daemon has activated
    overlapped,         \* history: coins asked for twice at a time, or while enabled
    interrupted,        \* history: tokens a second lock was taken for
    hidden,             \* history: coins whose row went and that stay or get enabled
    left,               \* history: platforms disabled since they were last enabled
    commands            \* bound: commands so far

shown     == <<portfolio_queue, rows, hidden>>
histories == <<overlapped, interrupted, left>>
vars == <<currently_enabled, activation_queue, gui, calls, mutex, kdf_coins, shown, histories,
          commands>>

-----------------------------------------------------------------------------
Ids == 1..MaxCalls

NoCall == [pc |-> "idle", coin |-> CHOOSE c \in Coins : TRUE, tokens |-> {}]

\* sent: unanswered.  ok, already, refused: answered, the callback has not
\* locked yet.  lock: the platform is announced.  held: it has the mutex and
\* goes through the tokens; held_already, the same after "already activated".
\* again: it locks the mutex for a token.  waits: for itself.
Call == [pc: {"idle", "sent", "ok", "already", "refused", "lock", "held",
              "held_already", "again", "waits"},
         coin: Coins, tokens: SUBSET Tokens]

GuiIdle == [pc |-> "idle", todo |-> {}, tokens |-> {}, coin |-> {}]

\* groups, tokens: in activate_coins.  disabling: in disable_multiple_coins, with
\* the coins of todo before it; disable_rpc, disabled: the daemon is asked for one
\* of them, and has dropped it.
Gui == [pc: {"idle", "groups", "tokens", "disabling", "disable_rpc", "disabled"},
        todo: SUBSET Coins, tokens: SUBSET Tokens, coin: SUBSET Coins]

Running(n) == calls[n].pc # "idle"

IsSlp(n) == Parent[calls[n].coin] \in SlpPlatforms

-----------------------------------------------------------------------------
(* Seeded faults: each replaces one definition below.                      *)

MutFlagTokenOnly(c) == IF c \in Platforms THEN currently_enabled ELSE currently_enabled \cup {c}

MutAnnounceNone(coins) == portfolio_queue

MutStaysLocked == mutex

MutIgnoreOwner == TRUE

MutAlwaysServes(p) == TRUE

MutNotGrouped(p) == gui.todo

-----------------------------------------------------------------------------
\* groupByParentCoin; the SLP coins are those of one platform.
Group(p) == {c \in gui.todo : Parent[c] = p}

\* A thread may lock the mutex, or read under it.
Free == mutex = NoOwner

Init ==
    /\ currently_enabled = {}
    /\ activation_queue = {}
    /\ gui = GuiIdle
    /\ calls = [n \in Ids |-> NoCall]
    /\ mutex = NoOwner
    /\ portfolio_queue = {} /\ rows = {} /\ hidden = {}
    /\ kdf_coins = {}
    /\ overlapped = {} /\ interrupted = {} /\ left = {}
    /\ commands = 0

Command == gui.pc = "idle" /\ Free /\ commands < MaxCommands /\ commands' = commands + 1

-----------------------------------------------------------------------------
(* The GUI thread.  Reading the registry needs the mutex for a moment.     *)

\* The coins the file holds.
Offered == Tokens \cup Configured

\* application::enable_coins and kdf_service::enable_coins: the dialog offers
\* coins that are not shown; enabled ones are passed over.
EnableCoins ==
    /\ Command
    /\ \E request \in Requests \cap SUBSET (Offered \ rows) :
         activation_queue' = activation_queue \cup (request \ currently_enabled)
    /\ UNCHANGED <<currently_enabled, gui, calls, mutex, kdf_coins, shown, histories>>

\* update() takes the queue.
TakeQueue ==
    /\ gui.pc = "idle" /\ Free
    /\ activation_queue # {}
    /\ gui' = [GuiIdle EXCEPT !.pc = "groups", !.todo = activation_queue]
    /\ activation_queue' = {}
    /\ UNCHANGED <<currently_enabled, calls, mutex, kdf_coins, shown, histories,
                   commands>>

\* A call that is not over asks for the coin, alone or with its platform.
Asked(c) == \E n \in Ids : Running(n) /\ c \in {calls[n].coin} \cup calls[n].tokens

Send(n, coin, tokens) ==
    /\ ~Running(n)
    /\ \A m \in Ids : m < n => Running(m)
    /\ calls' = [calls EXCEPT ![n] = [pc |-> "sent", coin |-> coin, tokens |-> tokens]]
    /\ overlapped' = overlapped \cup
                       {c \in {coin} \cup tokens : Asked(c) \/ c \in currently_enabled}

\* The registry says the platform may serve its tokens.
PlatformEnabled(p) == p \in currently_enabled

\* enable_slp_coins, enable_tendermint_coins: a platform missing from the
\* file is reported; a platform not enabled is asked for with its tokens.
StartGroup(p) ==
    /\ gui.pc = "groups" /\ Free
    /\ Group(p) # {}
    /\ \/ /\ p \notin Configured
          /\ gui' = [gui EXCEPT !.todo = @ \ Group(p)]
          /\ UNCHANGED <<calls, overlapped>>
       \/ /\ p \in Configured /\ PlatformEnabled(p)
          /\ gui' = [gui EXCEPT !.pc = "tokens", !.todo = @ \ Group(p), !.tokens = Group(p) \ {p}]
          /\ UNCHANGED <<calls, overlapped>>
       \/ /\ p \in Configured /\ ~PlatformEnabled(p)
          /\ \E n \in Ids : Send(n, p, Group(p) \ {p})
          /\ gui' = [gui EXCEPT !.todo = @ \ Group(p)]
    /\ UNCHANGED <<currently_enabled, activation_queue, mutex, kdf_coins, shown, interrupted,
                   left, commands>>

\* The loop of single token RPCs.
SendToken(t) ==
    /\ gui.pc = "tokens"
    /\ t \in gui.tokens
    /\ \E n \in Ids : Send(n, t, {})
    /\ gui' = [gui EXCEPT !.tokens = @ \ {t}]
    /\ UNCHANGED <<currently_enabled, activation_queue, mutex, kdf_coins, shown,
                   interrupted, left, commands>>

NextGroup ==
    /\ gui.pc \in {"groups", "tokens"}
    /\ gui.tokens = {}
    /\ gui.pc = "groups" => gui.todo = {}
    /\ gui' = IF gui.todo = {} THEN GuiIdle ELSE [gui EXCEPT !.pc = "groups"]
    /\ UNCHANGED <<currently_enabled, activation_queue, calls, mutex, kdf_coins,
                   shown, histories, commands>>

\* application::tick drains m_portfolio_queue into the portfolio.
DrainPortfolioQueue ==
    /\ gui.pc = "idle" /\ Free
    /\ portfolio_queue # {}
    /\ portfolio_queue' = {}
    /\ rows' = rows \cup portfolio_queue
    /\ hidden' = hidden \ portfolio_queue
    /\ UNCHANGED <<currently_enabled, activation_queue, gui, calls, mutex,
                   kdf_coins, histories, commands>>

-----------------------------------------------------------------------------
(* application::disable_coins, then kdf_service::disable_multiple_coins.   *)

\* Any of the coins shown, but for those of a swap, which are dropped from the
\* request.  Their rows go before the daemon is asked.
DisableCoins ==
    /\ Command
    /\ \E request \in Requests \cap SUBSET rows :
         /\ rows' = rows \ request
         /\ gui' = [GuiIdle EXCEPT !.pc = "disabling", !.todo = request]
    /\ UNCHANGED <<currently_enabled, activation_queue, calls, mutex, kdf_coins,
                   portfolio_queue, hidden, histories>>

\* Announced, and about to be flagged.
AboutToBeFlagged == {calls[n].coin : n \in {m \in Ids : calls[m].pc = "lock"}}

\* disable_coin: the tokens come first, and a coin that is not enabled, or not yet,
\* is passed over.
DisableOne(c) ==
    /\ gui.pc = "disabling" /\ Free
    /\ c \in gui.todo
    /\ c \in Tokens \/ gui.todo \cap Tokens = {}
    /\ gui' = [gui EXCEPT !.pc   = IF c \in currently_enabled THEN "disable_rpc" ELSE @,
                          !.todo = @ \ {c},
                          !.coin = IF c \in currently_enabled THEN {c} ELSE {}]
    /\ hidden' = hidden \cup ({c} \cap AboutToBeFlagged)
    /\ UNCHANGED <<currently_enabled, activation_queue, calls, mutex, kdf_coins,
                   portfolio_queue, rows, histories, commands>>

\* External: the daemon drops the coin and, of a platform, whatever tokens it likes,
\* or refuses to: "no such coin", active swaps, matching orders.
KdfDisables ==
    /\ gui.pc = "disable_rpc"
    /\ \E tokens \in SUBSET {t \in Tokens \cap kdf_coins : Parent[t] \in gui.coin} :
         kdf_coins' = kdf_coins \ (gui.coin \cup tokens)
    /\ gui' = [gui EXCEPT !.pc = "disabled"]
    /\ UNCHANGED <<currently_enabled, activation_queue, calls, mutex, shown,
                   histories, commands>>

KdfKeeps ==
    /\ gui.pc = "disable_rpc"
    /\ hidden' = hidden \cup gui.coin
    /\ gui' = [gui EXCEPT !.pc = "disabling", !.coin = {}]
    /\ UNCHANGED <<currently_enabled, activation_queue, calls, mutex, kdf_coins,
                   portfolio_queue, rows, histories, commands>>

\* The flag after the daemon has dropped the coin.
FlagAfterDisable == currently_enabled \ gui.coin

ClearEnabled ==
    /\ gui.pc = "disabled" /\ Free
    /\ currently_enabled' = FlagAfterDisable
    /\ left' = left \cup (gui.coin \cap Platforms)
    /\ gui' = [gui EXCEPT !.pc = "disabling", !.coin = {}]
    /\ UNCHANGED <<activation_queue, calls, mutex, kdf_coins, shown, overlapped,
                   interrupted, commands>>

\* update_coin_status on the saved marks, under the mutex as well.
DisableDone ==
    /\ gui.pc = "disabling" /\ Free
    /\ gui.todo = {}
    /\ gui' = GuiIdle
    /\ UNCHANGED <<currently_enabled, activation_queue, calls, mutex, kdf_coins,
                   shown, histories, commands>>

-----------------------------------------------------------------------------
(* External: the daemon.                                                   *)

\* It serves a request for a coin it has not, with the tokens that can be.
Serves(n, tokens) ==
    /\ calls[n].coin \notin kdf_coins
    /\ kdf_coins' = kdf_coins \cup {calls[n].coin} \cup tokens

\* A coin it has is "already activated"; another is activated or refused.
KdfAnswers(n) ==
    /\ calls[n].pc = "sent"
    /\ \/ /\ calls[n].coin \in kdf_coins
          /\ calls' = [calls EXCEPT ![n].pc = "already"]
          /\ UNCHANGED kdf_coins
       \/ \E tokens \in SUBSET calls[n].tokens :
            /\ Serves(n, tokens)
            /\ calls' = [calls EXCEPT ![n].pc = "ok", ![n].tokens = tokens]
       \/ /\ calls[n].coin \notin kdf_coins
          /\ calls' = [calls EXCEPT ![n].pc = "refused"]
          /\ UNCHANGED kdf_coins
    /\ UNCHANGED <<currently_enabled, activation_queue, gui, mutex, shown, histories,
                   commands>>

\* process_rpc_async: the connection fails, before or after the daemon has served
\* the request, or the answer does not parse; the callback does not run.
AnswerLost(n) ==
    /\ calls[n].pc = "sent"
    /\ UNCHANGED kdf_coins \/ \E tokens \in SUBSET calls[n].tokens : Serves(n, tokens)
    /\ calls' = [calls EXCEPT ![n] = NoCall]
    /\ UNCHANGED <<currently_enabled, activation_queue, gui, mutex, shown, histories,
                   commands>>

-----------------------------------------------------------------------------
(* The callback, in a worker.                                              *)

Flagged(c) == currently_enabled \cup {c}

Announced(coins) == portfolio_queue \cup coins

\* Success: the coin is announced before it is flagged.
AnnounceCoin(n) ==
    /\ calls[n].pc = "ok" /\ Free
    /\ portfolio_queue' = Announced({calls[n].coin})
    /\ calls' = [calls EXCEPT ![n].pc = "lock"]
    /\ UNCHANGED <<currently_enabled, activation_queue, gui, mutex, kdf_coins, rows,
                   hidden, histories, commands>>

LockAndFlag(n) ==
    /\ calls[n].pc = "lock" /\ Free
    /\ mutex' = n
    /\ currently_enabled' = Flagged(calls[n].coin)
    /\ left' = left \ {calls[n].coin}
    /\ calls' = [calls EXCEPT ![n].pc = "held"]
    /\ UNCHANGED <<activation_queue, gui, kdf_coins, shown, overlapped, interrupted,
                   commands>>

\* "Already activated": flagged, then announced, under the lock.
FlagAlreadyActivated(n) ==
    /\ calls[n].pc = "already" /\ Free
    /\ mutex' = n
    /\ currently_enabled' = Flagged(calls[n].coin)
    /\ left' = left \ {calls[n].coin}
    /\ portfolio_queue' = Announced({calls[n].coin})
    /\ calls' = [calls EXCEPT ![n].pc = "held_already"]
    /\ UNCHANGED <<activation_queue, gui, kdf_coins, rows, hidden, overlapped,
                   interrupted, commands>>

\* The flag after a refusal.
Unflagged(n) == currently_enabled \ {calls[n].coin}

\* Any other error: the coin is its tokens are not.
Refuse(n) ==
    /\ calls[n].pc = "refused" /\ Free
    /\ currently_enabled' = Unflagged(n)
    /\ calls' = [calls EXCEPT ![n] = NoCall]
    /\ UNCHANGED <<activation_queue, gui, mutex, kdf_coins, shown, histories, commands>>

\* Tendermint, activated: tokens are announced and flagged under the one lock.
TendermintToken(n, t) ==
    /\ calls[n].pc = "held" /\ ~IsSlp(n)
    /\ t \in calls[n].tokens
    /\ portfolio_queue' = Announced({t})
    /\ currently_enabled' = Flagged(t)
    /\ calls' = [calls EXCEPT ![n].tokens = @ \ {t}]
    /\ UNCHANGED <<activation_queue, gui, mutex, kdf_coins, rows, hidden, histories,
                   commands>>

\* SLP, activated: the token is announced, then the mutex is locked again.
SlpToken(n, t) ==
    /\ calls[n].pc = "held" /\ IsSlp(n)
    /\ t \in calls[n].tokens
    /\ portfolio_queue' = Announced({t})
    /\ interrupted' = interrupted \cup {t}
    /\ calls' = [calls EXCEPT ![n].pc = "again"]
    /\ UNCHANGED <<currently_enabled, activation_queue, gui, mutex, kdf_coins, rows,
                   hidden, overlapped, left, commands>>

\* Already activated, both kinds: the mutex is locked again at once, by
\* get_coin_info or by the callback.
TokenAlreadyActivated(n) ==
    /\ calls[n].pc = "held_already"
    /\ calls[n].tokens # {}
    /\ calls' = [calls EXCEPT ![n].pc = "again"]
    /\ UNCHANGED <<currently_enabled, activation_queue, gui, mutex, kdf_coins, shown,
                   histories, commands>>

\* The mutex after its owner has left the callback.
MutexAfterCallback == NoOwner

\* The second lock throws: the callback is left and its lock released.
RelockThrows(n) ==
    /\ "throws" \in Relock
    /\ calls[n].pc = "again"
    /\ calls' = [calls EXCEPT ![n] = NoCall]
    /\ mutex' = MutexAfterCallback
    /\ UNCHANGED <<currently_enabled, activation_queue, gui, kdf_coins, shown,
                   histories, commands>>

RelockWaits(n) ==
    /\ "waits" \in Relock
    /\ calls[n].pc = "again"
    /\ calls' = [calls EXCEPT ![n].pc = "waits"]
    /\ UNCHANGED <<currently_enabled, activation_queue, gui, mutex, kdf_coins, shown,
                   histories, commands>>

LeaveCallback(n) ==
    /\ calls[n].pc \in {"held", "held_already"}
    /\ calls[n].tokens = {}
    /\ calls' = [calls EXCEPT ![n] = NoCall]
    /\ mutex' = MutexAfterCallback
    /\ UNCHANGED <<currently_enabled, activation_queue, gui, kdf_coins, shown,
                   histories, commands>>

-----------------------------------------------------------------------------
Callback(n) ==
    \/ AnnounceCoin(n)
    \/ LockAndFlag(n)
    \/ FlagAlreadyActivated(n)
    \/ Refuse(n)
    \/ \E t \in Tokens : TendermintToken(n, t)
    \/ \E t \in Tokens : SlpToken(n, t)
    \/ TokenAlreadyActivated(n)
    \/ RelockThrows(n)
    \/ RelockWaits(n)
    \/ LeaveCallback(n)

Update ==
    \/ TakeQueue
    \/ \E p \in Platforms : StartGroup(p)
    \/ \E t \in Tokens : SendToken(t)
    \/ NextGroup

Disabling ==
    \/ \E c \in Coins : DisableOne(c)
    \/ ClearEnabled
    \/ DisableDone

Next ==
    \/ EnableCoins \/ DisableCoins
    \/ Update \/ DrainPortfolioQueue \/ Disabling
    \/ KdfDisables \/ KdfKeeps
    \/ \E n \in Ids : KdfAnswers(n) \/ AnswerLost(n) \/ Callback(n)

Spec == Init /\ [][Next]_vars

\* Threads that can step do; an RPC is answered or its connection fails.  The
\* mutex is taken once a call at most, so a waiter needs no stronger fairness.
FairSpec ==
    /\ Spec
    /\ WF_vars(Update \/ Disabling)
    /\ WF_vars(KdfDisables \/ KdfKeeps)
    /\ \A n \in Ids : /\ WF_vars(KdfAnswers(n) \/ AnswerLost(n))
                      /\ WF_vars(Callback(n))

-----------------------------------------------------------------------------
TypeOK ==
    /\ currently_enabled \subseteq Coins
    /\ activation_queue \subseteq Coins
    /\ gui \in Gui
    /\ calls \in [Ids -> Call]
    /\ mutex \in Ids \cup {NoOwner}
    /\ portfolio_queue \subseteq Coins /\ rows \subseteq Coins /\ hidden \subseteq Coins
    /\ kdf_coins \subseteq Coins
    /\ overlapped \subseteq Coins /\ interrupted \subseteq Tokens /\ left \subseteq Platforms
    /\ commands \in 0..MaxCommands

\* The mutex is held by the callback that is past its first lock, and by no
\* other: two callbacks are never among the tokens at once.
OnlyTheOwnerGoesThroughTokens ==
    \A n \in Ids : calls[n].pc \in {"held", "held_already", "again", "waits"} <=> mutex = n

\* Nothing but the user takes a platform from under an enabled token: whichever of the
\* answers for the platform and for the token came first, was refused or was lost, the
\* platform of an enabled token is enabled, or the user disabled it since it last was;
\* unless two activations of the platform overlapped: a late refusal of one then takes
\* down what the other has enabled.
EnabledTokensHavePlatform ==
    \A t \in currently_enabled : Parent[t] \in currently_enabled \cup left \cup overlapped

\* The coins whose rows went and that the daemon is still to be asked for.
Leaving == IF gui.pc \in {"disabling", "disable_rpc", "disabled"} THEN gui.todo \cup gui.coin ELSE {}

\* No coin is enabled behind the portfolio's back, also when the callback of its
\* platform is cut short; but a row that goes while the daemon keeps the coin, or
\* between the announcement and the flag, leaves the coin enabled and hidden.
EnabledAreShown == currently_enabled \subseteq portfolio_queue \cup rows \cup Leaving \cup hidden

\* With no call running, what is shown is enabled, but for the token at which the
\* second lock threw and for coins asked for twice at a time or while enabled.
ShownAreEnabledAtRest ==
    (\A n \in Ids : ~Running(n)) =>
        (portfolio_queue \cup rows) \ currently_enabled \subseteq interrupted \cup overlapped

\* A callback that waits for the lock it holds itself.
WaitsForItself == \E n \in Ids : calls[n].pc = "waits"

\* The registry (which the header calls concurrent) does not stay locked.
RegistryIsFreed == (mutex # NoOwner) ~> (mutex = NoOwner \/ WaitsForItself)

\* Every activation RPC is answered or lost and its callback ends.
CallsEnd == \A n \in Ids : Running(n) ~> (~Running(n) \/ WaitsForItself)

\* The GUI thread comes back from activating and from disabling.
GuiReturns == (gui.pc # "idle") ~> (gui.pc = "idle" \/ WaitsForItself)

\* The announcements of coin_fully_initialized are those of the enabled coins.
AnnouncementsAreTrue == EnabledAreShown /\ ShownAreEnabledAtRest

\* No callback keeps its worker, the registry or the GUI thread for ever, except where
\* a second lock waits: nothing but that wait ever keeps them.
CallbacksEnd == CallsEnd /\ RegistryIsFreed /\ GuiReturns
=============================================================================
