------------------------------- MODULE MakerBot -----------------------------
(***************************************************************************)
(* The service that keeps the user's maker orders at the market's price.   *)
(* Every two minutes, and when the user enters the trading view, it reads  *)
(* the snapshot of orders kdf_service has at that moment, the settings of  *)
(* each order's pair and the rate, and asks the daemon for the new price.  *)
(* It does not wait: the requests may meet the daemon in any order, or     *)
(* not at all, and the answers change nothing.                             *)
(*                                                                         *)
(* Abstracted: one coin of each pair moves the rate; confirmations and the *)
(* minimal volume of a request.                                            *)
(***************************************************************************)
EXTENDS Naturals, FiniteSets, Sequences, SequencesExt

CONSTANTS MakerOrders, TakerOrders,
          PairOf(_),   \* base_rel of an order
          TestPairs,   \* pairs with a coin whose coingecko_id is "test-coin"
          Rates,       \* rates of the market; 0 is "0.00", a rate not known
          Spreads,     \* the user's spreads
          Price(_, _), \* rate and spread to price
          MaxBotEvents \* bound: what the user, the market and the network do

BotOrders == MakerOrders \cup TakerOrders
MakerPairs == {PairOf(o) : o \in BotOrders}

ASSUME MakerBotAssumption ==
  /\ IsFiniteSet(BotOrders) /\ MakerOrders \cap TakerOrders = {}
  /\ TestPairs \subseteq MakerPairs /\ 0 \in Rates /\ MaxBotEvents \in Nat

VARIABLES
  open,         \* external: the orders open at the daemon, with their prices
  placed,       \* history: the price the user gave each order
  rate,         \* get_cex_rates of each pair
  pairSettings, \* QSettings group of the pair
  listed,       \* m_orders_and_swaps: the first nb_orders rows
  kdfUp,        \* is_kdf_running
  updates,      \* the requests on their way
  everOn,       \* history: pairs that were ever enabled
  events        \* bound

botVars == <<open, placed, rate, pairSettings, listed, kdfUp, updates, everOn, events>>

\* The default of a pair the user never touched is "Disabled".
MutUntouched == [disabled |-> FALSE, spread |-> CHOOSE s \in Spreads : TRUE]
Untouched == [disabled |-> TRUE, spread |-> CHOOSE s \in Spreads : TRUE]

BotInit ==
  /\ open = [o \in {} |-> 0] /\ placed = [o \in {} |-> 0]
  /\ rate \in [MakerPairs -> Rates \ {0}]
  /\ pairSettings = [p \in MakerPairs |-> Untouched]
  /\ listed = <<>> /\ kdfUp = TRUE /\ updates = {} /\ everOn = {} /\ events = 0

BotEvent == events < MaxBotEvents /\ events' = events + 1

-----------------------------------------------------------------------------
(* The world.                                                              *)

PlaceMaker(o, price) ==
  /\ BotEvent /\ kdfUp /\ o \notin DOMAIN placed
  /\ open' = [x \in DOMAIN open \cup {o} |-> IF x = o THEN price ELSE open[x]]
  /\ placed' = [x \in DOMAIN placed \cup {o} |-> IF x = o THEN price ELSE placed[x]]
  /\ UNCHANGED <<rate, pairSettings, listed, kdfUp, updates, everOn>>

\* Cancelled or matched.
OrderGoes(o) ==
  /\ BotEvent /\ o \in DOMAIN open
  /\ open' = [x \in DOMAIN open \ {o} |-> open[x]]
  /\ UNCHANGED <<placed, rate, pairSettings, listed, kdfUp, updates, everOn>>

RateMoves(p, r) ==
  /\ BotEvent /\ r # rate[p]
  /\ rate' = [rate EXCEPT ![p] = r]
  /\ UNCHANGED <<open, placed, pairSettings, listed, kdfUp, updates, everOn>>

SetPairSettings(p, disabled, spread) ==
  /\ BotEvent /\ pairSettings[p] # [disabled |-> disabled, spread |-> spread]
  /\ pairSettings' = [pairSettings EXCEPT ![p] = [disabled |-> disabled, spread |-> spread]]
  /\ everOn' = IF disabled THEN everOn ELSE everOn \cup {p}
  /\ UNCHANGED <<open, placed, rate, listed, kdfUp, updates>>

\* The daemon of a session, which keeps the orders it saved.
DaemonTurns ==
  /\ BotEvent /\ kdfUp' = ~kdfUp
  /\ updates' = {} /\ listed' = <<>>
  /\ UNCHANGED <<open, placed, rate, pairSettings, everOn>>

-----------------------------------------------------------------------------
(* The snapshot.                                                           *)

\* The reply to batch_fetch_orders_and_swap, every five seconds: all orders.
SnapshotAnswered ==
  /\ kdfUp /\ listed' = SetToSeq(DOMAIN open) /\ listed' # listed
  /\ UNCHANGED <<open, placed, rate, pairSettings, kdfUp, updates, everOn, events>>

\* set_orders_and_swaps_pagination_infos: empty until the next reply.
PageIsTurned ==
  /\ BotEvent /\ listed # <<>> /\ listed' = <<>>
  /\ UNCHANGED <<open, placed, rate, pairSettings, kdfUp, updates, everOn>>

-----------------------------------------------------------------------------
(* The service.                                                            *)

MutListedOrders == ToSet(Tail(listed))
ListedOrders == ToSet(listed)

\* get_new_price_from_order: a rate that is not known makes a price of zero.
get_new_price_from_order(o) ==
  LET p == PairOf(o) IN IF rate[p] = 0 THEN 0 ELSE Price(rate[p], pairSettings[p].spread)

\* update_order.
IsUpdated(o) ==
  /\ o \in MakerOrders /\ PairOf(o) \notin TestPairs /\ ~pairSettings[PairOf(o)].disabled

MutInternalUpdate == {[order |-> o, price |-> Price(rate[PairOf(o)], CHOOSE s \in Spreads : TRUE)] :
                        o \in {x \in ListedOrders : IsUpdated(x)}}
internal_update == {[order |-> o, price |-> get_new_price_from_order(o)] :
                      o \in {x \in ListedOrders : IsUpdated(x)}}

\* A session that is not up is skipped.
process_update_orders ==
  /\ updates' = IF kdfUp /\ listed # <<>> THEN updates \cup internal_update ELSE updates
  /\ UNCHANGED <<open, placed, rate, pairSettings, listed, kdfUp, everOn>>

BotTick == process_update_orders /\ UNCHANGED events

\* on_gui_enter_dex forces an update, however recent the last.
EnterDex == BotEvent /\ process_update_orders

\* The daemon refuses an order it does not know, and a price of zero.
UpdateMet(u) ==
  /\ u \in updates /\ updates' = updates \ {u}
  /\ open' = IF u.order \in DOMAIN open /\ u.price > 0 THEN [open EXCEPT ![u.order] = u.price] ELSE open
  /\ UNCHANGED <<placed, rate, pairSettings, listed, kdfUp, everOn, events>>
UpdateLost(u) ==
  /\ BotEvent /\ u \in updates /\ updates' = updates \ {u}
  /\ UNCHANGED <<open, placed, rate, pairSettings, listed, kdfUp, everOn>>

AllUpdates == [order : BotOrders, price : {0} \cup {Price(r, s) : r \in Rates, s \in Spreads}]

BotNext ==
  \/ \E o \in BotOrders, r \in Rates \ {0} : PlaceMaker(o, r)
  \/ \E o \in BotOrders : OrderGoes(o)
  \/ \E p \in MakerPairs, r \in Rates : RateMoves(p, r)
  \/ \E p \in MakerPairs, d \in BOOLEAN, s \in Spreads : SetPairSettings(p, d, s)
  \/ DaemonTurns \/ SnapshotAnswered \/ PageIsTurned
  \/ BotTick \/ EnterDex
  \/ \E u \in updates : UpdateMet(u) \/ UpdateLost(u)

-----------------------------------------------------------------------------
\* The bot's share of the promise: once the user, the market and the network are
\* quiet, each maker order of an enabled pair comes to the market's price plus the
\* spread and stays there, though an older request may meet the daemon after a
\* newer one; an order just placed, or one the turned page hid, is not forgotten.
PricesFollow ==
  <>[](\A o \in MakerOrders \cap DOMAIN open :
         kdfUp /\ IsUpdated(o) /\ rate[PairOf(o)] > 0
           => open[o] = Price(rate[PairOf(o)], pairSettings[PairOf(o)].spread))

\* An order keeps the price the user gave it unless its pair was ever enabled.
OnlyEnabledPairsMove ==
  \A o \in DOMAIN open : PairOf(o) \notin everOn \/ o \in TakerOrders => open[o] = placed[o]
=============================================================================
