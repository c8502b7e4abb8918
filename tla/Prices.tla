------------------------------- MODULE Prices -------------------------------
(***************************************************************************)
(* What the coins are worth on the screen: komodo_prices_provider polls    *)
(* the market every 45 s, global_price_service polls the rates of the      *)
(* fiats every 5 minutes and derives from the market the rates of the      *)
(* coins one can count in; the portfolio rows and the total are figures    *)
(* computed from both, in the currency settings_page keeps.  An update of  *)
(* the figures runs on the thread that asks for it - of the HTTP client, a *)
(* worker of the daemon service or the window's - and computes each figure *)
(* before it writes it, so that updates overlap.                           *)
(***************************************************************************)
EXTENDS Integers, FiniteSets, Sequences, SequencesExt

CONSTANTS
  Assets,         \* the coins of the portfolio
  Fiats,          \* available_fiat besides "USD"
  CoinCurrencies, \* possible_currencies from the second on
  WithoutId,      \* primary coins whose coinpaprika_id is empty
  Workers,        \* threads that update figures, besides the window's
  MaxQuotes,      \* bound: how many markets there are, one after the other
  MaxMoves,       \* bound: choices of the user, polls of the rates, balances, coins that come or go
  MaxAsks         \* bound: market requests on their way

ASSUME PricesAssumption ==
  /\ IsFiniteSet(Assets) /\ Assets # {} /\ {"total", "gone", "none"} \cap Assets = {}
  /\ "gui" \notin Workers /\ IsFiniteSet(Workers)
  /\ CoinCurrencies \in Seq(STRING) /\ CoinCurrencies # << >>
  /\ \A m, n \in DOMAIN CoinCurrencies : CoinCurrencies[m] = CoinCurrencies[n] => m = n
  /\ ToSet(CoinCurrencies) \cap (Fiats \cup {"USD"}) = {}
  /\ MaxQuotes \in Nat \ {0} /\ MaxMoves \in Nat /\ MaxAsks \in Nat \ {0}

VARIABLES
  quote,       \* the market as it is now, 1, 2, ...
  marketHeld,      \* m_market_registry: the market it was filled from, 0 while empty
  asks,        \* the market requests on their way, what each will answer
  otherRates,  \* m_other_fiats_rates contains "rates"
  coinRates,   \* m_coin_rate_providers: "absent", "0.00" or a rate
  ratesAsked,  \* a request for the fiat rates is on its way, or will be asked again
  ratesCame,   \* history: an answer about rates has been processed
  currency,    \* current_currency
  fiat,        \* current_fiat
  possible,    \* possible_currencies
  bal,         \* the balances the daemon service holds, by version
  shown,       \* main_currency_balance of each row, and m_current_balance_all
  shows,       \* threads about to trigger fiat_rate_updated
  due,         \* coins whose ticker_balance_updated is about to be triggered
  updating,    \* what each thread is about to write, and has still to compute
  leaving,     \* disable_coins has removed a row, and not yet the coin's mark
  settled,     \* history: since a whole update began alone, see ShownAtRest
  overflown,   \* set_current_currency called itself without end
  moves        \* bound

rateVars == <<otherRates, coinRates, ratesAsked, ratesCame>>
cfgVars  == <<currency, fiat, possible>>
showVars == <<shown, updating, settled>>
pricesVars == <<quote, marketHeld, asks, rateVars, cfgVars, bal, shows, due, leaving,
                showVars, overflown, moves>>

AllFiats == Fiats \cup {"USD"}
CoinsOf  == ToSet(CoinCurrencies)
Threads  == Workers \cup {"gui"}
Parts    == Assets \cup {"total"}
Gone     == "gone"               \* a coin that is marked enabled and has no row
NoFigure == [unit |-> "none", market |-> 0, of |-> {}]
NoUpdate == [part |-> "none", figure |-> NoFigure, left |-> {}, whole |-> FALSE]

-----------------------------------------------------------------------------
\* The unit get_rate_conversion gives its figures: a coin without a rate counts
\* for one dollar, a fiat without rates is skipped and leaves the dollars.
Unit(c) == CASE c = "USD" -> "USD"
             [] c \in Fiats -> IF otherRates THEN c ELSE "USD"
             [] c \in CoinsOf -> CASE coinRates[c] = "absent" -> "USD"
                                   [] coinRates[c] = "0.00" -> "none"
                                   [] OTHER -> c

\* get_price_in_fiat and get_price_in_fiat_all: "0.00" without a price, else the
\* prices times the amounts, of one coin or of all.
Figure(c, amounts) ==
  IF marketHeld = 0 \/ Unit(c) = "none" THEN NoFigure
  ELSE [unit |-> Unit(c), market |-> marketHeld, of |-> amounts]

Amounts(p) == IF p = "total" THEN {<<a, bal[a]>> : a \in Assets} ELSE {<<p, bal[p]>>}
FigureOf(c, p) == Figure(c, Amounts(p))

is_fiat_available(c)     == c = "USD" \/ otherRates
is_currency_available(c) == coinRates[c] # "absent"
Available(c) == IF c \in AllFiats THEN is_fiat_available(c) ELSE is_currency_available(c)

-----------------------------------------------------------------------------
PricesInit ==
  /\ quote = 1 /\ marketHeld = 0
  /\ asks = {[fallback |-> FALSE, at |-> 1]}     \* the constructor's process_update
  /\ otherRates = FALSE /\ coinRates = [c \in CoinsOf |-> "absent"]
  /\ ratesAsked = TRUE /\ ratesCame = FALSE      \* force_update_providers at login
  /\ fiat \in AllFiats
  /\ currency \in {fiat} \cup CoinsOf
  /\ possible = <<fiat>> \o CoinCurrencies
  /\ bal = [a \in Assets |-> 1]
  /\ shown = [p \in Parts |-> NoFigure]
  /\ shows = 0 /\ due = {} /\ updating = [t \in Threads |-> NoUpdate]
  /\ leaving = FALSE /\ settled = TRUE /\ overflown = FALSE /\ moves = 0

Move == moves < MaxMoves /\ moves' = moves + 1

\* The market moves.
MarketMoves ==
  /\ quote < MaxQuotes /\ quote' = quote + 1
  /\ UNCHANGED <<marketHeld, asks, rateVars, cfgVars, bal, shows, due, leaving, showVars, overflown, moves>>

\* komodo_prices_provider::update: every 45 s the first server is asked.
PollMarket ==
  /\ Cardinality(asks) < MaxAsks
  /\ asks' = asks \cup {[fallback |-> FALSE, at |-> quote]}
  /\ UNCHANGED <<quote, marketHeld, rateVars, cfgVars, bal, shows, due, leaving, showVars, overflown, moves>>

\* Seeded fault: the registry is replaced and nobody told.
MutMarketAnswered(r) ==
  /\ asks' = asks \ {r}
  /\ marketHeld' = r.at
  /\ UNCHANGED <<quote, rateVars, cfgVars, bal, shows, due, leaving, showVars, overflown, moves>>

\* What an answer says of the coins: the market when it was asked.
MarketOf(r) == r.at

\* process_update, an answer: it replaces the registry, then the event is triggered.
MarketAnswered(r) ==
  /\ asks' = asks \ {r}
  /\ marketHeld' = MarketOf(r) /\ shows' = shows + 1
  /\ UNCHANGED <<quote, rateVars, cfgVars, bal, due, leaving, showVars, overflown, moves>>

\* process_update, a refusal or a lost answer: the second server is asked, once,
\* and the event is triggered all the same.
MarketRefused(r) ==
  /\ asks' = (asks \ {r}) \cup
               (IF r.fallback THEN {} ELSE {[fallback |-> TRUE, at |-> quote]})
  /\ shows' = shows + 1
  /\ UNCHANGED <<quote, marketHeld, rateVars, cfgVars, bal, due, leaving, showVars, overflown, moves>>

AnswerMarket == shows < MaxAsks /\ \E r \in asks : MarketAnswered(r) \/ MarketRefused(r)

-----------------------------------------------------------------------------
\* An update computes the figure of a part, in the currency of that moment, and keeps
\* it until it is written.
Computed(c, p, left, whole) ==
  [part |-> p, figure |-> FigureOf(c, p), left |-> left, whole |-> whole]
\* What it computes next: a row of those left, in the order of a hash map; after the
\* rows the total; nothing after the total, and nothing where it meets a coin that has
\* no row, at which update_currency_values returns and the total is not set.
NextPart(c, left, whole) ==
  IF left = {} THEN {Computed(c, "total", {}, whole)}
  ELSE {IF a = Gone THEN NoUpdate ELSE Computed(c, a, left \ {a}, whole) : a \in left}

\* Thread t begins an update of these rows, all or some, and the total.
Begin(t, c, rows, whole) ==
  /\ updating[t] = NoUpdate
  /\ \E u \in NextPart(c, rows, whole) : updating' = [updating EXCEPT ![t] = u]
  /\ settled' = /\ \A s \in Threads \ {t} : updating[s] = NoUpdate
                /\ Gone \notin rows /\ (whole \/ settled)
  /\ UNCHANGED shown

\* on_update_portfolio_values_event with the model: the enabled coins' rows, the total.
BeginAll(t, c) == Begin(t, c, Assets \cup (IF leaving THEN {Gone} ELSE {}), TRUE)

\* The figure computed is written, and the next one computed.
GoOn(t) ==
  LET u == updating[t]
  IN  /\ u # NoUpdate
      /\ shown' = [shown EXCEPT ![u.part] = u.figure]
      /\ \E v \in IF u.part = "total" THEN {NoUpdate} ELSE NextPart(currency, u.left, u.whole) :
           updating' = [updating EXCEPT ![t] = v]
      /\ UNCHANGED <<quote, marketHeld, asks, rateVars, cfgVars, bal, shows, due, leaving, settled,
                     overflown, moves>>

\* fiat_rate_updated, on a thread of the HTTP client.
ShowValues ==
  /\ shows > 0 /\ shows' = shows - 1
  /\ \E t \in Workers : BeginAll(t, currency)
  /\ UNCHANGED <<quote, marketHeld, asks, rateVars, cfgVars, bal, due, leaving, overflown, moves>>

\* The registry of the balances is written: by an answer of the daemon, of which
\* nobody is told, or by decrease_fake_balance, which then triggers an event.
BalanceWritten(a, told) ==
  /\ Move /\ a \notin due
  /\ bal' = [bal EXCEPT ![a] = @ + 1]
  /\ due' = IF told THEN due \cup {a} ELSE due
  /\ settled' = (settled /\ told)
  /\ UNCHANGED <<quote, marketHeld, asks, rateVars, cfgVars, shows, leaving, shown, updating, overflown>>

\* Seeded fault: the total waits for the next rates.
MutBalanceUpdated(a) ==
  /\ a \in due /\ due' = due \ {a}
  /\ shown' = [shown EXCEPT ![a] = FigureOf(currency, a)]
  /\ UNCHANGED <<quote, marketHeld, asks, rateVars, cfgVars, bal, shows, leaving, updating, settled,
                 overflown, moves>>

\* ticker_balance_updated: the row of the ticker of the event, then the total.
BalanceUpdated(a) ==
  /\ a \in due /\ due' = due \ {a}
  /\ \E t \in Workers : Begin(t, currency, {a}, FALSE)
  /\ UNCHANGED <<quote, marketHeld, asks, rateVars, cfgVars, bal, shows, leaving, overflown, moves>>

-----------------------------------------------------------------------------
\* What the window's thread does is done before it handles the next event.
GuiIsFree == updating["gui"] = NoUpdate /\ ~leaving

\* The tick, when a coin has come up: its row is there before its mark.
CoinComes ==
  /\ Move /\ GuiIsFree /\ BeginAll("gui", currency)
  /\ UNCHANGED <<quote, marketHeld, asks, rateVars, cfgVars, bal, shows, due, leaving, overflown>>

\* disable_coins, first the row: updates under way may have the coin still before them.
CoinLeaves ==
  /\ Move /\ GuiIsFree /\ leaving' = TRUE
  /\ updating' \in [Threads -> {updating[t] : t \in Threads} \cup
                     {[updating[t] EXCEPT !.left = @ \cup {Gone}] : t \in Threads}]
  /\ \A t \in Threads :
       \/ updating'[t] = updating[t]
       \/ /\ updating[t].whole /\ updating[t].part \in Assets
          /\ updating'[t] = [updating[t] EXCEPT !.left = @ \cup {Gone}]
  /\ settled' = (settled /\ updating' = updating)
  /\ UNCHANGED <<quote, marketHeld, asks, rateVars, cfgVars, bal, shows, due, shown, overflown>>

\* Then the mark, and the total without the model.
CoinLeft ==
  /\ leaving /\ leaving' = FALSE
  /\ Begin("gui", currency, {}, FALSE)
  /\ UNCHANGED <<quote, marketHeld, asks, rateVars, cfgVars, bal, shows, due, overflown, moves>>

-----------------------------------------------------------------------------
\* global_price_service::update and the login: on_force_update_providers.
PollRates ==
  /\ Move /\ ~ratesAsked /\ ratesAsked' = TRUE
  /\ UNCHANGED <<quote, marketHeld, asks, otherRates, coinRates, ratesCame, cfgVars, bal, shows, due,
                 leaving, showVars, overflown>>

\* refresh_other_coins_rates: the rate of each coin one can count in is taken from the
\* market held now, but for a primary coin without coinpaprika_id.
OtherCoinsRates ==
  [c \in CoinsOf |-> IF c \in WithoutId THEN coinRates[c]
                     ELSE IF marketHeld = 0 THEN "0.00" ELSE "a rate"]

\* Seeded fault: without the fiats' rates, those of the coins are not set.
MutRatesAnswered(success) ==
  /\ ratesAsked /\ ratesAsked' = FALSE
  /\ otherRates' = success
  /\ coinRates' = IF ~success THEN coinRates ELSE OtherCoinsRates
  /\ ratesCame' = TRUE
  /\ settled' = (settled /\ otherRates' = otherRates /\ coinRates' = coinRates)
  /\ UNCHANGED <<quote, marketHeld, asks, cfgVars, bal, shows, due, leaving, shown, updating, overflown, moves>>

\* The answer of the fiat rates; one that is not a success leaves no rate at all.
\* Nobody is told: the figures follow at the next poll of the market.  (A request that
\* fails is made again after a second, which changes nothing here.)
RatesAnswered(success) ==
  /\ ratesAsked /\ ratesAsked' = FALSE
  /\ otherRates' = success
  /\ coinRates' = OtherCoinsRates
  /\ ratesCame' = TRUE
  /\ settled' = (settled /\ otherRates' = otherRates /\ coinRates' = coinRates)
  /\ UNCHANGED <<quote, marketHeld, asks, cfgVars, bal, shows, due, leaving, shown, updating, overflown, moves>>

-----------------------------------------------------------------------------
\* set_current_currency tries the one next in line while the rate is not available.
After(c) == LET at == SelectInSeq(possible, LAMBDA p : p = c)
            IN  IF at \in 1..(Len(possible) - 1) THEN possible[at + 1] ELSE possible[1]
Tried(c) == LET try[n \in 0..(Len(possible) + 1)] ==
                  IF n = 0 THEN c ELSE After(try[n - 1])
            IN  try
FirstAvailable(c) ==
  {Tried(c)[n] : n \in {m \in 0..(Len(possible) + 1) :
      /\ Available(Tried(c)[m])
      /\ \A k \in 0..(m - 1) : ~Available(Tried(c)[k])}}

\* change_currency: a fiat also becomes the current fiat and the first possible one.
ChangeCurrency(c) ==
  /\ currency' = c
  /\ fiat' = IF c \in AllFiats THEN c ELSE fiat
  /\ possible' = IF c \in AllFiats THEN [possible EXCEPT ![1] = c] ELSE possible

set_current_currency(c) ==
  LET found == FirstAvailable(c)
  IN  IF found = {} THEN
        overflown' = TRUE /\ UNCHANGED <<cfgVars, showVars>>
      ELSE IF found = {currency} THEN
        UNCHANGED <<overflown, cfgVars, showVars>>
      ELSE LET next == CHOOSE n \in found : TRUE
           IN  ChangeCurrency(next) /\ BeginAll("gui", next) /\ UNCHANGED overflown

\* A click on the total: the next of the possible currencies.
ChooseNext ==
  /\ Move /\ GuiIsFree
  /\ set_current_currency(After(currency))
  /\ UNCHANGED <<quote, marketHeld, asks, rateVars, bal, shows, due, leaving>>

\* The list of fiats in the settings: set_current_fiat when its rate is known,
\* then set_current_currency.
ChooseFiat(f) ==
  /\ Move /\ GuiIsFree
  /\ IF is_fiat_available(f)
     THEN /\ fiat' = f /\ possible' = [possible EXCEPT ![1] = f] /\ currency' = f
          /\ IF currency = f THEN UNCHANGED showVars ELSE BeginAll("gui", f)
          /\ UNCHANGED overflown
     ELSE set_current_currency(f)
  /\ UNCHANGED <<quote, marketHeld, asks, rateVars, bal, shows, due, leaving>>

PricesNext ==
  /\ ~overflown           \* the stack is gone, and the program with it
  /\ \/ MarketMoves \/ PollMarket \/ AnswerMarket \/ ShowValues \/ PollRates
     \/ \E t \in Threads : GoOn(t)
     \/ \E ok \in BOOLEAN : RatesAnswered(ok) \/ \E a \in Assets : BalanceWritten(a, ok)
     \/ \E a \in Assets : BalanceUpdated(a)
     \/ CoinComes \/ CoinLeaves \/ CoinLeft
     \/ ChooseNext
     \/ \E f \in AllFiats : ChooseFiat(f)

\* The tick polls for ever, the HTTP client times out, threads get to run.
PricesFairness ==
  /\ WF_pricesVars(~overflown /\ PollMarket)
  /\ WF_pricesVars(~overflown /\ AnswerMarket)
  /\ WF_pricesVars(~overflown /\ ShowValues)
  /\ WF_pricesVars(~overflown /\ CoinLeft)
  /\ \A t \in Threads : WF_pricesVars(~overflown /\ GoOn(t))
PricesSpec == PricesInit /\ [][PricesNext]_pricesVars /\ PricesFairness

-----------------------------------------------------------------------------
Figures == {NoFigure} \cup
  [unit : AllFiats \cup CoinsOf, market : 1..MaxQuotes, of : SUBSET (Assets \X Nat)]

\* Type invariant of the prices.
PricesTypeOK ==
  /\ quote \in 1..MaxQuotes /\ marketHeld \in 0..MaxQuotes
  /\ asks \subseteq [fallback : BOOLEAN, at : 1..MaxQuotes]
  /\ coinRates \in [CoinsOf -> {"absent", "0.00", "a rate"}]
  /\ {otherRates, ratesAsked, ratesCame, leaving, settled, overflown} \subseteq BOOLEAN
  /\ fiat \in AllFiats /\ currency \in {fiat} \cup CoinsOf
  /\ possible = <<fiat>> \o CoinCurrencies
  /\ bal \in [Assets -> Nat] /\ due \subseteq Assets
  /\ shown \in [Parts -> Figures]
  /\ updating \in [Threads -> [part : Parts \cup {"none"}, figure : Figures,
                               left : SUBSET (Assets \cup {Gone}), whole : BOOLEAN]]
  /\ shows \in 0..MaxAsks

\* The search for a currency that has a rate comes to an end, except before the first
\* answer about rates or where no coin has an id: then no rate of a coin is known, and
\* a fiat other than the dollar sends set_current_currency round the list for ever.
ChoiceEnds == overflown => fiat # "USD" /\ (~ratesCame \/ CoinsOf \subseteq WithoutId)

\* With every event treated and every update done, each row and the total are in the
\* chosen currency, at the market held, for the amounts held, so that the total is the
\* sum of the rows - provided that, since a whole update last began with no other under
\* way, none overlapped another or met a coin that was leaving, and nothing was written
\* of which nobody is told: an answer about rates, or the daemon's about a balance.
ShownAtRest ==
  settled /\ shows = 0 /\ due = {} /\ (\A t \in Threads : updating[t] = NoUpdate) =>
    \A p \in Parts : shown[p] = FigureOf(currency, p)

\* A refused poll, answers out of order, a rate or a balance nobody was told of, updates
\* that overlap and write what they computed before the currency was chosen anew, or end
\* at a coin that leaves: the rows and the total always come back to what the registries
\* say in the chosen currency.
RowsCatchUp == []<>(overflown \/ \A p \in Parts : shown[p] = FigureOf(currency, p))

\* The rows, the total and the chosen currency agree once the updates are done that
\* polls, answers and choices began (portfolio_model, set_current_currency).
PricesAgree == PricesTypeOK /\ ChoiceEnds /\ ShownAtRest
=============================================================================
