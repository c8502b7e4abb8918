------------------------------ MODULE PairStats ------------------------------
(***************************************************************************)
(* The numbers shown beside the pair that is traded: its volume and its    *)
(* trades of 24 hours, the rate of the markets and how far the price that  *)
(* was typed is from it. global_defi_stats_service asks for all the pairs  *)
(* together every five minutes and keeps the answer; trading_page reads it *)
(* when a pair is chosen. The views show what the last notification of     *)
(* each number said.                                                       *)
(*                                                                         *)
(* Abstracted: an answer, or the rates of a moment, is the place it has in *)
(* a sequence that the world runs through. A rate is twice a quotient, so  *)
(* that it is a number; the price typed is in the same unit. The parts of  *)
(* the form that these numbers do not depend on are in TradingPage.        *)
(***************************************************************************)
EXTENDS Integers, Sequences

CONSTANTS
    TradedCoins,
    Primary, SecondPrimary,     \* DEX_PRIMARY_COIN, DEX_SECOND_PRIMARY_COIN
    MainTicker(_),              \* retrieve_main_ticker: without the chain
    Answers,                    \* what the statistics say, one after another
    Rates,                      \* the rates in dollars, one after another
    Prices,                     \* what is typed
    StatSlots,                      \* bound: questions at a time
    MaxStatEvents                   \* bound: changes of the world, failures

ASSUME PairStatsAssumption ==
    /\ {Primary, SecondPrimary} \subseteq TradedCoins /\ Primary # SecondPrimary
    /\ Prices \subseteq Nat \ {0}
    /\ Len(Answers) \in Nat \ {0}
    /\ \A n \in 1..Len(Answers) : \A key \in DOMAIN Answers[n] :
           Answers[n][key] \in [volume : Nat, trades : Nat]
    /\ Rates \in Seq([TradedCoins -> Nat]) /\ Rates # <<>>
    /\ MaxStatEvents \in Nat

VARIABLES
    stats,      \* m_defi_stats_volumes: the place of the answer, 0 for none
    statCalls,  \* requests, and the threads that repeat them
    world,      \* external: the places reached
    pair,       \* market_selector: left and right
    sheet,       \* trading_page: market_mode, trading_mode, price and numbers
    reading,    \* determine_pair_volume_24hr between its two reads
    label,      \* what the views show
    known,       \* history: the answers and rates since the pair was chosen
    pairChosen,     \* history: a pair has been chosen
    astray      \* history: what has happened to the numbers since then

statVars == <<stats, statCalls, world, pair, sheet, reading, label, known, pairChosen, astray>>

Idle == [stage |-> "idle", at |-> 0]
Asked == [stage |-> "asked", at |-> 0]
NotReading == [on |-> FALSE, trades |-> 0]
Cleared == -1           \* "0", which no reading gives: "0.00" or a number
None == [volume |-> 0, trades |-> 0]

(* get_volume_24h_usd and get_trades_24h *)
MutReading(n, p) ==
    LET key == <<MainTicker(p[1]), MainTicker(p[2])>>
    IN IF n # 0 /\ key[1] # key[2] /\ key \in DOMAIN Answers[n] THEN Answers[n][key] ELSE None
Reading(n, p) ==
    LET key == <<MainTicker(p[1]), MainTicker(p[2])>>
        reversed == <<key[2], key[1]>>
    IN IF n = 0 \/ key[1] = key[2] THEN None
       ELSE IF key \in DOMAIN Answers[n] THEN Answers[n][key]
       ELSE IF reversed \in DOMAIN Answers[n] THEN Answers[n][reversed]
       ELSE None

(* get_cex_rates *)
CexRate(p, rates) ==
    IF rates[p[1]] = 0 \/ rates[p[2]] = 0 THEN 0 ELSE (2 * rates[p[1]]) \div rates[p[2]]

(* get_cex_price_diff, as a quotient *)
CexPriceDiff(f) ==
    IF f.cex = 0 \/ f.price = 0 THEN <<0, 1>>
    ELSE IF f.mode = "Sell" THEN <<f.cex - f.price, f.cex>> ELSE <<f.price - f.cex, f.cex>>

StatsInit ==
    /\ stats = 0
    /\ statCalls = [q \in StatSlots |-> IF q = CHOOSE s \in StatSlots : TRUE THEN Asked ELSE Idle]
    /\ world = [answer |-> 1, rates |-> 1, events |-> 0]
    /\ pair = <<Primary, SecondPrimary>>
    /\ sheet = [mode |-> "Sell", view |-> "Pro", price |-> 0, cex |-> 0, trades |-> Cleared, volume |-> Cleared]
    /\ reading = NotReading
    /\ label = [cex |-> 0, diff |-> <<0, 1>>, trades |-> Cleared, volume |-> Cleared]
    /\ known = [answers |-> {}, rates |-> {}]
    /\ pairChosen = FALSE
    /\ astray = {}

-----------------------------------------------------------------------------
(* The form: each operator makes what a method of trading_page makes of     *)
(* the form and the labels, taken together.                                 *)

St == [f |-> sheet, l |-> label]
Show(st) == sheet' = st.f /\ label' = st.l

MutDetermineCexRates(st, p) ==
    LET cex == CexRate(p, Rates[world.rates]) f == [st.f EXCEPT !.cex = cex]
    IN IF cex = st.f.cex THEN st ELSE [f |-> f, l |-> [st.l EXCEPT !.cex = cex, !.diff = CexPriceDiff(f)]]
DetermineCexRates(st, p) ==
    LET f == [st.f EXCEPT !.cex = CexRate(p, Rates[world.rates])]
    IN [f |-> f, l |-> [st.l EXCEPT !.cex = f.cex, !.diff = CexPriceDiff(f)]]

SetFormPrice(st, price, p) ==
    IF st.f.price = price THEN st ELSE DetermineCexRates([st EXCEPT !.f.price = price], p)

(* clear_forms: trades and volume are not notified *)
ClearNumbers(st, p) ==
    LET priced == SetFormPrice(st, 0, p)
    IN DetermineCexRates([priced EXCEPT !.f.cex = 0, !.f.trades = Cleared, !.f.volume = Cleared], p)

(* set_current_orderbook *)
MutPairTaken(st, p) ==
    IF p # pair /\ st.f.view = "Pro" THEN ClearNumbers(st, pair) ELSE st
PairTaken(st, p) ==
    IF p # pair /\ st.f.view = "Pro" THEN ClearNumbers(st, p) ELSE st

(* set_market_mode *)
ModeSet(st, mode) ==
    IF st.f.mode = mode THEN st ELSE ClearNumbers([st EXCEPT !.f.mode = mode], pair)

(* set_pair, up to the first reading of determine_pair_volume_24hr *)
PairAsked(is_left, coin) ==
    IF coin = pair[IF is_left THEN 2 ELSE 1] THEN <<pair[2], pair[1]>>
    ELSE IF is_left THEN <<coin, pair[2]>> ELSE <<pair[1], coin>>
MutChoosePair(is_left, coin) ==
    /\ ~reading.on
    /\ coin # pair[IF is_left THEN 1 ELSE 2]
    /\ LET p == PairAsked(is_left, coin)
       IN /\ pair' = p
          /\ Show(PairTaken(DetermineCexRates(St, pair), p))
          /\ reading' = [on |-> TRUE, trades |-> Reading(stats, p).trades]
    /\ known' = [answers |-> {stats}, rates |-> {world.rates}]
    /\ pairChosen' = TRUE /\ astray' = {}
    /\ UNCHANGED <<stats, statCalls, world>>
ChoosePair(is_left, coin) ==
    /\ ~reading.on
    /\ coin # pair[IF is_left THEN 1 ELSE 2]
    /\ LET p == PairAsked(is_left, coin)
       IN /\ pair' = p
          /\ Show(DetermineCexRates(PairTaken(St, p), p))
          /\ reading' = [on |-> TRUE, trades |-> Reading(stats, p).trades]
    /\ known' = [answers |-> {stats}, rates |-> {world.rates}]
    /\ pairChosen' = TRUE /\ astray' = {}
    /\ UNCHANGED <<stats, statCalls, world>>

(* the second reading: the trades are replaced only where the volume differs *)
NumbersRead(st, trades, volume) ==
    IF volume = st.f.volume THEN st
    ELSE [f |-> [st.f EXCEPT !.trades = trades, !.volume = volume],
          l |-> [st.l EXCEPT !.trades = trades, !.volume = volume]]
ReadVolume ==
    /\ reading.on
    /\ LET volume == Reading(stats, pair).volume
       IN /\ Show(NumbersRead(St, reading.trades, volume))
          /\ astray' = IF volume = sheet.volume /\ reading.trades # sheet.trades
                       THEN astray \union {"same_volume"} ELSE astray
    /\ reading' = NotReading
    /\ UNCHANGED <<stats, statCalls, world, pair, known, pairChosen>>

FormChanges(st) ==
    /\ ~reading.on
    /\ Show(st)
    /\ UNCHANGED <<stats, statCalls, world, pair, reading, known, pairChosen, astray>>
TypeFormPrice(price) == sheet.price # price /\ FormChanges(SetFormPrice(St, price, pair))
ClearForm == FormChanges(ClearNumbers(St, pair))
ChooseMode(mode) == sheet.mode # mode /\ FormChanges(ModeSet(St, mode))
ChooseTradingView(view) ==
    /\ sheet.view # view
    /\ FormChanges([ModeSet(ClearNumbers(St, pair), "Sell") EXCEPT !.f.view = view])

(* disable_coins: the pair is set before set_current_orderbook compares it *)
CoinLeaves(coin) ==
    /\ ~reading.on
    /\ coin \in {pair[1], pair[2]} \ {Primary, SecondPrimary}
    /\ pair' = <<SecondPrimary, Primary>>
    /\ astray' = astray \union {"coin_left"}
    /\ UNCHANGED <<stats, statCalls, world, sheet, reading, label, known, pairChosen>>

-----------------------------------------------------------------------------
(* The service *)

ServiceStep == UNCHANGED <<pair, sheet, reading, label, pairChosen, astray>>
Happens == world.events < MaxStatEvents /\ world' = [world EXCEPT !.events = @ + 1]

(* update: five minutes have passed *)
AskStats(q) ==
    /\ statCalls[q] = Idle
    /\ statCalls' = [statCalls EXCEPT ![q] = Asked]
    /\ ServiceStep /\ UNCHANGED <<stats, world, known>>

StatsAnswer(q) ==
    /\ statCalls[q] = Asked
    /\ statCalls' = [statCalls EXCEPT ![q] = [stage |-> "answered", at |-> world.answer]]
    /\ ServiceStep /\ UNCHANGED <<stats, world, known>>
(* a status that is not 200 is taken for an answer without pairs *)
StatsRefused(q) ==
    /\ statCalls[q] = Asked /\ Happens
    /\ statCalls' = [statCalls EXCEPT ![q] = [stage |-> "answered", at |-> 0]]
    /\ ServiceStep /\ UNCHANGED <<stats, known>>
(* no answer, or one that cannot be parsed: the thread sleeps, and asks again *)
StatsLost(q) ==
    /\ statCalls[q] = Asked /\ Happens
    /\ statCalls' = [statCalls EXCEPT ![q] = [stage |-> "sleeping", at |-> 0]]
    /\ ServiceStep /\ UNCHANGED <<stats, known>>
AskStatsAgain(q) ==
    /\ statCalls[q].stage = "sleeping"
    /\ statCalls' = [statCalls EXCEPT ![q] = Asked]
    /\ ServiceStep /\ UNCHANGED <<stats, world, known>>

StatsStored(q) ==
    /\ statCalls[q].stage = "answered"
    /\ stats' = statCalls[q].at
    /\ statCalls' = [statCalls EXCEPT ![q] = Idle]
    /\ known' = [known EXCEPT !.answers = @ \union {stats'}]
    /\ ServiceStep /\ UNCHANGED world

MarketTrades ==
    /\ world.answer < Len(Answers) /\ world.events < MaxStatEvents
    /\ world' = [world EXCEPT !.answer = @ + 1, !.events = @ + 1]
    /\ UNCHANGED <<stats, statCalls, known>> /\ ServiceStep
RatesMove ==
    /\ world.rates < Len(Rates) /\ world.events < MaxStatEvents
    /\ world' = [world EXCEPT !.rates = @ + 1, !.events = @ + 1]
    /\ known' = [known EXCEPT !.rates = @ \union {world'.rates}]
    /\ UNCHANGED <<stats, statCalls>> /\ ServiceStep

StatsNext ==
    \/ \E coin \in TradedCoins, is_left \in BOOLEAN : ChoosePair(is_left, coin)
    \/ ReadVolume
    \/ \E price \in Prices : TypeFormPrice(price)
    \/ ClearForm
    \/ \E mode \in {"Sell", "Buy"} : ChooseMode(mode)
    \/ \E view \in {"Pro", "Simple"} : ChooseTradingView(view)
    \/ \E coin \in TradedCoins : CoinLeaves(coin)
    \/ \E q \in StatSlots : AskStats(q) \/ StatsAnswer(q) \/ StatsRefused(q) \/ StatsLost(q) \/ AskStatsAgain(q) \/ StatsStored(q)
    \/ MarketTrades \/ RatesMove

StatsSpec == StatsInit /\ [][StatsNext]_statVars

-----------------------------------------------------------------------------
(* The volume that is shown is that of the two coins shown, in an answer    *)
(* that was kept since the pair was chosen, whichever of the two is named   *)
(* first in it, and so are the trades beside a volume (they may be those of *)
(* another such answer: an answer may come between the two readings). It    *)
(* fails where a coin of the pair is disabled: the page takes another pair  *)
(* and keeps the numbers. Two pairs of exactly one volume share the trades. *)
OfTheTwo(n) ==
    LET a == MainTicker(pair[1]) b == MainTicker(pair[2])
        keys == IF n = 0 \/ a = b THEN {} ELSE {<<a, b>>, <<b, a>>} \intersect DOMAIN Answers[n]
    IN IF keys = {} THEN {None} ELSE {Answers[n][key] : key \in keys}
NumbersAreOfThePair ==
    pairChosen /\ ~reading.on /\ "coin_left" \notin astray =>
        /\ \E n \in known.answers : \E entry \in OfTheTwo(n) : label.volume = entry.volume
        /\ label.volume > 0 /\ "same_volume" \notin astray =>
            \E n \in known.answers : \E entry \in OfTheTwo(n) : label.trades = entry.trades

(* The rate that is shown, and that the form compares a price with, is one  *)
(* that the two coins had since the pair was chosen, whatever was typed,    *)
(* cleared or switched since. (But for a coin that was disabled, as above.) *)
RateIsOfThePair ==
    pairChosen /\ "coin_left" \notin astray =>
        label.cex = sheet.cex /\ label.cex \in {CexRate(pair, Rates[r]) : r \in known.rates}

(* How far the price is from the market is shown for the price, the rate    *)
(* and the side of the form as they are: the warning of ConfirmTradeModal   *)
(* (50 % and more) is about the order that would be sent.                   *)
DifferenceIsOfTheForm == label.diff = CexPriceDiff(sheet)

\* The volume, the trades, the rate and the difference the trading page shows are
\* those of its pair and of what is in its form.
FormShowsThePair == NumbersAreOfThePair /\ RateIsOfThePair /\ DifferenceIsOfTheForm
=============================================================================
