---------------------------- MODULE HistoryFilter ---------------------------
(***************************************************************************)
(* Which orders and swaps the two tabs of the trading view show.  Both are *)
(* the one orders_proxy_model over the one orders_model.  The orders tab   *)
(* filters the rows the model has; the history asks the daemon for swaps   *)
(* that pass the filter.  Entering a tab puts the proxy for a moment into  *)
(* the other mode, sets the tab's filter and applies it there; a timer     *)
(* does so again 200 ms later if a coin is chosen.  The exporter asks for  *)
(* the history with the snapshot's filter and its count of finished swaps. *)
(*                                                                         *)
(* Abstracted: pages, the busy flag and losses, which OrdersModel has: the *)
(* model is on page 1, which holds all; the sort, dates within a day, all  *)
(* other columns.                                                          *)
(***************************************************************************)
EXTENDS Integers, FiniteSets

CONSTANTS Items,      \* uuids, 1..n by the time they began
          DayOf(_),   \* the day of an item
          CoinsOf(_), \* base and rel of an item
          IsMaker(_),
          Dates,      \* pairs of first and last day that the pickers can give
          Patterns,   \* pairs of tickers, "All" for any
          FirstChoice,\* dates and pattern of a tab before one is chosen
          MaxBatches, \* bound: batches on their way
          MaxActs     \* bound: what the user and the world do

ASSUME HistoryFilterAssumption ==
  /\ IsFiniteSet(Items) /\ Items = 1..Cardinality(Items) /\ Dates \subseteq Nat \X Nat
  /\ FirstChoice \in [dates : Dates, pattern : Patterns]
  /\ MaxBatches \in Nat \ {0} /\ MaxActs \in Nat

VARIABLES
  stage,      \* external: nothing yet, an open order, an active swap, a finished one
  tab,        \* the tab in front
  tabChoice,  \* what each tab's boxes show
  timers,     \* tabs whose buttonDelay runs
  proxy,      \* orders_proxy_model: dates and pattern
  applicable, \* m_is_filtering_applicable
  simple,     \* the trading mode is Simple
  mdl,        \* orders_model: rows and filtering_infos
  snap,       \* m_orders_and_swaps
  batches,    \* batches on their way, with their filter
  follows,    \* an event for the model waits for the tick
  exporting,  \* the question of the exporter
  csv,        \* the last file written, and why it may lack swaps
  oldReply,   \* history: a reply to an older filter was stored last
  onlyStored, \* history: a filter was stored that nothing asked the daemon for
  lateTimer,  \* history: a timer set its tab's filter while the other is in front
  acts        \* bound

hfVars == <<stage, tab, tabChoice, timers, proxy, applicable, simple, mdl, snap, batches,
            follows, exporting, csv, oldReply, onlyStored, lateTimer, acts>>

Tabs == {"orders", "history"}
TabChoices == [dates : Dates, pattern : Patterns]
NoInfos == [from |-> 0, to |-> 0, pattern |-> <<"All", "All">>]
NoRows == [i \in {} |-> "none"]
NoCsv == [ids |-> {}, due |-> {}, excused |-> TRUE]
NotExporting == [limit |-> 0, infos |-> NoInfos, due |-> {}, seen |-> {}, excused |-> TRUE, on |-> FALSE]
Emptied(infos) == [rows |-> NoRows, infos |-> infos, finished |-> 0, active |-> 0, total |-> 0]

\* apply_all_filtering, the part that fills the infos.
MutInfosOf(choice) == [from |-> choice.dates[1], to |-> 0, pattern |-> choice.pattern]
InfosOf(choice) ==
  [from |-> choice.dates[1], to |-> choice.dates[2], pattern |-> choice.pattern]

\* Both pages are made, the history has applied its filter, and the orders tab was entered.
HfInit ==
  /\ stage = [i \in Items |-> "none"]
  /\ tab = "orders" /\ tabChoice = [t \in Tabs |-> FirstChoice] /\ timers = {}
  /\ proxy = FirstChoice /\ applicable = FALSE /\ simple \in BOOLEAN
  /\ mdl = [rows |-> NoRows, infos |-> InfosOf(FirstChoice)]
  /\ snap = Emptied(InfosOf(FirstChoice)) /\ batches = {InfosOf(FirstChoice)} /\ follows = FALSE
  /\ exporting = NotExporting /\ csv = NoCsv
  /\ oldReply = FALSE /\ onlyStored = FALSE /\ lateTimer = FALSE /\ acts = 0

HfAct == acts < MaxActs /\ acts' = acts + 1
hfHistory == <<oldReply, onlyStored, lateTimer>>

-----------------------------------------------------------------------------
(* Filters.                                                                *)

CoinMatches(pattern, i) == \A k \in 1..2 : pattern[k] \in {"All", CoinsOf(i)[k]}

\* filterAcceptsRow outside history: whole days, the last included.
date_in_range(dates, day) == dates[1] <= day /\ day <= dates[2]

\* my_recent_swaps: the last day counts up to its start.
DaemonPasses(infos, i) ==
  /\ infos.from <= DayOf(i) /\ (infos.to = 0 \/ DayOf(i) < infos.to)
  /\ CoinMatches(infos.pattern, i)

Accepts(history, choice, i, status) ==
  IF history THEN status = "done"
  ELSE /\ status \in {"open", "active"}
       /\ date_in_range(choice.dates, DayOf(i)) /\ CoinMatches(choice.pattern, i)
       /\ ~(simple /\ status = "open" /\ IsMaker(i))

Visible == {i \in DOMAIN mdl.rows : Accepts(tab = "history", proxy, i, mdl.rows[i])}

-----------------------------------------------------------------------------
(* Applying.                                                               *)

\* set_filtering_infos on page 1: in history the model is emptied and the daemon
\* asked; outside, the infos are kept and set_current_page(1) does nothing.
set_filtering_infos(history, infos) ==
  IF history
  THEN /\ Cardinality(batches) < MaxBatches
       /\ mdl' = [rows |-> NoRows, infos |-> infos] /\ snap' = Emptied(infos)
       /\ batches' = batches \cup {infos}
       /\ oldReply' = FALSE /\ onlyStored' = FALSE
  ELSE /\ mdl' = [mdl EXCEPT !.infos = infos]
       /\ onlyStored' = (infos # snap.infos)
       /\ UNCHANGED <<snap, batches, oldReply>>

apply_all_filtering(history, choice) ==
  set_filtering_infos(history, InfosOf(choice)) /\ applicable' = FALSE

\* reset: the proxy is in the other tab's mode while it sets the filter.
MutEnteredProxy(t) == IF tabChoice[t].pattern = <<"All", "All">> THEN proxy ELSE tabChoice[t]
EnteredProxy(t) == tabChoice[t]
EnterTab(t) ==
  /\ HfAct /\ t # tab
  /\ tab' = t /\ proxy' = EnteredProxy(t)
  /\ apply_all_filtering(t # "history", EnteredProxy(t))
  /\ timers' = IF tabChoice[t].pattern # <<"All", "All">> THEN timers \cup {t} ELSE timers
  /\ lateTimer' = FALSE
  /\ UNCHANGED <<stage, tabChoice, simple, follows, exporting, csv>>

buttonDelay(t) ==
  /\ t \in timers /\ timers' = timers \ {t}
  /\ proxy' = tabChoice[t] /\ apply_all_filtering(tab = "history", tabChoice[t])
  /\ lateTimer' = (t # tab)
  /\ UNCHANGED <<stage, tab, tabChoice, simple, follows, exporting, csv, acts>>

\* The boxes of the tab: applyFilter.
ChooseTabFilter(choice) ==
  /\ HfAct /\ choice # tabChoice[tab]
  /\ tabChoice' = [tabChoice EXCEPT ![tab] = choice] /\ proxy' = choice
  /\ applicable' = (applicable \/ tab = "history")
  /\ lateTimer' = FALSE
  /\ UNCHANGED <<stage, tab, timers, simple, mdl, snap, batches, follows, exporting, csv,
                 oldReply, onlyStored>>

\* The Apply button, which the history alone has.
ApplyFilter ==
  /\ HfAct /\ tab = "history" /\ applicable
  /\ apply_all_filtering(TRUE, proxy)
  /\ UNCHANGED <<stage, tab, tabChoice, timers, proxy, simple, follows, exporting, csv, lateTimer>>

SetMode ==
  /\ HfAct /\ simple' = ~simple
  /\ UNCHANGED <<stage, tab, tabChoice, timers, proxy, applicable, mdl, snap, batches, follows,
                 exporting, csv, hfHistory>>

-----------------------------------------------------------------------------
(* The daemon and the snapshot.                                            *)

Moves == {<<"none", "open">>, <<"open", "active">>, <<"active", "done">>, <<"open", "none">>}
WorldMoves(i, s) ==
  /\ HfAct /\ <<stage[i], s>> \in Moves
  /\ (s = "open") => \A j \in Items : j < i => stage[j] # "none"
  /\ stage' = [stage EXCEPT ![i] = s]
  /\ UNCHANGED <<tab, tabChoice, timers, proxy, applicable, simple, mdl, snap, batches, follows,
                 exporting, csv, hfHistory>>

Swaps == {i \in Items : stage[i] \in {"active", "done"}}
ActiveSwaps == {i \in Items : stage[i] = "active"}

\* batch_fetch_orders_and_swap of the tick: the filter is the snapshot's.
TickFetches ==
  /\ Cardinality(batches) < MaxBatches /\ snap.infos \notin batches
  /\ batches' = batches \cup {snap.infos}
  /\ UNCHANGED <<stage, tab, tabChoice, timers, proxy, applicable, simple, mdl, snap, follows,
                 exporting, csv, hfHistory, acts>>

\* total_finished_swaps is a difference of two std::size_t, and the total is of the
\* filter while the active ones are all: it may wrap around to a huge number.
Huge == Cardinality(Items) + 1
MutFinished(total, active) == total - active
Finished(total, active) == IF active <= total THEN total - active ELSE Huge

\* All orders, all active swaps, and the swaps that pass.
BatchAnswered(infos) ==
  LET passing == {i \in Swaps : DaemonPasses(infos, i)}
      there == {i \in Items : stage[i] = "open"} \cup ActiveSwaps \cup passing
      total == Cardinality(passing)
      active == Cardinality(ActiveSwaps)
  IN  /\ infos \in batches /\ batches' = batches \ {infos}
      /\ snap' = [rows |-> [i \in there |-> stage[i]], infos |-> infos,
                  finished |-> Finished(total, active), active |-> active, total |-> total]
      /\ follows' = TRUE
      /\ oldReply' = (oldReply \/ infos # snap.infos)
      /\ UNCHANGED <<stage, tab, tabChoice, timers, proxy, applicable, simple, mdl, exporting,
                     csv, onlyStored, lateTimer, acts>>

\* refresh_or_insert: an empty model takes all, its infos too; another updates,
\* inserts, and removes orders that are gone; swaps stay.
refresh_or_insert ==
  /\ follows /\ follows' = FALSE
  /\ mdl' = IF mdl.rows = NoRows
            THEN IF snap.rows = NoRows THEN mdl ELSE [rows |-> snap.rows, infos |-> snap.infos]
            ELSE LET kept == {i \in DOMAIN mdl.rows : mdl.rows[i] # "open"} IN
                 [mdl EXCEPT !.rows = [i \in kept \cup DOMAIN snap.rows |->
                    IF i \in DOMAIN snap.rows THEN snap.rows[i] ELSE mdl.rows[i]]]
  /\ UNCHANGED <<stage, tab, tabChoice, timers, proxy, applicable, simple, snap, batches,
                 exporting, csv, hfHistory, acts>>

\* "Cancel All" of the orders tab: the ids the proxy shows.
CancelAll ==
  /\ HfAct /\ tab = "orders" /\ ~simple /\ Visible # {}
  /\ stage' = [i \in Items |-> IF i \in Visible /\ stage[i] = "open" THEN "none" ELSE stage[i]]
  /\ UNCHANGED <<tab, tabChoice, timers, proxy, applicable, simple, mdl, snap, batches, follows,
                 exporting, csv, hfHistory>>

-----------------------------------------------------------------------------
(* The exporter.                                                           *)

DoneNow(infos) == {i \in Items : stage[i] = "done" /\ DaemonPasses(infos, i)}

MutExportLimit == snap.active
ExportLimit == snap.finished

\* What may shorten the file: a snapshot that was emptied, swaps that were active
\* when it was made (they come first and are not counted), swaps begun since.
export_swaps_history_to_csv ==
  /\ HfAct /\ tab = "history" /\ Visible # {} /\ ~exporting.on
  /\ exporting' = [limit |-> ExportLimit, infos |-> snap.infos, due |-> DoneNow(snap.infos),
       seen |-> {i \in Swaps : DaemonPasses(snap.infos, i)}, on |-> TRUE,
       excused |-> \/ snap.rows = NoRows \/ snap.active > 0
                   \/ Cardinality({i \in Swaps : DaemonPasses(snap.infos, i)}) # snap.total]
  /\ UNCHANGED <<stage, tab, tabChoice, timers, proxy, applicable, simple, mdl, snap, batches,
                 follows, csv, hfHistory>>

\* The newest swaps that pass, as many as the limit.
ExportAnswered ==
  LET passing == {i \in Swaps : DaemonPasses(exporting.infos, i)}
  IN  /\ exporting.on /\ exporting' = NotExporting
      /\ csv' = [ids |-> {i \in passing : Cardinality({j \in passing : j > i}) < exporting.limit},
                 due |-> exporting.due, excused |-> exporting.excused \/ passing # exporting.seen]
      /\ UNCHANGED <<stage, tab, tabChoice, timers, proxy, applicable, simple, mdl, snap, batches,
                     follows, hfHistory, acts>>

\* Lost or refused: no file.
ExportLost ==
  /\ HfAct /\ exporting.on /\ exporting' = NotExporting
  /\ UNCHANGED <<stage, tab, tabChoice, timers, proxy, applicable, simple, mdl, snap, batches,
                 follows, csv, hfHistory>>

HfNext ==
  \/ \E t \in Tabs : EnterTab(t) \/ buttonDelay(t)
  \/ \E c \in TabChoices : ChooseTabFilter(c)
  \/ ApplyFilter \/ SetMode
  \/ \E i \in Items, s \in {"none", "open", "active", "done"} : WorldMoves(i, s)
  \/ TickFetches \/ \E infos \in batches : BatchAnswered(infos)
  \/ refresh_or_insert \/ CancelAll
  \/ export_swaps_history_to_csv \/ ExportAnswered \/ ExportLost

HfSpec == HfInit /\ [][HfNext]_hfVars
-----------------------------------------------------------------------------
HfTypeOK ==
  /\ stage \in [Items -> {"none", "open", "active", "done"}] /\ tab \in Tabs
  /\ tabChoice \in [Tabs -> TabChoices] /\ timers \subseteq Tabs /\ proxy \in TabChoices
  /\ {applicable, simple, follows, oldReply, onlyStored, lateTimer} \subseteq BOOLEAN
  /\ DOMAIN mdl.rows \subseteq Items /\ DOMAIN snap.rows \subseteq Items
  /\ \A i \in DOMAIN snap.rows : snap.rows[i] \in {"open", "active", "done"}
  /\ snap.finished \in 0..Huge /\ Cardinality(batches) <= MaxBatches

\* The history shows swaps of the days and the coins its boxes show, the last day
\* not included, unless the Apply button waits, the filter was only stored when the
\* tab was entered, an older batch answered after it, or the timer of the other tab
\* came late.
HistoryIsWhatWasChosen ==
  tab = "history" /\ ~applicable /\ ~onlyStored /\ ~oldReply /\ ~lateTimer =>
    \A i \in Visible : DaemonPasses([from |-> tabChoice[tab].dates[1], to |-> tabChoice[tab].dates[2],
                                      pattern |-> tabChoice[tab].pattern], i)

\* "Cancel All" takes the orders the proxy shows; but for a late timer these are
\* orders the boxes of the orders tab ask for, whatever was filtered in the history.
CancelAllIsOfTheChosen ==
  tab = "orders" /\ ~lateTimer =>
    \A i \in Visible : Accepts(FALSE, tabChoice[tab], i, mdl.rows[i])

\* A file has all finished swaps of its filter, unless the snapshot was empty or
\* outdated, or swaps were under way that its count leaves out.
ExportIsComplete == ~csv.excused => csv.due \subseteq csv.ids

\* What the tabs of the orders page list, what "Cancel All" cancels and what the
\* exporter writes is what the filter boxes say.
ListsAreOfTheChoice == HistoryIsWhatWasChosen /\ CancelAllIsOfTheChosen /\ ExportIsComplete
=============================================================================
