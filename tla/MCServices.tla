------------------------------ MODULE MCServices ----------------------------
(* What asks the world again and again: the prices, the watchers and the    *)
(* downloads.  They share nothing; a behaviour runs the one that "which"    *)
(* names, and the others stay as they began.                                *)
EXTENDS Prices, Watchers, Downloads

MCCoinCurrencies == <<"BTC", "KMD">>

VARIABLE which
MCInit ==
  /\ PricesInit /\ WatchersInit /\ DownloadsInit
  /\ which \in {"prices", "watchers", "downloads"}
  /\ which # "prices" => currency = "USD" /\ fiat = "USD"
  /\ which # "watchers" => clockRight
  /\ which # "downloads" => onDisk = {} /\ otherCoins = 0
MCNext ==
  \/ which = "prices" /\ PricesNext /\ UNCHANGED <<watcherVars, downloadVars, which>>
  \/ which = "watchers" /\ WatchersNext /\ UNCHANGED <<pricesVars, downloadVars, which>>
  \/ which = "downloads" /\ DownloadsNext /\ UNCHANGED <<pricesVars, watcherVars, which>>

\* The fairness of each module, of the one that runs.
MCPricesFairness ==
  LET P == which = "prices" /\ ~overflown
  IN  /\ WF_pricesVars(P /\ PollMarket) /\ WF_pricesVars(P /\ AnswerMarket)
      /\ WF_pricesVars(P /\ ShowValues) /\ WF_pricesVars(P /\ CoinLeft)
      /\ \A t \in Threads : WF_pricesVars(P /\ GoOn(t))
MCWatchersFairness ==
  LET W == which = "watchers"
  IN  /\ SF_watcherVars(W /\ fetch_internet_connection("answer"))
      /\ \A o \in Outcomes : WF_watcherVars(W /\ generic_treat_answer(o))
      /\ WF_watcherVars(W /\ AnswerUpdate)
      /\ WF_watcherVars(W /\ fetch_timesync_status) /\ SF_watcherVars(W /\ TimeAnswered("answer"))
MCDownloadsFairness ==
  LET D == which = "downloads"
  IN  /\ WF_downloadVars(D /\ Verdicts) /\ WF_downloadVars(D /\ Download)
      /\ WF_downloadVars(D /\ Completes) /\ WF_downloadVars(D /\ Finishes)

MCSpec ==
  /\ MCInit /\ [][MCNext]_<<pricesVars, watcherVars, downloadVars, which>>
  /\ MCPricesFairness /\ MCWatchersFairness /\ MCDownloadsFairness

\* UpdateCheckEnds of Watchers, in the behaviours where the watchers run: the check
\* that update_checker_service::update sends is answered or threw.  The other warnings
\* go away with their cause, and at every step the watchers' state is well-formed.
WatchersRecover ==
  /\ []WatchersTypeOK
  /\ InternetComesBack /\ ClockWarningEnds
  /\ which = "watchers" => UpdateCheckEnds
\* CoinsComeUp of Downloads, in the behaviours where the downloads run: what waits
\* in zcash_params_service for its files is enabled in the end, and is never forgotten
\* on the way.
WaitingCoinsComeUp ==
  /\ []DownloadsTypeOK /\ []NoCoinIsForgotten
  /\ which = "downloads" => CoinsComeUp
=============================================================================
