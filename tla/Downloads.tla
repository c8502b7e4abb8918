------------------------------ MODULE Downloads -----------------------------
(***************************************************************************)
(* The Zcash parameters: a shielded coin whose activation failed for want  *)
(* of the two files waits in zcash_params_service until qt_downloader has  *)
(* fetched them; Dashboard.qml then enables the coins that wait, and clears *)
(* the list, also when application::enable_coins refuses it at the limit.  *)
(***************************************************************************)
EXTENDS Integers, FiniteSets, Sequences, SequencesExt

CONSTANTS
  WaitingCoins, \* the shielded coins
  CoinLimit,    \* the setting MaximumNbCoinsEnabled
  OtherCounts,  \* bound: how many other coins may be enabled
  MaxFails,     \* bound: downloads that fail
  MaxAgain,     \* bound: presses of the button while a download is on its way
  MaxByHand     \* bound: shielded coins enabled by hand again

ASSUME DownloadsAssumption ==
  /\ IsFiniteSet(WaitingCoins) /\ CoinLimit \in Nat /\ OtherCounts \subseteq 0..CoinLimit
  /\ MaxFails \in Nat /\ MaxAgain \in Nat /\ MaxByHand \in Nat

ParamFiles == {"output", "spend"}

VARIABLES
  wait,       \* m_enable_after_download, a list: a coin may stand in it twice
  tried,      \* the activations the daemon works on
  up,         \* the shielded coins that came up
  otherCoins, \* how many other coins are enabled
  mostOthers, \* history: the most there were
  forgotten,  \* history: the coins of a list that was refused, not enabled since
  onDisk,     \* the files that are on the disk
  progress,   \* m_combined_download_status: absent, begun or 100 %
  loads,      \* the downloads on their way: the press, the file, and how far
  isDownloading, \* m_is_downloading
  fails,      \* bound
  again,      \* bound
  byHand      \* bound

places       == <<wait, tried, up, forgotten, byHand>>
crowd        == <<otherCoins, mostOthers>>
downloadVars == <<places, crowd, onDisk, progress, loads, isDownloading, fails, again>>

DownloadsInit ==
  /\ wait = <<>> /\ tried = WaitingCoins /\ up = {} /\ forgotten = {} /\ byHand = 0
  /\ otherCoins \in OtherCounts /\ mostOthers = otherCoins
  /\ onDisk \in SUBSET ParamFiles
  /\ progress = [f \in ParamFiles |-> "absent"] /\ loads = {}
  /\ isDownloading = FALSE /\ fails = 0 /\ again = 0

\* The daemon's verdict on an activation: it needs both files.  The failure comes as
\* enabling_z_coin_status "ZCashParamsNotFound", and onEnablingZCoinStatus has the
\* coin wait.
Activated(c) ==
  /\ c \in tried /\ tried' = tried \ {c}
  /\ IF onDisk = ParamFiles THEN up' = up \cup {c} /\ UNCHANGED wait
     ELSE wait' = Append(wait, c) /\ UNCHANGED up
  /\ UNCHANGED <<forgotten, byHand, crowd, onDisk, progress, loads, isDownloading, fails, again>>

\* application::enable_coins passes a list only while it and the enabled coins are
\* within the limit; of the coins, the enabled ones are passed over.
Passes(n) == n + otherCoins + Cardinality(up) <= CoinLimit

\* The user enables a shielded coin by hand, one that waits as well.
EnableByHand(c) ==
  /\ byHand < MaxByHand /\ byHand' = byHand + 1
  /\ c \notin tried \cup up /\ Passes(1)
  /\ tried' = tried \cup {c} /\ forgotten' = forgotten \ {c}
  /\ UNCHANGED <<wait, up, crowd, onDisk, progress, loads, isDownloading, fails, again>>

\* Other coins are enabled and disabled; requests under way are not in the count of
\* the limit, so they come up whatever came up since.
OthersChange ==
  /\ otherCoins' \in OtherCounts \ {otherCoins}
  /\ mostOthers' = IF otherCoins' > mostOthers THEN otherCoins' ELSE mostOthers
  /\ UNCHANGED <<places, onDisk, progress, loads, isDownloading, fails, again>>

\* "Download params & enable coins": both files are fetched, whatever there is.  A
\* dialog opened anew lets it be pressed while downloads are on their way.
download_zcash_params(press) ==
  /\ wait # <<>>
  /\ loads' = loads \cup {[press |-> press, file |-> f, at |-> "begun"] : f \in ParamFiles}
  /\ isDownloading' = TRUE
  /\ UNCHANGED <<places, crowd, onDisk, progress, fails>>
Download      == loads = {} /\ download_zcash_params(0) /\ UNCHANGED again
DownloadAgain == /\ again < MaxAgain /\ again' = again + 1
                 /\ loads # {} /\ download_zcash_params(again')

\* The status bar at 100 %: enable_coins tries the coins that wait, or refuses them
\* all and says so to nobody; the list is cleared either way.
EnableWaiting ==
  /\ IF Passes(Len(wait))
     THEN tried' = tried \cup (ToSet(wait) \ up) /\ UNCHANGED forgotten
     ELSE forgotten' = forgotten \cup (ToSet(wait) \ (tried \cup up)) /\ UNCHANGED tried
  /\ wait' = <<>>
  /\ UNCHANGED <<up, byHand>>

\* download_progress of one download, and what it leads to: the combined status, and
\* get_combined_download_progress, which takes the files in the order of their names
\* and calls the download over at the first that is complete.
download_progress(d, p) ==
  /\ d.at = "done" => p = "done"
  /\ loads' = (loads \ {d}) \cup {[d EXCEPT !.at = p]}
  /\ progress' = [progress EXCEPT ![d.file] = p]
  /\ LET first == IF progress'["output"] # "absent" THEN "output" ELSE "spend"
     IN  isDownloading' = (isDownloading /\ progress'[first] # "done")
  /\ IF \A g \in ParamFiles : progress'[g] = "done" THEN EnableWaiting ELSE UNCHANGED places
  /\ UNCHANGED <<crowd, onDisk, fails, again>>

\* Seeded fault: a file that came is not written.
Mut_download_finished(d) ==
  /\ d.at = "done" /\ loads' = loads \ {d}
  /\ UNCHANGED <<places, crowd, onDisk, progress, isDownloading, fails, again>>

\* download_finished: only now the file is written.
download_finished(d) ==
  /\ d.at = "done" /\ loads' = loads \ {d}
  /\ onDisk' = onDisk \cup {d.file}
  /\ UNCHANGED <<places, crowd, progress, isDownloading, fails, again>>

\* It fails: the reply is dropped, the status keeps what it said; so it is when the
\* file cannot be written.
DownloadFails(d) ==
  /\ fails < MaxFails /\ fails' = fails + 1
  /\ loads' = loads \ {d}
  /\ UNCHANGED <<places, crowd, onDisk, progress, isDownloading, again>>

DownloadsNext ==
  \/ \E c \in WaitingCoins : Activated(c) \/ EnableByHand(c)
  \/ OthersChange
  \/ Download \/ DownloadAgain
  \/ \E d \in loads : \/ download_finished(d) \/ DownloadFails(d)
                      \/ \E p \in {"begun", "done"} : download_progress(d, p)

\* The daemon answers, the network moves on, and the user presses the button again.
Verdicts  == \E c \in WaitingCoins : Activated(c)
Completes == \E d \in loads : d.at = "begun" /\ download_progress(d, "done")
Finishes  == \E d \in loads : download_finished(d)
DownloadsFairness ==
  /\ WF_downloadVars(Verdicts) /\ WF_downloadVars(Download)
  /\ WF_downloadVars(Completes) /\ WF_downloadVars(Finishes)
DownloadsSpec == DownloadsInit /\ [][DownloadsNext]_downloadVars /\ DownloadsFairness

-----------------------------------------------------------------------------
\* Type invariant of the downloads.
DownloadsTypeOK ==
  /\ wait \in Seq(WaitingCoins) /\ tried \subseteq WaitingCoins /\ up \subseteq WaitingCoins
  /\ forgotten \subseteq WaitingCoins /\ byHand \in 0..MaxByHand
  /\ otherCoins \in OtherCounts /\ mostOthers \in OtherCounts /\ otherCoins <= mostOthers
  /\ onDisk \subseteq ParamFiles /\ isDownloading \in BOOLEAN
  /\ fails \in 0..MaxFails /\ again \in 0..MaxAgain
  /\ progress \in [ParamFiles -> {"absent", "begun", "done"}]
  /\ loads \subseteq [press : 0..MaxAgain, file : ParamFiles, at : {"begun", "done"}]

\* A coin is being tried, it waits for the files, or it is up, also when the status bar
\* enables what waits before the files are written, but for the coins of a list that was
\* refused at the limit: Dashboard.qml forgets them.  And the limit is not passed unless
\* the other coins, every shielded coin once and those enabled by hand again passed it.
NoCoinIsForgotten ==
  /\ WaitingCoins \subseteq ToSet(wait) \cup tried \cup up \cup forgotten
  /\ forgotten # {} => mostOthers + Cardinality(WaitingCoins) + byHand > CoinLimit

\* With the button pressed and downloads that fail finitely often, every coin that
\* failed for want of the files comes up in the end, or was forgotten at the limit.
CoinsComeUp == <>[](up \cup forgotten = WaitingCoins)
=============================================================================
