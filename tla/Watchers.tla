------------------------------- MODULE Watchers -----------------------------
(***************************************************************************)
(* The services that watch the world on the tick: whether the daemon       *)
(* answers (internet_service_checker), whether there is a new version      *)
(* (update_checker_service), whether the clock is right                    *)
(* (timesync_checker_service).  Each asks, and treats the answer on        *)
(* another thread: a later question may be answered first.                 *)
(***************************************************************************)
EXTENDS Naturals, FiniteSets

CONSTANTS MaxPings,  \* bound: questions of one service on their way
          MaxTurns   \* bound: how often the world outside changes

ASSUME WatchersAssumption == MaxPings \in Nat \ {0} /\ MaxTurns \in Nat

VARIABLES
  alive,         \* is_internet_reacheable
  coinsReady,    \* g_kdf_default_coins_ready, static: it outlives the session
  kdfRunning,    \* is_kdf_running
  daemonAnswers, \* outside: the daemon answers on its port
  pings,         \* the questions to the daemon on their way, by what they will meet
  fetching,      \* is_fetching of the update checker
  updateInfo,    \* m_update_info: empty, an error to show, or a version
  updateLost,    \* history: a check of the update threw
  clockRight,    \* outside: the system's clock
  inSync,        \* m_timesync_status
  timeAsked,     \* the questions to the time server on their way
  turns          \* bound

internetVars == <<alive, coinsReady, kdfRunning, daemonAnswers, pings>>
updateVars   == <<fetching, updateInfo, updateLost>>
timeVars     == <<clockRight, inSync, timeAsked>>
watcherVars  == <<internetVars, updateVars, timeVars, turns>>

Outcomes == {"answer", "error", "lost"}

WatchersInit ==
  /\ alive = TRUE /\ coinsReady = FALSE /\ kdfRunning = FALSE
  /\ daemonAnswers = TRUE /\ pings = [o \in Outcomes |-> 0]
  /\ fetching = TRUE /\ updateInfo = "empty" /\ updateLost = FALSE  \* the constructor asks
  /\ clockRight \in BOOLEAN /\ inSync = TRUE /\ timeAsked = 1       \* and so does this one
  /\ turns = 0

Turn == turns < MaxTurns /\ turns' = turns + 1

-----------------------------------------------------------------------------
\* A session begins and ends; its default coins get enabled.
SessionChanges ==
  /\ Turn /\ kdfRunning' = ~kdfRunning
  /\ daemonAnswers' = TRUE
  /\ UNCHANGED <<alive, coinsReady, pings, updateVars, timeVars>>
on_default_coins_enabled ==
  /\ kdfRunning /\ ~coinsReady /\ coinsReady' = TRUE
  /\ UNCHANGED <<alive, kdfRunning, daemonAnswers, pings, updateVars, timeVars, turns>>
DaemonChanges ==
  /\ Turn /\ kdfRunning /\ daemonAnswers' = ~daemonAnswers
  /\ UNCHANGED <<alive, coinsReady, kdfRunning, pings, updateVars, timeVars>>

\* fetch_internet_connection, every minute and by the button of NoConnection: only
\* a running daemon whose default coins came up, in this session or an earlier
\* one, is asked for its version.  What the question will meet is settled now.
fetch_internet_connection(o) ==
  /\ coinsReady /\ kdfRunning /\ pings[o] < MaxPings
  /\ daemonAnswers <=> o # "lost"
  /\ pings' = [pings EXCEPT ![o] = @ + 1]
  /\ UNCHANGED <<alive, coinsReady, kdfRunning, daemonAnswers, updateVars, timeVars, turns>>

\* Seeded fault: an answer does not raise the flag again.
Mut_generic_treat_answer(o) ==
  /\ pings[o] > 0 /\ pings' = [pings EXCEPT ![o] = @ - 1]
  /\ alive' = (alive /\ o # "lost")
  /\ UNCHANGED <<coinsReady, kdfRunning, daemonAnswers, updateVars, timeVars, turns>>

\* generic_treat_answer: only a success raises the flag, only an exception lowers
\* it and is announced; an error of the daemon changes nothing.
generic_treat_answer(o) ==
  /\ pings[o] > 0 /\ pings' = [pings EXCEPT ![o] = @ - 1]
  /\ alive' = CASE o = "answer" -> TRUE [] o = "lost" -> FALSE [] OTHER -> alive
  /\ UNCHANGED <<coinsReady, kdfRunning, daemonAnswers, updateVars, timeVars, turns>>

-----------------------------------------------------------------------------
\* fetch_update_info, every hour and by the update dialog.
fetch_update_info ==
  /\ ~fetching /\ fetching' = TRUE
  /\ UNCHANGED <<updateInfo, updateLost, internetVars, timeVars, turns>>
\* Seeded fault: an answer that is an error leaves the flag as well, for ever.
MutUpdateAnswered(o) ==
  /\ fetching /\ ~updateLost /\ updateInfo # "unreachable"
  /\ IF o = "lost" THEN updateLost' = TRUE /\ UNCHANGED <<fetching, updateInfo>>
     ELSE /\ fetching' = (o = "error") /\ UNCHANGED updateLost
          /\ updateInfo' = IF o = "answer" THEN "version" ELSE "unreachable"
  /\ UNCHANGED <<internetVars, timeVars, turns>>

\* Seeded fault: a check that threw leaves a text the page does not know.
MutUpdateLost(o) ==
  /\ fetching /\ ~updateLost
  /\ updateInfo' = o
  /\ IF o = "lost" THEN updateLost' = TRUE /\ UNCHANGED fetching
     ELSE fetching' = FALSE /\ UNCHANGED updateLost
  /\ UNCHANGED <<internetVars, timeVars, turns>>

\* The answer; one that cannot be had or read throws, and nothing lowers is_fetching.
UpdateAnswered(o) ==
  /\ fetching /\ ~updateLost
  /\ IF o = "lost" THEN updateLost' = TRUE /\ UNCHANGED <<fetching, updateInfo>>
     ELSE /\ fetching' = FALSE /\ UNCHANGED updateLost
          /\ updateInfo' = IF o = "answer" THEN "version" ELSE "unreachable"
  /\ UNCHANGED <<internetVars, timeVars, turns>>

-----------------------------------------------------------------------------
ClockChanges ==
  /\ Turn /\ clockRight' = ~clockRight
  /\ UNCHANGED <<inSync, timeAsked, internetVars, updateVars>>

\* timesync update: every five minutes, only while the clock is known to be wrong.
\* is_timesync_fetching is lowered as soon as the question is sent, so it holds
\* back no later question.
fetch_timesync_status ==
  /\ ~inSync /\ timeAsked < MaxPings /\ timeAsked' = timeAsked + 1
  /\ UNCHANGED <<clockRight, inSync, internetVars, updateVars, turns>>
\* Seeded fault: an answer can only tell of a wrong clock.
MutTimeAnswered(o) ==
  /\ timeAsked > 0 /\ timeAsked' = timeAsked - 1
  /\ inSync' = CASE o = "answer" -> inSync /\ clockRight [] OTHER -> inSync
  /\ UNCHANGED <<clockRight, internetVars, updateVars, turns>>

\* An answer is compared with the clock when it comes; a server that refuses counts
\* as a right clock, a lost answer as none.
TimeAnswered(o) ==
  /\ timeAsked > 0 /\ timeAsked' = timeAsked - 1
  /\ inSync' = CASE o = "answer" -> clockRight [] o = "error" -> TRUE [] OTHER -> inSync
  /\ UNCHANGED <<clockRight, internetVars, updateVars, turns>>

WatchersNext ==
  \/ SessionChanges \/ on_default_coins_enabled \/ DaemonChanges
  \/ \E o \in Outcomes : \/ fetch_internet_connection(o) \/ generic_treat_answer(o)
                         \/ UpdateAnswered(o) \/ TimeAnswered(o)
  \/ fetch_update_info \/ ClockChanges \/ fetch_timesync_status

\* Every HTTP request ends.  (That the tick asks for ever, and that a server which
\* is there gives an answer now and then, is in the fairness of the specification.)
AnswerUpdate == \E o \in Outcomes : UpdateAnswered(o)
WatchersFairness ==
  /\ SF_watcherVars(fetch_internet_connection("answer"))
  /\ \A o \in Outcomes : WF_watcherVars(generic_treat_answer(o))
  /\ WF_watcherVars(AnswerUpdate)
  /\ WF_watcherVars(fetch_timesync_status) /\ SF_watcherVars(TimeAnswered("answer"))
WatchersSpec == WatchersInit /\ [][WatchersNext]_watcherVars /\ WatchersFairness

-----------------------------------------------------------------------------
\* Type invariant of the watchers.
WatchersTypeOK ==
  /\ {alive, coinsReady, kdfRunning, daemonAnswers, fetching, updateLost,
      clockRight, inSync} \subseteq BOOLEAN
  /\ pings \in [Outcomes -> 0..MaxPings] /\ timeAsked \in 0..MaxPings
  /\ updateInfo \in {"empty", "unreachable", "version"}
  /\ turns \in 0..MaxTurns

\* While the daemon runs and answers, the connection does not stay lost.
InternetComesBack == []<>(alive \/ ~kdfRunning \/ ~daemonAnswers \/ ~coinsReady)

\* A check for an update ends, unless it threw: then none is ever made again.
UpdateCheckEnds == []<>(~fetching \/ updateLost)

\* The warning about the clock goes away once the clock is right, although answers
\* asked for earlier may still come after later ones.
ClockWarningEnds == []<>(inSync \/ ~clockRight)
=============================================================================
