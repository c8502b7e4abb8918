--------------------------- MODULE ZhtlcActivation ---------------------------
(***************************************************************************)
(* kdf_service::enable_zhtlc: shielded (ZHTLC) coins are activated by a    *)
(* task of the daemon that may run for hours.  Each activation holds one   *)
(* worker thread, which polls the task's status and interleaves with the   *)
(* GUI thread and with the workers of other coins at every lock and RPC.   *)
(*                                                                         *)
(* Abstracted: the activation queue and the batch families (module         *)
(* CoinActivation), the loading screen, and the event names but for the    *)
(* one the code singles out.  The updates of the coins file are atomic     *)
(* here; module CoinStatusFile takes them apart.                           *)
(***************************************************************************)
EXTENDS Integers, FiniteSets

CONSTANTS
    Coins,        \* the ZHTLC tickers
    SavedActive,  \* those whose saved "active" field is true at login
    MaxTries,     \* the polls z_nb_try allows (10000)
    MaxTasks,     \* bound: activations per behaviour
    MaxDisables   \* bound: disable commands per behaviour

ASSUME ZhtlcAssumption ==
    /\ SavedActive \subseteq Coins
    /\ MaxTries \in Nat \ {0}
    /\ MaxTasks \in Nat
    /\ MaxDisables \in Nat

VARIABLES
    currently_enabled, \* m_coins_informations[c].currently_enabled
    active,            \* m_coins_informations[c].active
    coins_file,        \* the "active" fields saved on disk
    activation_status, \* m_coins_informations[c].activation_status
    z_nb_try,          \* the function's static counter, one for all coins
    tasks,             \* activations: the worker's place and locals
    started,           \* how many activations have begun
    kdf_coins,         \* external: the coins the daemon has activated
    kdf_tasks,         \* external: what the daemon answers for each task
    portfolio_queue,   \* m_portfolio_queue
    rows,              \* coins shown in the portfolio
    gui,               \* the command the GUI thread is in
    refused,           \* history: coins the daemon refused to disable
    failed,            \* history: coins whose last activation was reported failed
    disables           \* bound: disable commands so far

registry == <<currently_enabled, activation_status>>
saved == <<active, coins_file>>
kdf == <<kdf_coins, kdf_tasks>>
view == <<rows, gui, refused, disables>>
vars == <<registry, saved, z_nb_try, tasks, started, kdf, portfolio_queue, view, failed>>

-----------------------------------------------------------------------------
(* Seeded faults: each replaces one definition below, to show that a        *)
(* property notices it.                                                    *)

MutNoTask == [pc |-> "free", coin |-> {}, last_event |-> "", z_error |-> "none", tries |-> 0]

MutNotAnnouncedWhileScanning(t, event) == portfolio_queue

MutLimitOverrun == z_nb_try <= MaxTries + 2

MutMarkMarked == currently_enabled \cap active

MutEveryErrorContinues == {"already", "ok_error"}

MutReadyIsStarted(c) == activation_status[c] # "none"

-----------------------------------------------------------------------------
TaskIds == 1..MaxTasks

\* The daemon's last word on a task.  "already" is an Ok that holds the error
\* CoinIsAlreadyActivated, "ok_error" an Ok and "error" an Error that hold
\* another error.
Finals == {"ok", "already", "ok_error", "error"}

Events == {"none", "ActivatingCoin", "scanning"}

Task == [pc: {"free", "init", "poll", "record", "while", "after", "remove",
              "announce", "caught", "final", "done"},
         coin: SUBSET Coins, last_event: Events,
         z_error: Finals \cup {"none", "progress"}, tries: Nat]

NoTask == [pc |-> "free", coin |-> {}, last_event |-> "none", z_error |-> "none", tries |-> 0]

Running(c) == {t \in TaskIds : tasks[t].coin = {c} /\ tasks[t].pc \notin {"free", "done"}}

\* is_zhtlc_coin_ready: the last status stored is Ok, without an error.
Ready(c) == activation_status[c] = "ok"

\* z_answers[0].result.details.contains("error") after the loop.
HoldsError(z_error) == z_error \in {"already", "ok_error", "error"}

-----------------------------------------------------------------------------
Init ==
    /\ currently_enabled = {}
    /\ active = SavedActive
    /\ coins_file = SavedActive
    /\ activation_status = [c \in Coins |-> "none"]
    /\ z_nb_try = 0
    /\ tasks = [t \in TaskIds |-> NoTask]
    /\ started = 0
    /\ kdf_coins = {}
    /\ kdf_tasks = [t \in TaskIds |-> "running"]
    /\ portfolio_queue = {}
    /\ rows = {}
    /\ gui = [pc |-> "idle", coin |-> {}]
    /\ refused = {}
    /\ failed = {}
    /\ disables = 0

-----------------------------------------------------------------------------
(* The GUI thread.                                                         *)

\* enable_coins passes over an enabled coin, and the enable dialog lists the
\* coins that are not shown; activate_coins then starts a worker.
EnableCoin(c) ==
    /\ gui.pc = "idle"
    /\ started < MaxTasks
    /\ c \notin currently_enabled \cup rows
    /\ started' = started + 1
    /\ tasks' = [tasks EXCEPT ![started + 1] = [@ EXCEPT !.pc = "init", !.coin = {c}]]
    /\ failed' = failed \ {c}
    /\ UNCHANGED <<registry, saved, z_nb_try, kdf, portfolio_queue, view>>

\* The enabled coins update() still has to mark active.
Unmarked == currently_enabled \ active

\* kdf_service::update: enabled coins are marked active and saved.
MarkEnabled ==
    /\ gui.pc = "idle"
    /\ Unmarked # {}
    /\ active' = active \cup Unmarked
    /\ coins_file' = coins_file \cup Unmarked
    /\ UNCHANGED <<registry, z_nb_try, tasks, started, kdf, portfolio_queue, view, failed>>

\* application::tick shows every announced coin once.
DrainPortfolioQueue ==
    /\ gui.pc = "idle"
    /\ portfolio_queue # {}
    /\ rows' = rows \cup portfolio_queue
    /\ portfolio_queue' = {}
    /\ UNCHANGED <<registry, saved, z_nb_try, tasks, started, kdf, gui, refused, disables, failed>>

\* application::disable_coins: a coin that is not ready is refused, another
\* loses its row at once and goes to kdf_service::disable_coin, which asks the
\* daemon only for a coin that is enabled.
DisableCoin(c) ==
    /\ gui.pc = "idle"
    /\ disables < MaxDisables
    /\ c \in rows
    /\ Ready(c)
    /\ rows' = rows \ {c}
    /\ gui' = [pc |-> IF c \in currently_enabled THEN "rpc" ELSE "disabled", coin |-> {c}]
    /\ disables' = disables + 1
    /\ UNCHANGED <<registry, saved, z_nb_try, tasks, started, kdf, portfolio_queue, refused, failed>>

\* External: the daemon drops the coin; disable_coin then clears the flag.
KdfDisables ==
    /\ gui.pc = "rpc"
    /\ gui.coin \subseteq kdf_coins
    /\ kdf_coins' = kdf_coins \ gui.coin
    /\ gui' = [gui EXCEPT !.pc = "dropped"]
    /\ UNCHANGED <<registry, saved, z_nb_try, tasks, started, kdf_tasks,
                   portfolio_queue, rows, refused, disables, failed>>

ClearEnabled ==
    /\ gui.pc = "dropped"
    /\ currently_enabled' = currently_enabled \ gui.coin
    /\ gui' = [gui EXCEPT !.pc = "disabled"]
    /\ UNCHANGED <<activation_status, saved, z_nb_try, tasks, started, kdf,
                   portfolio_queue, rows, refused, disables, failed>>

\* Any error answer: disable_coin leaves the coin enabled.
KdfRefuses ==
    /\ gui.pc = "rpc"
    /\ refused' = refused \cup gui.coin
    /\ gui' = [gui EXCEPT !.pc = "disabled"]
    /\ UNCHANGED <<registry, saved, z_nb_try, tasks, started, kdf,
                   portfolio_queue, rows, disables, failed>>

\* The end of disable_multiple_coins.
DisableDone ==
    /\ gui.pc = "disabled"
    /\ active' = active \ gui.coin
    /\ coins_file' = coins_file \ gui.coin
    /\ gui' = [pc |-> "idle", coin |-> {}]
    /\ UNCHANGED <<registry, z_nb_try, tasks, started, kdf, portfolio_queue,
                   rows, refused, disables, failed>>

-----------------------------------------------------------------------------
(* External: the daemon's tasks.                                           *)

\* The daemon ends a task and keeps the answer (forget_if_finished is false);
\* the end shows at the next poll, so that is where it is taken to happen.
KdfEnds(t, final) ==
    /\ tasks[t].pc = "poll"
    /\ kdf_tasks[t] = "running"
    /\ (final = "already") => (tasks[t].coin \subseteq kdf_coins)
    /\ kdf_tasks' = [kdf_tasks EXCEPT ![t] = final]
    /\ kdf_coins' = IF final = "ok" THEN kdf_coins \cup tasks[t].coin ELSE kdf_coins
    /\ UNCHANGED <<registry, saved, z_nb_try, tasks, started, portfolio_queue, view, failed>>

-----------------------------------------------------------------------------
(* The worker's first callback: the answer to task::enable_z_coin::init.   *)

Goto(t, pc) == tasks' = [tasks EXCEPT ![t].pc = pc]

InitTask(t) ==
    /\ tasks[t].pc = "init"
    /\ Goto(t, "poll")
    /\ UNCHANGED <<registry, saved, z_nb_try, started, kdf, portfolio_queue, view, failed>>

InitAlreadyActivated(t) ==
    /\ tasks[t].pc = "init"
    /\ tasks[t].coin \subseteq kdf_coins
    /\ currently_enabled' = currently_enabled \cup tasks[t].coin
    /\ portfolio_queue' = portfolio_queue \cup tasks[t].coin
    /\ Goto(t, "announce")
    /\ UNCHANGED <<activation_status, saved, z_nb_try, started, kdf, view, failed>>

InitRefused(t) ==
    /\ tasks[t].pc = "init"
    /\ failed' = failed \cup tasks[t].coin
    /\ Goto(t, "remove")
    /\ UNCHANGED <<registry, saved, z_nb_try, started, kdf, portfolio_queue, view>>

\* The request fails, or the whole answer is an "error": nothing is read.
InitLost(t) ==
    /\ tasks[t].pc = "init"
    /\ Goto(t, "final")
    /\ UNCHANGED <<registry, saved, z_nb_try, started, kdf, portfolio_queue, view, failed>>

-----------------------------------------------------------------------------
(* The polling loop.  An action reads one answer; z_error keeps it.        *)

Answered(t) == kdf_tasks[t]

PollOk(t) ==
    /\ tasks[t].pc = "poll"
    /\ Answered(t) = "ok"
    /\ activation_status' = [c \in Coins |-> IF c \in tasks[t].coin THEN "ok" ELSE activation_status[c]]
    /\ currently_enabled' = currently_enabled \cup tasks[t].coin
    /\ portfolio_queue' = portfolio_queue \cup tasks[t].coin
    /\ tasks' = [tasks EXCEPT ![t] = [@ EXCEPT !.pc = "after", !.z_error = "ok"]]
    /\ UNCHANGED <<saved, z_nb_try, started, kdf, view, failed>>

\* The errors that `continue` instead of leaving the loop.
Continues == {"already"}

\* An Ok that holds an error is stored.  CoinIsAlreadyActivated is `continue`:
\* neither a sleep nor a try.  The others leave the loop, by an exception when
\* the error is not a plain string.
PollOkError(t) ==
    /\ tasks[t].pc = "poll"
    /\ Answered(t) \in {"already", "ok_error"}
    /\ activation_status' = [c \in Coins |-> IF c \in tasks[t].coin THEN "ok_error" ELSE activation_status[c]]
    /\ \E pc \in IF Answered(t) \in Continues THEN {"while"} ELSE {"after", "caught"} :
         tasks' = [tasks EXCEPT ![t] = [@ EXCEPT !.pc = pc, !.z_error = Answered(t)]]
    /\ UNCHANGED <<currently_enabled, saved, z_nb_try, started, kdf, portfolio_queue, view, failed>>

\* The answers that end the loop without a status being stored.
LeavesLoop == {"error"}

PollError(t) ==
    /\ tasks[t].pc = "poll"
    /\ Answered(t) \in LeavesLoop
    /\ tasks' = [tasks EXCEPT ![t] = [@ EXCEPT !.pc = "after", !.z_error = Answered(t)]]
    /\ UNCHANGED <<registry, saved, z_nb_try, started, kdf, portfolio_queue, view, failed>>

\* A new event other than ActivatingCoin flags and announces the coin early.
ShownEarly(t, event) ==
    /\ event # tasks[t].last_event
    /\ event # "ActivatingCoin"
    /\ ~ (tasks[t].coin \subseteq currently_enabled)

AnnouncedEarly(t, event) ==
    IF ShownEarly(t, event) THEN portfolio_queue \cup tasks[t].coin ELSE portfolio_queue

PollProgress(t, event) ==
    /\ tasks[t].pc = "poll"
    /\ Answered(t) = "running"
    /\ currently_enabled' = IF ShownEarly(t, event)
                            THEN currently_enabled \cup tasks[t].coin ELSE currently_enabled
    /\ portfolio_queue' = AnnouncedEarly(t, event)
    /\ tasks' = [tasks EXCEPT ![t] = [@ EXCEPT !.pc = "record", !.last_event = event, !.z_error = "progress"]]
    /\ UNCHANGED <<activation_status, saved, z_nb_try, started, kdf, view, failed>>

\* The status RPC fails, or its answer lacks a field the code reads with at():
\* the exception leaves the loop.
PollThrows(t) ==
    /\ tasks[t].pc = "poll"
    /\ Goto(t, "caught")
    /\ UNCHANGED <<registry, saved, z_nb_try, started, kdf, portfolio_queue, view, failed>>

\* After the sleep: the status is stored and the try counted, under one lock.
Record(t) ==
    /\ tasks[t].pc = "record"
    /\ activation_status' = [c \in Coins |-> IF c \in tasks[t].coin THEN "progress" ELSE activation_status[c]]
    /\ z_nb_try' = z_nb_try + 1
    /\ tasks' = [tasks EXCEPT ![t] = [@ EXCEPT !.pc = "while", !.tries = tasks[t].tries + 1]]
    /\ UNCHANGED <<currently_enabled, saved, started, kdf, portfolio_queue, view, failed>>

TriesLeft == z_nb_try < MaxTries

\* The loop's condition, read without a lock.
While(t) ==
    /\ tasks[t].pc = "while"
    /\ Goto(t, IF TriesLeft THEN "poll" ELSE "after")
    /\ UNCHANGED <<registry, saved, z_nb_try, started, kdf, portfolio_queue, view, failed>>

-----------------------------------------------------------------------------
(* After the loop.                                                         *)

AfterError(t) ==
    /\ tasks[t].pc = "after"
    /\ HoldsError(tasks[t].z_error)
    /\ failed' = failed \cup tasks[t].coin
    /\ Goto(t, "remove")
    /\ UNCHANGED <<registry, saved, z_nb_try, started, kdf, portfolio_queue, view>>

AfterTimeout(t) ==
    /\ tasks[t].pc = "after"
    /\ ~ HoldsError(tasks[t].z_error)
    /\ z_nb_try = MaxTries
    /\ failed' = failed \cup tasks[t].coin
    /\ active' = active \ tasks[t].coin
    /\ coins_file' = coins_file \ tasks[t].coin
    /\ Goto(t, "remove")
    /\ UNCHANGED <<registry, z_nb_try, started, kdf, portfolio_queue, view>>

\* "Complete!" is sent to the user.
AfterComplete(t) ==
    /\ tasks[t].pc = "after"
    /\ ~ HoldsError(tasks[t].z_error)
    /\ z_nb_try # MaxTries
    /\ Goto(t, "announce")
    /\ UNCHANGED <<registry, saved, z_nb_try, started, kdf, portfolio_queue, view, failed>>

\* to_remove: update_coin_status(false).
Remove(t) ==
    /\ tasks[t].pc = "remove"
    /\ active' = active \ tasks[t].coin
    /\ coins_file' = coins_file \ tasks[t].coin
    /\ Goto(t, "final")
    /\ UNCHANGED <<registry, z_nb_try, started, kdf, portfolio_queue, view, failed>>

\* What is left of tickers is announced, for the second time if it was enabled.
Announce(t) ==
    /\ tasks[t].pc = "announce"
    /\ portfolio_queue' = portfolio_queue \cup tasks[t].coin
    /\ Goto(t, "final")
    /\ UNCHANGED <<registry, saved, z_nb_try, started, kdf, view, failed>>

\* The outer catch marks the coin inactive.
Caught(t) ==
    /\ tasks[t].pc = "caught"
    /\ active' = active \ tasks[t].coin
    /\ coins_file' = coins_file \ tasks[t].coin
    /\ Goto(t, "final")
    /\ UNCHANGED <<registry, z_nb_try, started, kdf, portfolio_queue, view, failed>>

\* The second continuation marks the coin inactive, after a success as well.
Final(t) ==
    /\ tasks[t].pc = "final"
    /\ active' = active \ tasks[t].coin
    /\ coins_file' = coins_file \ tasks[t].coin
    /\ Goto(t, "done")
    /\ UNCHANGED <<registry, z_nb_try, started, kdf, portfolio_queue, view, failed>>

-----------------------------------------------------------------------------
AfterLoop(t) == AfterError(t) \/ AfterTimeout(t) \/ AfterComplete(t)

Poll(t) ==
    \/ PollOk(t) \/ PollOkError(t) \/ PollError(t) \/ PollThrows(t)
    \/ \E event \in Events \ {"none"} : PollProgress(t, event)

Answer(t) == InitTask(t) \/ InitAlreadyActivated(t) \/ InitRefused(t) \/ InitLost(t)

Worker(t) ==
    \/ Answer(t) \/ Poll(t) \/ Record(t) \/ While(t) \/ AfterLoop(t)
    \/ Remove(t) \/ Announce(t) \/ Caught(t) \/ Final(t)

Disabling == KdfDisables \/ KdfRefuses \/ ClearEnabled \/ DisableDone

Next ==
    \/ \E c \in Coins : EnableCoin(c) \/ DisableCoin(c)
    \/ Disabling \/ MarkEnabled \/ DrainPortfolioQueue
    \/ \E t \in TaskIds : Worker(t) \/ (\E final \in Finals : KdfEnds(t, final))

Spec == Init /\ [][Next]_vars

\* A worker runs and every request is answered or times out; the GUI thread
\* ends a command and comes back to update().  The daemon may never end a task.
Fairness ==
    /\ \A t \in TaskIds : WF_vars(Worker(t))
    /\ WF_vars(Disabling)
    /\ WF_vars(MarkEnabled)

FairSpec == Spec /\ Fairness

-----------------------------------------------------------------------------
(* Properties.                                                             *)

\* Every variable has its type.
TypeOK ==
    /\ currently_enabled \subseteq Coins
    /\ active \subseteq Coins
    /\ coins_file \subseteq Coins
    /\ activation_status \in [Coins -> {"none", "progress", "ok", "ok_error"}]
    /\ z_nb_try \in Nat
    /\ tasks \in [TaskIds -> Task]
    /\ started \in 0..MaxTasks
    /\ kdf_coins \subseteq Coins
    /\ kdf_tasks \in [TaskIds -> Finals \cup {"running"}]
    /\ portfolio_queue \subseteq Coins
    /\ rows \subseteq Coins
    /\ gui \in [pc: {"idle", "rpc", "dropped", "disabled"}, coin: SUBSET Coins]
    /\ refused \subseteq Coins
    /\ failed \subseteq Coins
    /\ disables \in 0..MaxDisables

\* A coin the service counts as enabled, early or for good, is shown in the
\* portfolio, on its way there, being disabled, or one the daemon refused to
\* disable: whatever the worker and the user do, it does not vanish.
EnabledCoinsAreShown ==
    currently_enabled \subseteq rows \cup portfolio_queue \cup gui.coin \cup refused

\* The static counter outlives every activation, yet once it is used up each
\* activation polls at most once more: it never passes the limit by more than
\* the number of activations.
CounterIsBounded == z_nb_try <= MaxTries + started

\* A coin whose first activation is under way cannot be disabled: the row that
\* appears early stays until the daemon's own Ok has been stored.
FirstActivationIsNotInterrupted ==
    \A c \in Coins : gui.coin = {c} => \E t \in TaskIds : tasks[t].coin = {c} /\ kdf_tasks[t] = "ok"

\* Every activation ends, by an answer, an exception or the counter, unless the
\* daemon ended its task with CoinIsAlreadyActivated: that one is polled for
\* ever without a pause.
ActivationEnds ==
    \A t \in TaskIds : tasks[t].pc = "init" ~> (tasks[t].pc = "done" \/ kdf_tasks[t] = "already")

\* An enabled coin is saved as active at last, although the end of its own
\* activation marks it inactive.
EnabledIsSaved ==
    \A c \in Coins : c \in currently_enabled ~> (c \in coins_file \/ c \notin currently_enabled)

\* application.cpp says the announcement is made when a coin is enabled: every
\* coin newly announced is enabled.
AnnouncedCoinsAreEnabled ==
    [][portfolio_queue' \ portfolio_queue \subseteq currently_enabled']_vars

\* "Removing coins which failed activation...": a coin reported as failed, with
\* no activation left running, is not marked active again.
FailedCoinsAreNotActive == \A c \in failed : Running(c) = {} => c \notin active

\* "Exited {} enable loop after 10000 tries": a coin that times out has used
\* that many tries itself.
TimedOutAfterAllTries ==
    [][\A t \in TaskIds : AfterTimeout(t) => tasks[t].tries >= MaxTries]_vars

\* Every activation ends and what it enabled is saved.
ActivationSettles == ActivationEnds /\ EnabledIsSaved
=============================================================================
