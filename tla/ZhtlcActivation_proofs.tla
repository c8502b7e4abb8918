----------------------- MODULE ZhtlcActivation_proofs -----------------------
(***************************************************************************)
(* Proofs about ZhtlcActivation, for any coins, tries and number of        *)
(* activations: the type invariant, that no enabled coin vanishes, that    *)
(* the shared counter stays bounded, and that a coin's first activation is *)
(* not interrupted by disabling it.                                        *)
(***************************************************************************)
EXTENDS ZhtlcActivation, FiniteSetTheorems, TLAPS

-----------------------------------------------------------------------------
(* Type correctness.                                                       *)

LEMMA NoTaskIsTask == NoTask \in Task
BY DEF NoTask, Task, Events

LEMMA TypeInit == Init => TypeOK
BY ZhtlcAssumption, NoTaskIsTask DEF Init, TypeOK

\* A move of one worker keeps the tasks' type.
LEMMA GotoType ==
    ASSUME TypeOK, NEW t \in TaskIds,
           NEW pc \in {"poll", "after", "remove", "announce", "caught", "final", "done"},
           Goto(t, pc)
    PROVE  tasks' \in [TaskIds -> Task]
BY DEF TypeOK, Goto, Task

LEMMA TypeStep == TypeOK /\ [Next]_vars => TypeOK'
<1> SUFFICES ASSUME TypeOK, [Next]_vars PROVE TypeOK'
  OBVIOUS
<1> USE ZhtlcAssumption
<1>1. ASSUME NEW c \in Coins, EnableCoin(c) PROVE TypeOK'
  <2>1. started + 1 \in TaskIds /\ started' \in 0..MaxTasks
    BY <1>1 DEF TypeOK, TaskIds, EnableCoin
  <2>2. [tasks[started + 1] EXCEPT !.pc = "init", !.coin = {c}] \in Task
    BY <2>1 DEF TypeOK, Task
  <2>3. tasks' = [tasks EXCEPT ![started + 1] = [tasks[started + 1] EXCEPT !.pc = "init", !.coin = {c}]]
    BY <1>1, <2>1 DEF TypeOK, EnableCoin
  <2>4. tasks' \in [TaskIds -> Task]
    BY <2>1, <2>2, <2>3 DEF TypeOK
  <2> QED BY <1>1, <2>1, <2>4 DEF TypeOK, EnableCoin, registry, saved, kdf, view
<1>2. ASSUME NEW c \in Coins, DisableCoin(c) PROVE TypeOK'
  BY <1>2 DEF TypeOK, DisableCoin, registry, saved, kdf
<1>3. CASE Disabling
  BY <1>3 DEF TypeOK, Disabling, KdfDisables, KdfRefuses, ClearEnabled, DisableDone, registry, saved, kdf
<1>4. CASE MarkEnabled \/ DrainPortfolioQueue
  BY <1>4 DEF TypeOK, MarkEnabled, Unmarked, DrainPortfolioQueue, registry, saved, kdf, view
<1>5. ASSUME NEW t \in TaskIds, NEW final \in Finals, KdfEnds(t, final) PROVE TypeOK'
  <2>1. tasks[t].coin \subseteq Coins
    BY DEF TypeOK, Task
  <2> QED BY <1>5, <2>1 DEF TypeOK, KdfEnds, registry, saved, view
<1>6. ASSUME NEW t \in TaskIds, Worker(t) PROVE TypeOK'
  <2>1. tasks[t].coin \subseteq Coins
    BY DEF TypeOK, Task
  <2>2. CASE Answer(t)
    <3>1. tasks' \in [TaskIds -> Task]
      BY <2>2, GotoType DEF Answer, InitTask, InitAlreadyActivated, InitRefused, InitLost
    <3> QED BY <2>1, <2>2, <3>1 DEF TypeOK, Answer, InitTask, InitAlreadyActivated,
                                     InitRefused, InitLost, registry, saved, kdf, view
  <2>3. CASE PollOk(t)
    <3>1. [tasks[t] EXCEPT !.pc = "after", !.z_error = "ok"] \in Task
      BY DEF TypeOK, Task, Finals
    <3>2. tasks' \in [TaskIds -> Task]
      BY <2>3, <3>1 DEF TypeOK, PollOk
    <3> QED BY <2>1, <2>3, <3>2 DEF TypeOK, PollOk, saved, kdf, view
  <2>4. CASE PollOkError(t)
    <3>1. ASSUME NEW pc \in {"while", "after", "caught"}, NEW final \in Finals
          PROVE  [tasks[t] EXCEPT !.pc = pc, !.z_error = final] \in Task
      BY DEF TypeOK, Task
    <3>2. tasks' \in [TaskIds -> Task]
      BY <2>4, <3>1 DEF TypeOK, PollOkError, Answered, Finals
    <3> QED BY <2>4, <3>2 DEF TypeOK, PollOkError, saved, kdf, view
  <2>5. CASE PollError(t)
    <3>1. ASSUME NEW final \in Finals
          PROVE  [tasks[t] EXCEPT !.pc = "after", !.z_error = final] \in Task
      BY DEF TypeOK, Task
    <3>2. tasks' \in [TaskIds -> Task]
      BY <2>5, <3>1 DEF TypeOK, PollError, Answered, LeavesLoop, Finals
    <3> QED BY <2>5, <3>2 DEF TypeOK, PollError, registry, saved, kdf, view
  <2>6. ASSUME NEW event \in Events \ {"none"}, PollProgress(t, event) PROVE TypeOK'
    <3>1. [tasks[t] EXCEPT !.pc = "record", !.last_event = event, !.z_error = "progress"] \in Task
      BY DEF TypeOK, Task
    <3>2. tasks' \in [TaskIds -> Task]
      BY <2>6, <3>1 DEF TypeOK, PollProgress
    <3> QED BY <2>1, <2>6, <3>2 DEF TypeOK, PollProgress, AnnouncedEarly, saved, kdf, view
  <2>7. CASE PollThrows(t) \/ While(t) \/ AfterLoop(t) \/ Remove(t) \/ Announce(t) \/ Caught(t) \/ Final(t)
    <3>1. tasks' \in [TaskIds -> Task]
      BY <2>7, GotoType DEF PollThrows, While, AfterLoop, AfterError, AfterTimeout, AfterComplete,
                            Remove, Announce, Caught, Final
    <3> QED BY <2>1, <2>7, <3>1 DEF TypeOK, PollThrows, While, AfterLoop, AfterError, AfterTimeout,
              AfterComplete, Remove, Announce, Caught, Final, registry, saved, kdf, view
  <2>8. CASE Record(t)
    <3>1. tasks[t].tries + 1 \in Nat
      BY DEF TypeOK, Task
    <3>2. [tasks[t] EXCEPT !.pc = "while", !.tries = tasks[t].tries + 1] \in Task
      BY <3>1 DEF TypeOK, Task
    <3>3. tasks' \in [TaskIds -> Task]
      BY <2>8, <3>2 DEF TypeOK, Record
    <3> QED BY <2>1, <2>8, <3>3 DEF TypeOK, Record, saved, kdf, view
  <2> QED BY <1>6, <2>2, <2>3, <2>4, <2>5, <2>6, <2>7, <2>8 DEF Worker, Poll
<1>7. CASE UNCHANGED vars
  BY <1>7 DEF TypeOK, vars, registry, saved, kdf, view
<1> QED BY <1>1, <1>2, <1>3, <1>4, <1>5, <1>6, <1>7 DEF Next

\* The variables keep their types, whatever the coins, the tries and the bounds.
THEOREM TypeCorrect == Spec => []TypeOK
BY TypeInit, TypeStep, PTL DEF Spec

-----------------------------------------------------------------------------
(* No enabled coin vanishes.                                               *)

\* The GUI thread holds a coin only inside a command, and a coin it is done
\* with is announced or refused if a worker has flagged it in the meantime.
GuiHoldsItsCoin ==
    /\ gui.pc = "idle" => gui.coin = {}
    /\ gui.pc = "disabled" => gui.coin \cap currently_enabled \subseteq portfolio_queue \cup refused

ShownInv == GuiHoldsItsCoin /\ EnabledCoinsAreShown

LEMMA ShownInit == Init => ShownInv
BY DEF Init, ShownInv, GuiHoldsItsCoin, EnabledCoinsAreShown

LEMMA ShownStep == TypeOK /\ ShownInv /\ [Next]_vars => ShownInv'
<1> SUFFICES ASSUME TypeOK, ShownInv, [Next]_vars PROVE ShownInv'
  OBVIOUS
<1> USE DEF ShownInv, GuiHoldsItsCoin, EnabledCoinsAreShown
<1>1. ASSUME NEW c \in Coins, EnableCoin(c) PROVE ShownInv'
  BY <1>1 DEF EnableCoin, registry, view
<1>2. ASSUME NEW c \in Coins, DisableCoin(c) PROVE ShownInv'
  BY <1>2 DEF DisableCoin, registry
<1>3. CASE KdfDisables
  BY <1>3 DEF TypeOK, KdfDisables, registry
<1>4. CASE KdfRefuses
  BY <1>4 DEF TypeOK, KdfRefuses, registry
<1>5. CASE ClearEnabled
  BY <1>5 DEF TypeOK, ClearEnabled
<1>6. CASE DisableDone
  BY <1>6 DEF TypeOK, DisableDone, registry
<1>7. CASE MarkEnabled \/ DrainPortfolioQueue
  BY <1>7 DEF TypeOK, MarkEnabled, DrainPortfolioQueue, registry, view
<1>8. ASSUME NEW t \in TaskIds, NEW final \in Finals, KdfEnds(t, final) PROVE ShownInv'
  BY <1>8 DEF KdfEnds, registry, view
<1>9. ASSUME NEW t \in TaskIds, Worker(t) PROVE ShownInv'
  <2>1. CASE Answer(t)
    BY <2>1 DEF Answer, InitTask, InitAlreadyActivated, InitRefused, InitLost, registry, view
  <2>2. CASE Poll(t)
    BY <2>2 DEF Poll, PollOk, PollOkError, PollError, PollThrows, PollProgress, AnnouncedEarly,
                ShownEarly, registry, view
  <2>3. CASE Record(t) \/ While(t) \/ AfterLoop(t) \/ Remove(t) \/ Announce(t) \/ Caught(t) \/ Final(t)
    BY <2>3 DEF Record, While, AfterLoop, AfterError, AfterTimeout, AfterComplete, Remove,
                Announce, Caught, Final, registry, view
  <2> QED BY <1>9, <2>1, <2>2, <2>3 DEF Worker
<1>10. CASE UNCHANGED vars
  BY <1>10 DEF vars, registry, view
<1> QED BY <1>1, <1>2, <1>3, <1>4, <1>5, <1>6, <1>7, <1>8, <1>9, <1>10 DEF Next, Disabling

\* An enabled shielded coin is shown, about to be shown, being disabled, or one
\* the daemon refused to disable.
THEOREM EnabledCoinsStayVisible == Spec => []EnabledCoinsAreShown
<1>1. Init => TypeOK /\ ShownInv
  BY TypeInit, ShownInit
<1>2. TypeOK /\ ShownInv /\ [Next]_vars => (TypeOK /\ ShownInv)'
  BY TypeStep, ShownStep
<1>3. ShownInv => EnabledCoinsAreShown
  BY DEF ShownInv
<1> QED BY <1>1, <1>2, <1>3, PTL DEF Spec

-----------------------------------------------------------------------------
(* Slots are used in order, each for one coin.                             *)

SlotsFillInOrder ==
    \A t \in TaskIds :
        /\ t > started => tasks[t] = NoTask
        /\ t <= started => tasks[t].pc # "free" /\ \E c \in Coins : tasks[t].coin = {c}

LEMMA SlotsInit == Init => SlotsFillInOrder
BY DEF Init, SlotsFillInOrder, TaskIds

\* A worker acts only in a slot that is used, moves only itself, and stays used.
LEMMA WorkerStaysInSlot ==
    ASSUME TypeOK, SlotsFillInOrder, NEW t \in TaskIds, Worker(t)
    PROVE  /\ t <= started /\ started' = started
           /\ tasks'[t].pc # "free" /\ tasks'[t].coin = tasks[t].coin
           /\ \A u \in TaskIds \ {t} : tasks'[u] = tasks[u]
<1>1. tasks[t].pc # "free"
  BY DEF Worker, Answer, InitTask, InitAlreadyActivated, InitRefused, InitLost, Poll, PollOk,
         PollOkError, PollError, PollThrows, PollProgress, Record, While, AfterLoop, AfterError,
         AfterTimeout, AfterComplete, Remove, Announce, Caught, Final
<1>2. t <= started
  BY <1>1 DEF TypeOK, SlotsFillInOrder, TaskIds, NoTask
<1>3. started' = started
  BY DEF Worker, Answer, InitTask, InitAlreadyActivated, InitRefused, InitLost, Poll, PollOk,
         PollOkError, PollError, PollThrows, PollProgress, Record, While, AfterLoop, AfterError,
         AfterTimeout, AfterComplete, Remove, Announce, Caught, Final
<1> DEFINE Moved == /\ tasks'[t].pc # "free" /\ tasks'[t].coin = tasks[t].coin
                    /\ \A u \in TaskIds \ {t} : tasks'[u] = tasks[u]
<1>4. ASSUME NEW pc \in {"poll", "after", "remove", "announce", "caught", "final", "done"}, Goto(t, pc)
      PROVE  Moved
  BY <1>4 DEF Goto, TypeOK, Task
<1>5. CASE Answer(t)
  BY <1>2, <1>3, <1>4, <1>5 DEF Answer, InitTask, InitAlreadyActivated, InitRefused, InitLost
<1>6. ASSUME NEW final, tasks' = [tasks EXCEPT ![t] = [@ EXCEPT !.pc = "after", !.z_error = final]]
      PROVE  Moved
  <2>1. /\ tasks'[t] = [tasks[t] EXCEPT !.pc = "after", !.z_error = final]
        /\ \A u \in TaskIds \ {t} : tasks'[u] = tasks[u]
    BY <1>6 DEF TypeOK
  <2> QED BY <2>1 DEF TypeOK, Task
<1>12. CASE PollOk(t) \/ PollError(t)
  BY <1>2, <1>3, <1>6, <1>12 DEF PollOk, PollError
<1>7. CASE PollOkError(t)
  BY <1>2, <1>3, <1>7 DEF PollOkError, TypeOK, Task
<1>10. CASE Record(t)
  BY <1>2, <1>3, <1>10 DEF Record, TypeOK, Task
<1>11. ASSUME NEW event \in Events \ {"none"}, PollProgress(t, event) PROVE Moved
  BY <1>11 DEF PollProgress, TypeOK, Task
<1>8. CASE PollThrows(t) \/ While(t) \/ AfterLoop(t)
  BY <1>2, <1>3, <1>4, <1>8 DEF PollThrows, While, AfterLoop, AfterError, AfterTimeout, AfterComplete
<1>9. CASE Remove(t) \/ Announce(t) \/ Caught(t) \/ Final(t)
  BY <1>2, <1>3, <1>4, <1>9 DEF Remove, Announce, Caught, Final
<1> QED BY <1>2, <1>3, <1>5, <1>6, <1>7, <1>8, <1>9, <1>10, <1>11, <1>12 DEF Worker, Poll

LEMMA SlotsStep == TypeOK /\ SlotsFillInOrder /\ [Next]_vars => SlotsFillInOrder'
<1> SUFFICES ASSUME TypeOK, SlotsFillInOrder, [Next]_vars PROVE SlotsFillInOrder'
  OBVIOUS
<1>1. ASSUME NEW c \in Coins, EnableCoin(c) PROVE SlotsFillInOrder'
  BY <1>1 DEF EnableCoin, SlotsFillInOrder, TypeOK, Task, TaskIds
<1>2. ASSUME NEW t \in TaskIds, Worker(t) PROVE SlotsFillInOrder'
  BY <1>2, WorkerStaysInSlot DEF SlotsFillInOrder, TypeOK, TaskIds
<1>3. CASE tasks' = tasks /\ started' = started
  BY <1>3 DEF SlotsFillInOrder
<1>4. ASSUME NEW c \in Coins, DisableCoin(c) PROVE tasks' = tasks /\ started' = started
  BY <1>4 DEF DisableCoin
<1>5. CASE Disabling \/ MarkEnabled \/ DrainPortfolioQueue
  BY <1>3, <1>5 DEF Disabling, KdfDisables, KdfRefuses, ClearEnabled, DisableDone, MarkEnabled, DrainPortfolioQueue
<1>6. ASSUME NEW t \in TaskIds, NEW final \in Finals, KdfEnds(t, final) PROVE tasks' = tasks /\ started' = started
  BY <1>6 DEF KdfEnds
<1> QED BY <1>1, <1>2, <1>3, <1>4, <1>5, <1>6 DEF Next, vars

-----------------------------------------------------------------------------
(* A coin's first activation is not interrupted.                           *)

\* A stored Ok came from a task of that coin that the daemon has ended with Ok.
EndedOk(c) == \E t \in TaskIds : tasks[t].coin = {c} /\ kdf_tasks[t] = "ok"

OkCameFromTask == \A c \in Coins : Ready(c) => EndedOk(c)

ReadyInv == OkCameFromTask /\ FirstActivationIsNotInterrupted

LEMMA ReadyInit == Init => ReadyInv
BY DEF Init, ReadyInv, OkCameFromTask, Ready, FirstActivationIsNotInterrupted

\* A task that ended with Ok stays so.
LEMMA EndedOkStays ==
    ASSUME TypeOK, SlotsFillInOrder, [Next]_vars, NEW c \in Coins, EndedOk(c)
    PROVE  EndedOk(c)'
<1> PICK u \in TaskIds : tasks[u].coin = {c} /\ kdf_tasks[u] = "ok"
  BY DEF EndedOk
<1>1. ASSUME NEW d \in Coins, EnableCoin(d) PROVE EndedOk(c)'
  <2>1. u <= started
    BY DEF SlotsFillInOrder, NoTask, TypeOK, TaskIds
  <2> QED BY <1>1, <2>1 DEF EnableCoin, EndedOk, TypeOK, TaskIds, kdf
<1>2. ASSUME NEW t \in TaskIds, Worker(t) PROVE EndedOk(c)'
  <2>1. kdf_tasks' = kdf_tasks
    BY <1>2 DEF Worker, Answer, InitTask, InitAlreadyActivated, InitRefused, InitLost, Poll, PollOk,
         PollOkError, PollError, PollThrows, PollProgress, Record, While, AfterLoop, AfterError,
         AfterTimeout, AfterComplete, Remove, Announce, Caught, Final, kdf
  <2> QED BY <1>2, <2>1, WorkerStaysInSlot DEF EndedOk
<1>3. ASSUME NEW t \in TaskIds, NEW final \in Finals, KdfEnds(t, final) PROVE EndedOk(c)'
  BY <1>3 DEF KdfEnds, EndedOk, TypeOK
<1>4. CASE tasks' = tasks /\ kdf_tasks' = kdf_tasks
  BY <1>4 DEF EndedOk
<1>5. ASSUME NEW d \in Coins, DisableCoin(d) PROVE tasks' = tasks /\ kdf_tasks' = kdf_tasks
  BY <1>5 DEF DisableCoin, kdf
<1>6. CASE Disabling \/ MarkEnabled \/ DrainPortfolioQueue \/ UNCHANGED vars
  BY <1>4, <1>6 DEF Disabling, KdfDisables, KdfRefuses, ClearEnabled, DisableDone, MarkEnabled,
                    DrainPortfolioQueue, kdf, vars
<1> QED BY <1>1, <1>2, <1>3, <1>4, <1>5, <1>6 DEF Next

LEMMA ReadyStep == TypeOK /\ SlotsFillInOrder /\ ReadyInv /\ [Next]_vars => ReadyInv'
<1> SUFFICES ASSUME TypeOK, SlotsFillInOrder, ReadyInv, [Next]_vars, NEW c \in Coins
             PROVE  Ready(c)' \/ gui'.coin = {c} => EndedOk(c)'
  BY DEF ReadyInv, OkCameFromTask, FirstActivationIsNotInterrupted, EndedOk
<1>1. Ready(c) \/ gui.coin = {c} => EndedOk(c)'
  BY EndedOkStays DEF ReadyInv, OkCameFromTask, FirstActivationIsNotInterrupted, EndedOk
<1>2. ASSUME NEW d \in Coins, DisableCoin(d) PROVE Ready(c)' \/ gui'.coin = {c} => EndedOk(c)'
  BY <1>1, <1>2 DEF DisableCoin, Ready, registry
<1>3. ASSUME NEW t \in TaskIds, Worker(t) PROVE Ready(c)' \/ gui'.coin = {c} => EndedOk(c)'
  <2>1. gui' = gui
    BY <1>3 DEF Worker, Answer, InitTask, InitAlreadyActivated, InitRefused, InitLost, Poll, PollOk,
         PollOkError, PollError, PollThrows, PollProgress, Record, While, AfterLoop, AfterError,
         AfterTimeout, AfterComplete, Remove, Announce, Caught, Final, view
  <2>2. CASE PollOk(t)
    <3>1. t <= started
      BY <1>3, WorkerStaysInSlot
    <3>2. PICK d \in Coins : tasks[t].coin = {d}
      BY <3>1 DEF SlotsFillInOrder
    <3>3. EndedOk(d)
      BY <2>2, <3>2 DEF PollOk, Answered, EndedOk
    <3>4. EndedOk(d)'
      BY <3>3, EndedOkStays
    <3>5. c # d => (Ready(c)' => Ready(c))
      BY <2>2, <3>2 DEF PollOk, Ready, TypeOK
    <3> QED BY <1>1, <2>1, <3>4, <3>5
  <2>3. CASE PollOkError(t) \/ Record(t)
    BY <1>1, <2>1, <2>3 DEF PollOkError, Record, Ready, TypeOK
  <2>4. CASE activation_status' = activation_status
    BY <1>1, <2>1, <2>4 DEF Ready
  <2>5. CASE Answer(t) \/ PollError(t) \/ PollThrows(t) \/ (\E event \in Events \ {"none"} : PollProgress(t, event))
    BY <2>4, <2>5 DEF Answer, InitTask, InitAlreadyActivated, InitRefused, InitLost, PollError,
                      PollThrows, PollProgress, registry
  <2>6. CASE While(t) \/ AfterLoop(t) \/ Remove(t) \/ Announce(t) \/ Caught(t) \/ Final(t)
    BY <2>4, <2>6 DEF While, AfterLoop, AfterError, AfterTimeout, AfterComplete, Remove, Announce,
                      Caught, Final, registry
  <2> QED BY <1>3, <2>2, <2>3, <2>5, <2>6 DEF Worker, Poll
<1>4. CASE activation_status' = activation_status /\ gui'.coin \in {gui.coin, {}}
  BY <1>1, <1>4 DEF Ready
<1>5. ASSUME NEW d \in Coins, EnableCoin(d) PROVE Ready(c)' \/ gui'.coin = {c} => EndedOk(c)'
  BY <1>4, <1>5 DEF EnableCoin, registry, view
<1>6. ASSUME NEW t \in TaskIds, NEW final \in Finals, KdfEnds(t, final)
      PROVE  Ready(c)' \/ gui'.coin = {c} => EndedOk(c)'
  BY <1>4, <1>6 DEF KdfEnds, registry, view
<1>7. CASE Disabling \/ MarkEnabled \/ DrainPortfolioQueue \/ UNCHANGED vars
  BY <1>4, <1>7 DEF Disabling, KdfDisables, KdfRefuses, ClearEnabled, DisableDone, MarkEnabled,
                    DrainPortfolioQueue, registry, view, vars, TypeOK
<1> QED BY <1>1, <1>2, <1>3, <1>4, <1>5, <1>6, <1>7 DEF Next

\* A coin whose first activation is under way cannot be disabled.
THEOREM FirstActivationRunsOn == Spec => []FirstActivationIsNotInterrupted
<1>1. Init => TypeOK /\ SlotsFillInOrder /\ ReadyInv
  BY TypeInit, SlotsInit, ReadyInit
<1>2. TypeOK /\ SlotsFillInOrder /\ ReadyInv /\ [Next]_vars => (TypeOK /\ SlotsFillInOrder /\ ReadyInv)'
  BY TypeStep, SlotsStep, ReadyStep
<1>3. ReadyInv => FirstActivationIsNotInterrupted
  BY DEF ReadyInv
<1> QED BY <1>1, <1>2, <1>3, PTL DEF Spec

-----------------------------------------------------------------------------
(* The shared counter.                                                     *)

\* The activations that may still count a try, whatever the counter says.
Armed == {t \in TaskIds : tasks[t].pc \in {"init", "poll", "record"}}

TriesFit == z_nb_try + Cardinality(Armed) <= MaxTries + started

LEMMA ArmedIsFinite ==
    ASSUME TypeOK
    PROVE  IsFiniteSet(Armed) /\ Cardinality(Armed) \in Nat
<1>1. IsFiniteSet(TaskIds)
  BY ZhtlcAssumption, FS_Interval DEF TaskIds
<1> QED BY <1>1, FS_Subset, FS_CardinalityType DEF Armed

LEMMA TriesInit == Init => TriesFit
<1> SUFFICES ASSUME Init PROVE TriesFit
  OBVIOUS
<1>1. Armed = {}
  BY DEF Init, Armed, NoTask
<1> QED BY <1>1, FS_EmptySet, ZhtlcAssumption DEF Init, TriesFit

LEMMA TriesStep == TypeOK /\ SlotsFillInOrder /\ TriesFit /\ [Next]_vars => TriesFit'
<1> SUFFICES ASSUME TypeOK, SlotsFillInOrder, TriesFit, [Next]_vars PROVE TriesFit'
  OBVIOUS
<1> USE ZhtlcAssumption
<1>0. /\ IsFiniteSet(Armed) /\ Cardinality(Armed) \in Nat
      /\ z_nb_try \in Nat /\ started \in Nat
  BY ArmedIsFinite DEF TypeOK
<1>1. ASSUME NEW c \in Coins, EnableCoin(c) PROVE TriesFit'
  <2>1. Armed' = Armed \cup {started + 1}
    BY <1>1 DEF EnableCoin, Armed, TypeOK, TaskIds, Task
  <2>2. Cardinality(Armed') = Cardinality(Armed) + 1
    <3>1. started + 1 \notin Armed
      BY <1>0 DEF Armed, SlotsFillInOrder, NoTask
    <3> QED BY <1>0, <2>1, <3>1, FS_AddElement
  <2>3. IsFiniteSet(Armed') /\ Cardinality(Armed') \in Nat
    BY <1>0, <2>1, FS_AddElement, FS_CardinalityType
  <2> QED BY <1>0, <1>1, <2>2, <2>3 DEF EnableCoin, TriesFit
<1>2. ASSUME NEW t \in TaskIds, Record(t) PROVE TriesFit'
  <2>1. Armed' = Armed \ {t} /\ t \in Armed
    BY <1>2 DEF Record, Armed, TypeOK, Task
  <2>2. Cardinality(Armed') = Cardinality(Armed) - 1
    BY <1>0, <2>1, FS_RemoveElement
  <2> QED BY <1>0, <1>2, <2>2 DEF Record, TriesFit
<1>3. ASSUME NEW t \in TaskIds, While(t), TriesLeft PROVE TriesFit'
  <2>1. Armed' = Armed \cup {t} /\ t \notin Armed
    BY <1>3 DEF While, Goto, Armed, TypeOK, Task
  <2>2. Cardinality(Armed') = Cardinality(Armed) + 1
    BY <1>0, <2>1, FS_AddElement
  <2>3. Armed \in SUBSET ((1..started) \ {t})
    BY <2>1 DEF Armed, SlotsFillInOrder, NoTask, TypeOK, TaskIds
  <2>4. t \in 1..started
    BY <1>3 DEF While, SlotsFillInOrder, NoTask, TypeOK, TaskIds
  <2>5. IsFiniteSet((1..started) \ {t}) /\ Cardinality((1..started) \ {t}) = started - 1
    <3>1. IsFiniteSet(1..started) /\ Cardinality(1..started) = started
      BY <1>0, FS_Interval
    <3> QED BY <2>4, <3>1, FS_RemoveElement
  <2>6. Cardinality(Armed) <= started - 1
    BY <2>3, <2>5, FS_Subset
  <2> QED BY <1>0, <1>3, <2>2, <2>6 DEF While, TriesLeft, TriesFit
<1>4. CASE Armed' = Armed /\ z_nb_try' = z_nb_try /\ started' = started
  BY <1>4 DEF TriesFit
<1>5. ASSUME NEW t \in TaskIds, Worker(t), Armed' \subseteq Armed, z_nb_try' = z_nb_try, started' = started
      PROVE  TriesFit'
  <2>1. Cardinality(Armed') <= Cardinality(Armed) /\ Cardinality(Armed') \in Nat
    BY <1>0, <1>5, FS_Subset, FS_CardinalityType
  <2> QED BY <1>0, <1>5, <2>1 DEF TriesFit
<1>6. ASSUME NEW t \in TaskIds, Worker(t), ~ Record(t), ~ (While(t) /\ TriesLeft)
      PROVE  Armed' \subseteq Armed /\ z_nb_try' = z_nb_try /\ started' = started
  <2>1. CASE Answer(t)
    BY <2>1 DEF Answer, InitTask, InitAlreadyActivated, InitRefused, InitLost, Goto, Armed, TypeOK, Task
  <2>2. CASE Poll(t)
    BY <2>2 DEF Poll, PollOk, PollOkError, PollError, PollThrows, PollProgress, Goto, Armed, TypeOK, Task
  <2>3. CASE While(t)
    BY <1>6, <2>3 DEF While, Goto, Armed, TypeOK, Task
  <2>4. CASE AfterLoop(t) \/ Remove(t) \/ Announce(t) \/ Caught(t) \/ Final(t)
    BY <2>4 DEF AfterLoop, AfterError, AfterTimeout, AfterComplete, Remove, Announce, Caught, Final,
                Goto, Armed, TypeOK, Task
  <2> QED BY <1>6, <2>1, <2>2, <2>3, <2>4 DEF Worker
<1>7. ASSUME NEW t \in TaskIds, Worker(t) PROVE TriesFit'
  BY <1>2, <1>3, <1>5, <1>6, <1>7
<1>8. ASSUME NEW c \in Coins, DisableCoin(c) PROVE TriesFit'
  BY <1>4, <1>8 DEF DisableCoin, Armed
<1>9. CASE Disabling \/ MarkEnabled \/ DrainPortfolioQueue \/ UNCHANGED vars
  BY <1>4, <1>9 DEF Disabling, KdfDisables, KdfRefuses, ClearEnabled, DisableDone, MarkEnabled,
                    DrainPortfolioQueue, vars, Armed
<1>10. ASSUME NEW t \in TaskIds, NEW final \in Finals, KdfEnds(t, final) PROVE TriesFit'
  BY <1>4, <1>10 DEF KdfEnds, Armed
<1> QED BY <1>1, <1>7, <1>8, <1>9, <1>10 DEF Next

\* The counter passes its limit by at most the number of activations.
THEOREM CounterStaysBounded == Spec => []CounterIsBounded
<1>1. Init => TypeOK /\ SlotsFillInOrder /\ TriesFit
  BY TypeInit, SlotsInit, TriesInit
<1>2. TypeOK /\ SlotsFillInOrder /\ TriesFit /\ [Next]_vars => (TypeOK /\ SlotsFillInOrder /\ TriesFit)'
  BY TypeStep, SlotsStep, TriesStep
<1>3. TypeOK /\ TriesFit => CounterIsBounded
  BY ArmedIsFinite, ZhtlcAssumption DEF TypeOK, TriesFit, CounterIsBounded
<1> QED BY <1>1, <1>2, <1>3, PTL DEF Spec
=============================================================================
