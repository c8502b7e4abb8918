------------------------ MODULE CoinActivation_proofs ------------------------
(***************************************************************************)
(* Proofs about CoinActivation, for any coins, families and bounds: the    *)
(* type invariant, that no enabled coin goes missing unless the daemon     *)
(* refused to disable it, and that the service, the portfolio, the daemon  *)
(* and the coins file agree once nothing is under way.                     *)
(***************************************************************************)
EXTENDS CoinActivation, SequenceTheorems, TLAPS

\* A slot activate_coins writes to holds no batch.
LEMMA FreeSlotIsFree ==
    ASSUME NEW f, FreeSlots(f) # {}
    PROVE  /\ FreeSlot(f) \in 1..MaxInFlight
           /\ batches[<<f, FreeSlot(f)>>].pc = "idle"
BY DEF FreeSlot, FreeSlots

\* What update() takes from the head of the queue, and what it leaves.
LEMMA TakenAndRemaining ==
    ASSUME activation_queue \in Seq(Coins)
    PROVE  /\ Taken \subseteq Coins
           /\ Remaining \in Seq(Coins)
<1>1. TakeCount \in 0..Len(activation_queue)
  BY BoundsAssumption DEF TakeCount
<1>2. Taken \subseteq Coins
  BY <1>1 DEF Taken
<1>3. Remaining \in Seq(Coins)
  <2>1. CASE TakeCount = Len(activation_queue)
    BY <2>1, <1>1, SubSeqProperties DEF Remaining
  <2>2. CASE TakeCount < Len(activation_queue)
    BY <2>2, <1>1, SubSeqProperties DEF Remaining
  <2> QED BY <2>1, <2>2, <1>1
<1> QED BY <1>2, <1>3

LEMMA NoBatchIsBatch == NoBatch \in Batch
BY DEF NoBatch, Batch

LEMMA GuiIdleIsGui == GuiIdle \in Gui
BY DEF GuiIdle, Gui

-----------------------------------------------------------------------------
(* Type correctness.                                                       *)

LEMMA TypeInit == Init => TypeOK
<1> SUFFICES ASSUME Init PROVE TypeOK
  OBVIOUS
<1> USE CoinsAssumption, BoundsAssumption
<1>1. batches \in [BatchIds -> Batch]
  BY NoBatchIsBatch DEF Init
<1>2. gui \in Gui
  BY GuiIdleIsGui DEF Init
<1>3. activation_queue \in Seq(Coins)
  BY DEF Init
<1>4. commands \in 0..MaxCommands
  BY DEF Init
<1>5. /\ active \in SUBSET Coins
      /\ coins_file \in SUBSET Coins
      /\ init_todo \in SUBSET Coins
  BY DEF Init
<1> QED BY <1>1, <1>2, <1>3, <1>4, <1>5 DEF Init, TypeOK

LEMMA TypeStep == TypeOK /\ [Next]_vars => TypeOK'
<1> SUFFICES ASSUME TypeOK, [Next]_vars PROVE TypeOK'
  OBVIOUS
<1> USE CoinsAssumption, BoundsAssumption
<1>1. ASSUME NEW c \in Coins, EnableDefaultCoin(c) PROVE TypeOK'
  BY <1>1 DEF TypeOK, EnableDefaultCoin, Enqueue
<1>2. CASE KdfStarted
  BY <1>2 DEF TypeOK, KdfStarted
<1>3. CASE EnableCoins
  <2> PICK request \in SUBSET Coins :
         gui' = [GuiIdle EXCEPT !.pc = "enabling",
                   !.todo = (request \cup ExtraCoins(request)) \ currently_enabled]
    BY <1>3 DEF EnableCoins
  <2>1. ExtraCoins(request) \subseteq Coins
    BY DEF ExtraCoins
  <2>2. gui' \in Gui
    BY <2>1 DEF Gui, GuiIdle
  <2> QED BY <1>3, <2>2 DEF TypeOK, EnableCoins
<1>4. ASSUME NEW c \in Coins, EnableOne(c) PROVE TypeOK'
  <2>1. gui' \in Gui
    BY <1>4 DEF TypeOK, EnableOne, Gui
  <2> QED BY <1>4, <2>1 DEF TypeOK, EnableOne, Enqueue
<1>5. CASE EnableDone
  BY <1>5, GuiIdleIsGui DEF TypeOK, EnableDone
<1>6. CASE DisableCoins
  <2>1. gui' \in Gui
    BY <1>6 DEF TypeOK, DisableCoins, Disableable, Gui
  <2> QED BY <1>6, <2>1 DEF TypeOK, DisableCoins, Disableable
<1>7. ASSUME NEW c \in Coins, DisableOne(c) PROVE TypeOK'
  <2>1. gui' \in Gui
    BY <1>7 DEF TypeOK, DisableOne, Gui
  <2> QED BY <1>7, <2>1 DEF TypeOK, DisableOne
<1>8. CASE KdfDisables
  <2>1. gui' \in Gui
    BY <1>8 DEF TypeOK, KdfDisables, Gui
  <2> QED BY <1>8, <2>1 DEF TypeOK, KdfDisables
<1>9. CASE KdfRefuses
  <2>1. gui' \in Gui /\ gui.coin \subseteq Coins
    BY <1>9 DEF TypeOK, KdfRefuses, Gui
  <2> QED BY <1>9, <2>1 DEF TypeOK, KdfRefuses
<1>10. CASE ClearEnabled
  <2>1. gui' \in Gui
    BY <1>10 DEF TypeOK, ClearEnabled, Gui
  <2> QED BY <1>10, <2>1 DEF TypeOK, ClearEnabled, FlagAfterDisable
<1>11. CASE DisableDone
  BY <1>11, GuiIdleIsGui DEF TypeOK, DisableDone, Deactivated
<1>12. CASE UpdateActivation
  <2>1. Taken \subseteq Coins /\ activation_queue' \in Seq(Coins)
    BY <1>12, TakenAndRemaining DEF TypeOK, UpdateActivation
  <2>2. ASSUME NEW f PROVE Sent(OfFamily(Taken, f)) \in Batch
    BY <2>1 DEF Sent, NoBatch, Batch, OfFamily
  <2>3. batches' \in [BatchIds -> Batch]
    BY <1>12, <2>2 DEF TypeOK, UpdateActivation
  <2> QED BY <1>12, <2>1, <2>3 DEF TypeOK, UpdateActivation, Unmarked
<1>13. ASSUME NEW b \in BatchIds, KdfAnswers(b) PROVE TypeOK'
  <2> PICK activated \in SUBSET batches[b].coins, failed \in SUBSET batches[b].coins :
         /\ kdf_coins' = kdf_coins \cup activated
         /\ batches' = [batches EXCEPT ![b] =
                          [pc |-> "answers", coins |-> @.coins, activated |-> activated,
                           failed |-> failed, todo |-> activated \ kdf_coins]]
    BY <1>13 DEF KdfAnswers
  <2>1. batches[b].coins \subseteq Coins
    BY DEF TypeOK, Batch
  <2>2. batches' \in [BatchIds -> Batch]
    BY <2>1 DEF TypeOK, Batch
  <2> QED BY <1>13, <2>1, <2>2 DEF TypeOK, KdfAnswers
<1>14. ASSUME NEW b \in BatchIds, AnswerLost(b) PROVE TypeOK'
  <2>1. batches[b].coins \subseteq Coins
    BY DEF TypeOK, Batch
  <2>2. batches' \in [BatchIds -> Batch]
    BY <1>14, NoBatchIsBatch DEF TypeOK, AnswerLost
  <2> QED BY <1>14, <2>1, <2>2 DEF TypeOK, AnswerLost
<1>15. ASSUME NEW b \in BatchIds, NEW c \in Coins, MarkEnabled(b, c) PROVE TypeOK'
  <2>1. batches' \in [BatchIds -> Batch]
    BY <1>15 DEF TypeOK, MarkEnabled, Batch
  <2> QED BY <1>15, <2>1 DEF TypeOK, MarkEnabled
<1>16. ASSUME NEW b \in BatchIds, AnswersRead(b) PROVE TypeOK'
  <2>1. [batches[b] EXCEPT !.pc = "enable", !.todo = batches[b].activated] \in Batch
    BY DEF TypeOK, Batch
  <2>2. batches' \in [BatchIds -> Batch]
    BY <1>16, <2>1 DEF TypeOK, AnswersRead
  <2> QED BY <1>16, <2>2 DEF TypeOK, AnswersRead
<1>17. ASSUME NEW b \in BatchIds, CoinFullyInitialized(b) PROVE TypeOK'
  <2>1. [batches[b] EXCEPT !.pc = "fail", !.todo = batches[b].failed] \in Batch
    BY DEF TypeOK, Batch
  <2>2. batches' \in [BatchIds -> Batch]
    BY <1>17, <2>1, NoBatchIsBatch DEF TypeOK, CoinFullyInitialized, FreedAtEnd
  <2>3. Announced(batches[b]) \subseteq Coins
    BY DEF TypeOK, Batch, Announced
  <2> QED BY <1>17, <2>2, <2>3 DEF TypeOK, CoinFullyInitialized
<1>18. ASSUME NEW b \in BatchIds, NEW c \in Coins, ClearFailed(b, c) PROVE TypeOK'
  <2>1. [batches[b] EXCEPT !.todo = batches[b].todo \ {c}] \in Batch
    BY DEF TypeOK, Batch
  <2>2. batches' \in [BatchIds -> Batch]
    BY <1>18, <2>1, NoBatchIsBatch DEF TypeOK, ClearFailed, FreedAtEnd
  <2> QED BY <1>18, <2>2 DEF TypeOK, ClearFailed
<1>19. CASE DrainPortfolioQueue
  BY <1>19 DEF TypeOK, DrainPortfolioQueue, PrimaryCoins
<1>20. CASE UNCHANGED vars
  BY <1>20 DEF TypeOK, vars
<1> QED
  BY <1>1, <1>2, <1>3, <1>4, <1>5, <1>6, <1>7, <1>8, <1>9, <1>10, <1>11, <1>12,
     <1>13, <1>14, <1>15, <1>16, <1>17, <1>18, <1>19, <1>20
  DEF Next, InitThread, GuiCommand, GuiStep, DisableAnswer, BatchAnswer, Callback

\* Every variable of the activation machinery keeps its type.
THEOREM TypeCorrect == Spec => []TypeOK
BY TypeInit, TypeStep, PTL DEF Spec

-----------------------------------------------------------------------------
(* No enabled coin goes missing.  The invariant is not inductive alone: a  *)
(* callback must only flag coins it will announce.                         *)

FlagsOnlyAnnounced ==
    \A b \in BatchIds :
        batches[b].pc \in {"answers", "enable"} => batches[b].todo \subseteq batches[b].activated

IInv == TypeOK /\ FlagsOnlyAnnounced /\ EnabledCoinsAccountedFor

LEMMA FlagsInit == Init => FlagsOnlyAnnounced
BY DEF Init, FlagsOnlyAnnounced, NoBatch

LEMMA FlagsStep == TypeOK /\ FlagsOnlyAnnounced /\ [Next]_vars => FlagsOnlyAnnounced'
<1> SUFFICES ASSUME TypeOK, FlagsOnlyAnnounced, [Next]_vars, NEW d \in BatchIds,
                    batches'[d].pc \in {"answers", "enable"}
             PROVE  batches'[d].todo \subseteq batches'[d].activated
  BY DEF FlagsOnlyAnnounced
<1> DEFINE Kept == batches'[d] = batches[d]
<1>1. CASE Kept
  BY <1>1 DEF FlagsOnlyAnnounced
<1>2. CASE UpdateActivation
  <2>1. batches'[d] = Sent(OfFamily(Taken, d[1])) \/ Kept
    BY <1>2 DEF UpdateActivation
  <2>2. Sent(OfFamily(Taken, d[1])).pc = "sent"
    BY DEF Sent, NoBatch
  <2> QED BY <1>1, <2>1, <2>2
<1>3. ASSUME NEW b \in BatchIds, KdfAnswers(b) PROVE batches'[d].todo \subseteq batches'[d].activated
  BY <1>1, <1>3 DEF KdfAnswers, TypeOK
<1>4. ASSUME NEW b \in BatchIds, AnswerLost(b) PROVE batches'[d].todo \subseteq batches'[d].activated
  BY <1>1, <1>4 DEF AnswerLost, TypeOK, NoBatch
<1>5. ASSUME NEW b \in BatchIds, NEW c \in Coins, MarkEnabled(b, c)
      PROVE  batches'[d].todo \subseteq batches'[d].activated
  BY <1>1, <1>5 DEF MarkEnabled, TypeOK, Batch, FlagsOnlyAnnounced
<1>6. ASSUME NEW b \in BatchIds, AnswersRead(b) PROVE batches'[d].todo \subseteq batches'[d].activated
  <2>1. CASE d = b
    <3>1. batches'[d] = [batches[b] EXCEPT !.pc = "enable", !.todo = batches[b].activated]
      BY <1>6, <2>1 DEF AnswersRead, TypeOK
    <3> QED BY <3>1 DEF TypeOK, Batch
  <2>2. CASE d # b
    BY <1>1, <1>6, <2>2 DEF AnswersRead, TypeOK
  <2> QED BY <2>1, <2>2
<1>7. ASSUME NEW b \in BatchIds, CoinFullyInitialized(b)
      PROVE  batches'[d].todo \subseteq batches'[d].activated
  <2>1. CASE d = b
    <3> DEFINE ended == [batches[b] EXCEPT !.pc = "fail", !.todo = batches[b].failed]
    <3>1. batches'[d] = FreedAtEnd(ended)
      BY <1>7, <2>1 DEF CoinFullyInitialized, TypeOK
    <3>2. ended.pc = "fail" /\ NoBatch.pc = "idle"
      BY DEF TypeOK, Batch, NoBatch
    <3> QED BY <3>1, <3>2 DEF FreedAtEnd
  <2>2. CASE d # b
    BY <1>1, <1>7, <2>2 DEF CoinFullyInitialized, TypeOK
  <2> QED BY <2>1, <2>2
<1>8. ASSUME NEW b \in BatchIds, NEW c \in Coins, ClearFailed(b, c)
      PROVE  batches'[d].todo \subseteq batches'[d].activated
  <2>1. CASE d = b
    <3> DEFINE popped == [batches[b] EXCEPT !.todo = batches[b].todo \ {c}]
    <3>1. batches'[d] = FreedAtEnd(popped)
      BY <1>8, <2>1 DEF ClearFailed, TypeOK
    <3>2. popped.pc = "fail" /\ NoBatch.pc = "idle"
      BY <1>8 DEF ClearFailed, TypeOK, Batch, NoBatch
    <3> QED BY <3>1, <3>2 DEF FreedAtEnd
  <2>2. CASE d # b
    BY <1>1, <1>8, <2>2 DEF ClearFailed, TypeOK
  <2> QED BY <2>1, <2>2
<1>9. CASE UNCHANGED batches
  BY <1>1, <1>9
<1> QED
  BY <1>2, <1>3, <1>4, <1>5, <1>6, <1>7, <1>8, <1>9
  DEF Next, InitThread, GuiCommand, GuiStep, DisableAnswer, BatchAnswer, Callback,
      EnableDefaultCoin, KdfStarted, EnableCoins, EnableOne, EnableDone, DisableCoins,
      DisableOne, KdfDisables, KdfRefuses, ClearEnabled, DisableDone,
      DrainPortfolioQueue, vars

LEMMA AccountedInit == Init => EnabledCoinsAccountedFor
BY DEF Init, EnabledCoinsAccountedFor

\* An announcement a step leaves in place.
LEMMA AnnouncementKept ==
    ASSUME NEW c, NEW b \in BatchIds, WillAnnounce(b, c),
           batches'[b].pc \in {"answers", "enable"},
           batches'[b].activated = batches[b].activated
    PROVE  IsAccountedFor(c)'
BY DEF WillAnnounce, IsAccountedFor

LEMMA AccountedStep == IInv /\ [Next]_vars => EnabledCoinsAccountedFor'
<1> SUFFICES ASSUME TypeOK, FlagsOnlyAnnounced, EnabledCoinsAccountedFor, [Next]_vars,
                    NEW c \in currently_enabled'
             PROVE  IsAccountedFor(c)'
  BY DEF IInv, EnabledCoinsAccountedFor
<1> USE DEF EnabledCoinsAccountedFor
<1>0. ASSUME c \in currently_enabled,
             rows \subseteq rows', portfolio_queue \subseteq portfolio_queue',
             refused \subseteq refused', UNCHANGED <<batches, gui>>
      PROVE  IsAccountedFor(c)'
  BY <1>0 DEF IsAccountedFor, WillAnnounce, IsBeingDisabled
<1>1. ASSUME NEW x \in Coins, EnableDefaultCoin(x) PROVE IsAccountedFor(c)'
  BY <1>0, <1>1 DEF EnableDefaultCoin
<1>2. CASE KdfStarted
  BY <1>0, <1>2 DEF KdfStarted
<1>3. CASE EnableCoins
  BY <1>3 DEF EnableCoins, IsAccountedFor, WillAnnounce, IsBeingDisabled
<1>4. ASSUME NEW x \in Coins, EnableOne(x) PROVE IsAccountedFor(c)'
  BY <1>4 DEF EnableOne, IsAccountedFor, WillAnnounce, IsBeingDisabled
<1>5. CASE EnableDone
  BY <1>5 DEF EnableDone, IsAccountedFor, WillAnnounce, IsBeingDisabled
<1>6. CASE DisableCoins
  <2> PICK request \in SUBSET rows :
         /\ rows' = rows \ request
         /\ gui' = [pc |-> "disabling", todo |-> request, asked |-> request, coin |-> {}]
    BY <1>6 DEF DisableCoins, Disableable
  <2>1. CASE c \in request
    BY <2>1 DEF IsAccountedFor, IsBeingDisabled
  <2>2. CASE c \notin request
    BY <1>6, <2>2 DEF DisableCoins, IsAccountedFor, WillAnnounce, IsBeingDisabled
  <2> QED BY <2>1, <2>2
<1>7. ASSUME NEW x \in Coins, DisableOne(x) PROVE IsAccountedFor(c)'
  BY <1>7 DEF DisableOne, IsAccountedFor, WillAnnounce, IsBeingDisabled, TypeOK, Gui
<1>8. CASE KdfDisables
  BY <1>8 DEF KdfDisables, IsAccountedFor, WillAnnounce, IsBeingDisabled, TypeOK, Gui
<1>9. CASE KdfRefuses
  BY <1>9 DEF KdfRefuses, IsAccountedFor, WillAnnounce, IsBeingDisabled, TypeOK, Gui
<1>10. CASE ClearEnabled
  BY <1>10 DEF ClearEnabled, FlagAfterDisable, IsAccountedFor, WillAnnounce, IsBeingDisabled,
               TypeOK, Gui
<1>11. CASE DisableDone
  BY <1>11 DEF DisableDone, IsAccountedFor, WillAnnounce, IsBeingDisabled
<1>12. CASE UpdateActivation
  <2>1. ASSUME NEW b \in BatchIds, batches[b].pc # "idle" PROVE batches'[b] = batches[b]
    <3>1. PICK f \in Families, n \in 1..MaxInFlight : b = <<f, n>>
      BY DEF BatchIds
    <3>2. ~(OfFamily(Taken, f) # {} /\ n = FreeSlot(f))
      BY <1>12, <2>1, <3>1, FreeSlotIsFree DEF UpdateActivation
    <3> QED BY <1>12, <3>1, <3>2 DEF UpdateActivation
  <2>2. ASSUME NEW b \in BatchIds, WillAnnounce(b, c) PROVE IsAccountedFor(c)'
    BY <2>1, <2>2, AnnouncementKept DEF WillAnnounce
  <2> QED BY <1>12, <2>2 DEF UpdateActivation, IsAccountedFor, IsBeingDisabled
<1>13. ASSUME NEW b \in BatchIds, batches[b].pc = "sent", c \in currently_enabled,
              UNCHANGED <<rows, portfolio_queue, refused, gui>>,
              \A d \in BatchIds \ {b} : batches'[d] = batches[d]
       PROVE  IsAccountedFor(c)'
  <2>1. ASSUME NEW d \in BatchIds, WillAnnounce(d, c) PROVE IsAccountedFor(c)'
    BY <1>13, <2>1, AnnouncementKept DEF WillAnnounce
  <2> QED BY <1>13, <2>1 DEF IsAccountedFor, IsBeingDisabled
<1>14. ASSUME NEW b \in BatchIds, KdfAnswers(b) PROVE IsAccountedFor(c)'
  BY <1>13, <1>14 DEF KdfAnswers, TypeOK
<1>15. ASSUME NEW b \in BatchIds, AnswerLost(b) PROVE IsAccountedFor(c)'
  BY <1>13, <1>15 DEF AnswerLost, TypeOK
<1>16. ASSUME NEW b \in BatchIds, NEW x \in Coins, MarkEnabled(b, x) PROVE IsAccountedFor(c)'
  <2>1. /\ \A d \in BatchIds : /\ batches'[d].pc = batches[d].pc
                               /\ batches'[d].activated = batches[d].activated
    BY <1>16 DEF MarkEnabled, TypeOK, Batch
  <2>2. ASSUME NEW d \in BatchIds, WillAnnounce(d, c) PROVE IsAccountedFor(c)'
    BY <2>1, <2>2, AnnouncementKept DEF WillAnnounce
  <2>3. CASE c = x
    <3>1. WillAnnounce(b, x)
      BY <1>16 DEF MarkEnabled, FlagsOnlyAnnounced, WillAnnounce
    <3> QED BY <2>2, <2>3, <3>1
  <2>4. CASE c # x
    BY <1>16, <2>2, <2>4 DEF MarkEnabled, IsAccountedFor, IsBeingDisabled
  <2> QED BY <2>3, <2>4
<1>17. ASSUME NEW b \in BatchIds, AnswersRead(b) PROVE IsAccountedFor(c)'
  <2>1. ASSUME NEW d \in BatchIds, WillAnnounce(d, c) PROVE IsAccountedFor(c)'
    <3>1. CASE d = b
      <4>1. batches'[b] = [batches[b] EXCEPT !.pc = "enable", !.todo = batches[b].activated]
        BY <1>17 DEF AnswersRead, TypeOK
      <4>2. batches'[b].pc = "enable" /\ batches'[b].activated = batches[b].activated
        BY <4>1 DEF TypeOK, Batch
      <4> QED BY <2>1, <3>1, <4>2, AnnouncementKept
    <3>2. CASE d # b
      BY <1>17, <2>1, <3>2, AnnouncementKept DEF AnswersRead, TypeOK, WillAnnounce
    <3> QED BY <3>1, <3>2
  <2> QED BY <1>17, <2>1 DEF AnswersRead, IsAccountedFor, IsBeingDisabled
<1>18. ASSUME NEW b \in BatchIds, CoinFullyInitialized(b) PROVE IsAccountedFor(c)'
  <2>1. ASSUME NEW d \in BatchIds, WillAnnounce(d, c) PROVE IsAccountedFor(c)'
    <3>1. CASE d = b
      BY <1>18, <2>1, <3>1 DEF CoinFullyInitialized, Announced, WillAnnounce, IsAccountedFor
    <3>2. CASE d # b
      BY <1>18, <2>1, <3>2, AnnouncementKept DEF CoinFullyInitialized, TypeOK, WillAnnounce
    <3> QED BY <3>1, <3>2
  <2> QED BY <1>18, <2>1 DEF CoinFullyInitialized, IsAccountedFor, IsBeingDisabled
<1>19. ASSUME NEW b \in BatchIds, NEW x \in Coins, ClearFailed(b, x) PROVE IsAccountedFor(c)'
  <2>1. ASSUME NEW d \in BatchIds, WillAnnounce(d, c) PROVE IsAccountedFor(c)'
    BY <1>19, <2>1, AnnouncementKept DEF ClearFailed, TypeOK, WillAnnounce
  <2> QED BY <1>19, <2>1 DEF ClearFailed, IsAccountedFor, IsBeingDisabled
<1>20. CASE DrainPortfolioQueue
  BY <1>20 DEF DrainPortfolioQueue, IsAccountedFor, WillAnnounce, IsBeingDisabled
<1>21. CASE UNCHANGED vars
  BY <1>0, <1>21 DEF vars
<1> QED
  BY <1>1, <1>2, <1>3, <1>4, <1>5, <1>6, <1>7, <1>8, <1>9, <1>10, <1>11, <1>12,
     <1>14, <1>15, <1>16, <1>17, <1>18, <1>19, <1>20, <1>21
  DEF Next, InitThread, GuiCommand, GuiStep, DisableAnswer, BatchAnswer, Callback

\* Whatever the daemon answers and however callbacks and commands interleave,
\* an enabled coin is missing from the portfolio only if the daemon refused to
\* disable it.
THEOREM NoEnabledCoinGoesMissing == Spec => []EnabledCoinsAccountedFor
<1>1. Init => IInv
  BY TypeInit, FlagsInit, AccountedInit DEF IInv
<1>2. IInv /\ [Next]_vars => IInv'
  BY TypeStep, FlagsStep, AccountedStep DEF IInv
<1>3. IInv => EnabledCoinsAccountedFor
  BY DEF IInv
<1> QED BY <1>1, <1>2, <1>3, PTL DEF Spec

-----------------------------------------------------------------------------
(* Service, portfolio and daemon agree.  A coin is single when it was      *)
(* never asked for twice at a time: it is in one place on its way, from    *)
(* the queue to the portfolio and, when it is disabled, out of it.         *)

Single == Coins \ overlapped

Waiting(c) ==
    \/ c \in SeqSet(activation_queue)
    \/ \E b \in BatchIds : batches[b].pc = "sent" /\ c \in batches[b].coins

HasAnswers(b) == batches[b].pc \in {"answers", "enable", "fail"}

Failed(c) == \E b \in BatchIds : HasAnswers(b) /\ c \in batches[b].failed

Announcing(c) == \E b \in BatchIds : WillAnnounce(b, c)

\* A batch has an answer for each of its coins, two only for a coin asked for twice.
AnswersFit ==
    \A b \in BatchIds :
        /\ batches[b].pc = "idle" => batches[b].coins = {}
        /\ HasAnswers(b) => /\ batches[b].activated \cup batches[b].failed = batches[b].coins
                            /\ batches[b].activated \cap batches[b].failed \subseteq overlapped
        /\ batches[b].pc = "fail" => batches[b].todo \subseteq batches[b].failed

QueuedOnce ==
    \A i, j \in DOMAIN activation_queue :
        i # j /\ activation_queue[i] = activation_queue[j] => activation_queue[i] \in overlapped

SentOnce ==
    \A c \in Single, b \in BatchIds : c \in batches[b].coins =>
        /\ c \notin SeqSet(activation_queue)
        /\ \A d \in BatchIds : c \in batches[d].coins => d = b

\* What waits for its answer, or was answered with an error, is not enabled.
DownBeforeAnswer == \A c \in Single : Waiting(c) \/ Failed(c) => c \notin currently_enabled

\* A callback announces a coin once it has flagged it.
FlaggedBeforeAnnounced ==
    \A b \in BatchIds : batches[b].pc = "enable" =>
        batches[b].activated \ batches[b].todo \subseteq currently_enabled \cup overlapped

\* What was announced stays enabled until the daemon has disabled it.
UpUntilDisabled ==
    \A c \in Single :
        /\ c \in rows \cup portfolio_queue \cup refused \/ IsBeingDisabled(c) => c \in currently_enabled
        /\ c \in rows \cup portfolio_queue \/ Announcing(c) => c \in kdf_coins

\* A coin that is being disabled has left the portfolio, and none comes back to it
\* before it is enabled anew.
OnePlace ==
    \A c \in Single :
        /\ Announcing(c) => c \notin rows \cup portfolio_queue \cup refused /\ ~IsBeingDisabled(c)
        /\ c \in portfolio_queue => c \notin rows \cup refused /\ ~IsBeingDisabled(c)
        /\ c \in refused => c \notin rows /\ ~IsBeingDisabled(c)
        /\ IsBeingDisabled(c) => c \notin rows

\* The coin the GUI thread waits for is one of those still to disable.
GuiFits ==
    /\ gui.pc \in {"disabling", "disable_rpc", "disabled"} =>
         gui.coin \subseteq gui.todo /\ gui.todo \subseteq gui.asked
    /\ gui.pc = "disabling" => gui.coin = {}

\* The primary coins are asked for once, at login.
PrimaryAskedOnce ==
    /\ PrimaryDexCoins \cap (overlapped \cup gui.asked) = {}
    /\ PrimaryDexCoins \subseteq active
    /\ gui.pc = "enabling" => PrimaryDexCoins \cap gui.todo = {}
    /\ \A c \in PrimaryDexCoins \cap init_todo : c \notin Pending \cup currently_enabled
    /\ fully_enabled \subseteq rows

\* A coin saved as active is enabled, or is about to be saved as inactive.
SavedUntilDisabled ==
    \A c \in coins_file \ SavedActive :
        \/ c \in currently_enabled \cup overlapped
        \/ gui.pc \in {"disabling", "disable_rpc", "disabled"} /\ c \in gui.asked

PlacesInv ==
    /\ AnswersFit
    /\ QueuedOnce
    /\ SentOnce
    /\ DownBeforeAnswer
    /\ FlaggedBeforeAnnounced
    /\ UpUntilDisabled
    /\ OnePlace
    /\ GuiFits
    /\ PrimaryAskedOnce
    /\ SavedUntilDisabled

-----------------------------------------------------------------------------
(* What the operations do to the queue, to the GUI thread and to a batch.  *)

LEMMA QueueGrows ==
    ASSUME TypeOK, NEW c \in Coins, Enqueue(c), QueuedOnce
    PROVE  SeqSet(activation_queue') = SeqSet(activation_queue) \cup {c} /\ QueuedOnce'
<1> DEFINE q == activation_queue
<1>1. /\ q \in Seq(Coins) /\ activation_queue' = Append(q, c)
      /\ DOMAIN q = 1..Len(q) /\ Len(q) \in Nat /\ DOMAIN activation_queue' = 1..Len(q) + 1
      /\ \A i \in 1..Len(q) : activation_queue'[i] = q[i]
      /\ activation_queue'[Len(q) + 1] = c
  BY DEF TypeOK, Enqueue
<1>2. SeqSet(activation_queue') = SeqSet(q) \cup {c}
  BY <1>1 DEF SeqSet
<1>3. c \in SeqSet(q) => c \in overlapped'
  BY DEF Enqueue, Pending
<1>4. ASSUME NEW i \in DOMAIN activation_queue', NEW j \in DOMAIN activation_queue',
             i # j, activation_queue'[i] = activation_queue'[j]
      PROVE  activation_queue'[i] \in overlapped'
  <2>1. CASE i \in DOMAIN q /\ j \in DOMAIN q
    BY <1>1, <1>4, <2>1 DEF QueuedOnce, Enqueue
  <2>2. CASE i \notin DOMAIN q \/ j \notin DOMAIN q
    <3>1. c \in SeqSet(q) /\ activation_queue'[i] = c
      BY <1>1, <1>4, <2>2 DEF SeqSet
    <3> QED BY <1>3, <3>1
  <2> QED BY <2>1, <2>2
<1> QED BY <1>2, <1>4 DEF QueuedOnce

LEMMA QueueShrinks ==
    ASSUME TypeOK, QueuedOnce, UpdateActivation
    PROVE  /\ Taken \subseteq SeqSet(activation_queue)
           /\ SeqSet(activation_queue') \subseteq SeqSet(activation_queue)
           /\ Taken \cap SeqSet(activation_queue') \subseteq overlapped
           /\ QueuedOnce'
<1> DEFINE q == activation_queue
<1>1. q \in Seq(Coins) /\ DOMAIN q = 1..Len(q) /\ Len(q) \in Nat
  BY DEF TypeOK
<1>2. TakeCount \in 0..Len(q)
  BY <1>1, BoundsAssumption DEF TakeCount
<1>3. /\ DOMAIN activation_queue' = 1..(Len(q) - TakeCount)
      /\ \A i \in 1..(Len(q) - TakeCount) : activation_queue'[i] = q[i + TakeCount]
  <2>1. activation_queue' = SubSeq(q, TakeCount + 1, Len(q))
    BY DEF UpdateActivation, Remaining
  <2>2. CASE TakeCount = Len(q)
    BY <1>1, <1>2, <2>1, <2>2, SubSeqProperties
  <2>3. CASE TakeCount < Len(q)
    BY <1>1, <1>2, <2>1, <2>3, SubSeqProperties
  <2> QED BY <1>2, <2>2, <2>3
<1>4. Taken = {q[i] : i \in 1..TakeCount} /\ UNCHANGED overlapped
  BY DEF Taken, UpdateActivation
<1>5. /\ \A i \in 1..TakeCount : i \in DOMAIN q
      /\ \A i \in DOMAIN activation_queue' :
           /\ i + TakeCount \in DOMAIN q /\ activation_queue'[i] = q[i + TakeCount]
           /\ \A j \in 1..TakeCount : j # i + TakeCount
           /\ \A j \in DOMAIN activation_queue' : i # j => i + TakeCount # j + TakeCount
  BY <1>1, <1>2, <1>3
<1> HIDE DEF q
<1>6. Taken \subseteq SeqSet(q) /\ SeqSet(activation_queue') \subseteq SeqSet(q)
  BY <1>4, <1>5 DEF SeqSet
<1>7. Taken \cap SeqSet(activation_queue') \subseteq overlapped
  BY <1>4, <1>5 DEF SeqSet, QueuedOnce, q
<1>8. QueuedOnce'
  BY <1>4, <1>5 DEF QueuedOnce, q
<1> QED BY <1>6, <1>7, <1>8 DEF q

\* Where the GUI thread is after a step of a command.
LEMMA GuiEffects ==
    ASSUME TypeOK
    PROVE  /\ GuiIdle.pc = "idle" /\ GuiIdle.asked = {}
           /\ \A c \in Coins : EnableOne(c) =>
                gui'.pc = "enabling" /\ gui'.todo \subseteq gui.todo /\ gui'.asked = gui.asked
           /\ \A c \in Coins : DisableOne(c) =>
                /\ gui'.pc \in {"disabling", "disable_rpc"} /\ gui'.asked = gui.asked
                /\ \/ gui'.todo = gui.todo /\ gui'.coin = {c} /\ gui'.pc = "disable_rpc"
                   \/ c \notin currently_enabled /\ gui'.todo = gui.todo \ {c} /\ gui'.pc = "disabling"
                      /\ gui'.coin = gui.coin
           /\ KdfDisables =>
                gui'.pc = "disabled" /\ gui'.todo = gui.todo /\ gui'.coin = gui.coin /\ gui'.asked = gui.asked
           /\ KdfRefuses \/ ClearEnabled =>
                /\ gui'.pc = "disabling" /\ gui'.todo = gui.todo \ gui.coin /\ gui'.coin = {}
                /\ gui'.asked = gui.asked
<1> USE DEF TypeOK, Gui
<1>1. GuiIdle.pc = "idle" /\ GuiIdle.asked = {}
  BY DEF GuiIdle
<1>2. ASSUME NEW c \in Coins, EnableOne(c)
      PROVE  gui'.pc = "enabling" /\ gui'.todo \subseteq gui.todo /\ gui'.asked = gui.asked
  BY <1>2 DEF EnableOne
<1>3. ASSUME NEW c \in Coins, DisableOne(c)
      PROVE  /\ gui'.pc \in {"disabling", "disable_rpc"} /\ gui'.asked = gui.asked
             /\ \/ gui'.todo = gui.todo /\ gui'.coin = {c} /\ gui'.pc = "disable_rpc"
                \/ c \notin currently_enabled /\ gui'.todo = gui.todo \ {c} /\ gui'.pc = "disabling"
                   /\ gui'.coin = gui.coin
  BY <1>3 DEF DisableOne
<1>4. KdfDisables =>
        gui'.pc = "disabled" /\ gui'.todo = gui.todo /\ gui'.coin = gui.coin /\ gui'.asked = gui.asked
  BY DEF KdfDisables
<1>5. KdfRefuses \/ ClearEnabled =>
        /\ gui'.pc = "disabling" /\ gui'.todo = gui.todo \ gui.coin /\ gui'.coin = {}
        /\ gui'.asked = gui.asked
  BY DEF KdfRefuses, ClearEnabled
<1> QED BY <1>1, <1>2, <1>3, <1>4, <1>5

OtherBatches(b) == \A d \in BatchIds \ {b} : batches'[d] = batches[d]

\* Batch b is at pc, its coins and answers are what they were.
Goes(b, pc) ==
    /\ batches'[b].pc = pc /\ batches'[b].coins = batches[b].coins
    /\ batches'[b].activated = batches[b].activated /\ batches'[b].failed = batches[b].failed
    /\ OtherBatches(b)

Frees(b) == batches'[b].pc = "idle" /\ batches'[b].coins = {} /\ OtherBatches(b)

LEMMA BatchEffects ==
    ASSUME TypeOK, NEW b \in BatchIds
    PROVE  /\ AnswerLost(b) => Frees(b)
           /\ \A c \in Coins : MarkEnabled(b, c) =>
                Goes(b, batches[b].pc) /\ batches'[b].todo = batches[b].todo \ {c}
           /\ AnswersRead(b) => Goes(b, "enable") /\ batches'[b].todo = batches[b].activated
           /\ CoinFullyInitialized(b) =>
                (Goes(b, "fail") /\ batches'[b].todo = batches[b].failed) \/ Frees(b)
           /\ \A c \in Coins : ClearFailed(b, c) =>
                (Goes(b, "fail") /\ batches'[b].todo = batches[b].todo \ {c}) \/ Frees(b)
<1> USE DEF Goes, Frees, OtherBatches, TypeOK
<1>1. batches[b] \in Batch
  OBVIOUS
<1>2. AnswerLost(b) => Frees(b)
  BY DEF AnswerLost, NoBatch
<1>3. ASSUME NEW c \in Coins, MarkEnabled(b, c)
      PROVE  Goes(b, batches[b].pc) /\ batches'[b].todo = batches[b].todo \ {c}
  BY <1>1, <1>3 DEF MarkEnabled, Batch
<1>4. ASSUME AnswersRead(b) PROVE Goes(b, "enable") /\ batches'[b].todo = batches[b].activated
  <2>1. batches'[b] = [batches[b] EXCEPT !.pc = "enable", !.todo = batches[b].activated]
    BY <1>4 DEF AnswersRead
  <2> QED BY <1>1, <1>4, <2>1 DEF AnswersRead, Batch
<1>5. ASSUME CoinFullyInitialized(b)
      PROVE  (Goes(b, "fail") /\ batches'[b].todo = batches[b].failed) \/ Frees(b)
  <2> DEFINE ended == [batches[b] EXCEPT !.pc = "fail", !.todo = batches[b].failed]
  <2>1. batches'[b] = FreedAtEnd(ended) /\ OtherBatches(b)
    BY <1>5 DEF CoinFullyInitialized
  <2>2. /\ ended.pc = "fail" /\ ended.todo = batches[b].failed /\ ended.coins = batches[b].coins
        /\ ended.activated = batches[b].activated /\ ended.failed = batches[b].failed
    BY <1>1 DEF Batch
  <2> HIDE DEF ended
  <2> QED BY <2>1, <2>2 DEF FreedAtEnd, NoBatch
<1>6. ASSUME NEW c \in Coins, ClearFailed(b, c)
      PROVE  (Goes(b, "fail") /\ batches'[b].todo = batches[b].todo \ {c}) \/ Frees(b)
  <2> DEFINE popped == [batches[b] EXCEPT !.todo = batches[b].todo \ {c}]
  <2>1. batches'[b] = FreedAtEnd(popped) /\ OtherBatches(b) /\ batches[b].pc = "fail"
    BY <1>6 DEF ClearFailed
  <2>2. /\ popped.pc = "fail" /\ popped.todo = batches[b].todo \ {c} /\ popped.coins = batches[b].coins
        /\ popped.activated = batches[b].activated /\ popped.failed = batches[b].failed
    BY <1>1, <2>1 DEF Batch
  <2> HIDE DEF popped
  <2> QED BY <2>1, <2>2 DEF FreedAtEnd, NoBatch
<1> QED BY <1>2, <1>3, <1>4, <1>5, <1>6

LEMMA AnswerEffects ==
    ASSUME TypeOK, NEW b \in BatchIds, KdfAnswers(b)
    PROVE  /\ batches[b].pc = "sent" /\ batches'[b].pc = "answers"
           /\ batches'[b].coins = batches[b].coins
           /\ batches'[b].activated \cup batches'[b].failed = batches[b].coins
           /\ batches'[b].activated \cap batches'[b].failed \subseteq overlapped
           /\ batches'[b].todo \subseteq batches'[b].activated
           /\ kdf_coins' = kdf_coins \cup batches'[b].activated
           /\ OtherBatches(b)
<1>1. PICK activated, failed \in SUBSET batches[b].coins :
         /\ activated \cup failed = batches[b].coins
         /\ activated \cap failed \subseteq overlapped
         /\ kdf_coins' = kdf_coins \cup activated
         /\ batches' = [batches EXCEPT ![b] =
                          [pc |-> "answers", coins |-> @.coins, activated |-> activated,
                           failed |-> failed, todo |-> activated \ kdf_coins]]
  BY DEF KdfAnswers
<1>2. batches'[b] = [pc |-> "answers", coins |-> batches[b].coins, activated |-> activated,
                     failed |-> failed, todo |-> activated \ kdf_coins]
      /\ OtherBatches(b)
  BY <1>1 DEF OtherBatches, TypeOK
<1> QED BY <1>1, <1>2 DEF KdfAnswers

\* update() writes the coins it takes to free slots, each to one.
LEMMA UpdateEffects ==
    ASSUME TypeOK, UpdateActivation, NEW b \in BatchIds
    PROVE  \/ batches'[b] = batches[b]
           \/ /\ batches[b].pc = "idle" /\ batches'[b].pc = "sent"
              /\ batches'[b].coins \subseteq Taken
              /\ \A c \in batches'[b].coins : b = <<Family[c], FreeSlot(Family[c])>>
<1>1. PICK f \in Families, n \in 1..MaxInFlight : b = <<f, n>>
  BY DEF BatchIds
<1>2. CASE OfFamily(Taken, f) # {} /\ n = FreeSlot(f)
  <2>1. batches'[b] = Sent(OfFamily(Taken, f)) /\ batches[b].pc = "idle"
    BY <1>1, <1>2, FreeSlotIsFree DEF UpdateActivation
  <2>2. Sent(OfFamily(Taken, f)).pc = "sent" /\ Sent(OfFamily(Taken, f)).coins = OfFamily(Taken, f)
    BY DEF Sent, NoBatch
  <2>3. \A c \in OfFamily(Taken, f) : c \in Taken /\ Family[c] = f
    BY DEF OfFamily
  <2> QED BY <1>1, <1>2, <2>1, <2>2, <2>3
<1>3. CASE ~(OfFamily(Taken, f) # {} /\ n = FreeSlot(f))
  BY <1>1, <1>3 DEF UpdateActivation
<1> QED BY <1>2, <1>3

-----------------------------------------------------------------------------
LEMMA PlacesInit == Init => PlacesInv
<1> SUFFICES ASSUME Init PROVE PlacesInv
  OBVIOUS
<1>1. /\ \A b \in BatchIds : batches[b].pc = "idle" /\ batches[b].coins = {}
      /\ SeqSet(activation_queue) = {} /\ DOMAIN activation_queue = {}
      /\ gui.pc = "idle" /\ gui.asked = {}
  BY DEF Init, NoBatch, SeqSet, GuiIdle
<1>2. PrimaryDexCoins \subseteq active
  BY CoinsAssumption DEF Init
<1>3. SavedUntilDisabled
  BY DEF Init, SavedUntilDisabled
<1>4. AnswersFit /\ QueuedOnce /\ SentOnce /\ GuiFits /\ FlaggedBeforeAnnounced
  BY <1>1 DEF AnswersFit, HasAnswers, QueuedOnce, SentOnce, GuiFits, FlaggedBeforeAnnounced
<1>5. DownBeforeAnswer
  BY DEF Init, DownBeforeAnswer
<1>6. UpUntilDisabled /\ OnePlace
  BY <1>1 DEF Init, UpUntilDisabled, OnePlace, Announcing, WillAnnounce, IsBeingDisabled
<1>7. PrimaryAskedOnce
  <2>1. Pending = {}
    BY <1>1 DEF Pending, InFlight
  <2> QED BY <1>1, <1>2, <2>1 DEF Init, PrimaryAskedOnce
<1> QED BY <1>3, <1>4, <1>5, <1>6, <1>7 DEF PlacesInv

\* A step of the init or the GUI thread that queues a coin.
LEMMA EnqueueKeeps ==
    ASSUME TypeOK, PlacesInv, NEW x \in Coins, Enqueue(x),
           UNCHANGED <<currently_enabled, batches, kdf_coins, portfolio_queue, rows, refused>>,
           \A c \in Coins : IsBeingDisabled(c)' <=> IsBeingDisabled(c)
    PROVE  /\ AnswersFit' /\ QueuedOnce' /\ SentOnce' /\ DownBeforeAnswer'
           /\ FlaggedBeforeAnnounced' /\ UpUntilDisabled' /\ OnePlace'
<1>1. SeqSet(activation_queue') = SeqSet(activation_queue) \cup {x} /\ QueuedOnce'
  BY QueueGrows DEF PlacesInv
<1>2. /\ overlapped \subseteq overlapped'
      /\ x \in Single' => x \notin currently_enabled /\ \A b \in BatchIds : x \notin batches[b].coins
  BY DEF Enqueue, Single, Pending, InFlight
<1>3. Single' \subseteq Single
  BY <1>2 DEF Single
<1>4. AnswersFit'
  BY <1>2 DEF PlacesInv, AnswersFit, HasAnswers
<1>5. SentOnce'
  BY <1>1, <1>2, <1>3 DEF PlacesInv, SentOnce
<1>6. DownBeforeAnswer'
  BY <1>1, <1>2, <1>3 DEF PlacesInv, DownBeforeAnswer, Waiting, Failed, HasAnswers
<1>7. FlaggedBeforeAnnounced'
  BY <1>2 DEF PlacesInv, FlaggedBeforeAnnounced
<1>8. UpUntilDisabled' /\ OnePlace'
  <2>1. \A c \in Coins : Announcing(c)' <=> Announcing(c)
    BY DEF Announcing, WillAnnounce
  <2>2. \A c \in Single' : c \in Single /\ c \in Coins
    BY <1>3 DEF Single
  <2> QED BY <2>1, <2>2 DEF PlacesInv, UpUntilDisabled, OnePlace
<1> QED BY <1>1, <1>4, <1>5, <1>6, <1>7, <1>8

\* A step that leaves the queue and the batches alone.
LEMMA BatchesUntouched ==
    ASSUME PlacesInv, UNCHANGED <<activation_queue, batches, overlapped>>
    PROVE  /\ AnswersFit' /\ QueuedOnce' /\ SentOnce'
           /\ currently_enabled' \subseteq currently_enabled => DownBeforeAnswer'
           /\ currently_enabled \subseteq currently_enabled' => FlaggedBeforeAnnounced'
<1> USE DEF PlacesInv
<1>1. AnswersFit' /\ QueuedOnce' /\ SentOnce'
  BY DEF AnswersFit, HasAnswers, QueuedOnce, SentOnce, Single
<1>2. currently_enabled' \subseteq currently_enabled => DownBeforeAnswer'
  BY DEF DownBeforeAnswer, Single, Waiting, Failed, HasAnswers
<1>3. currently_enabled \subseteq currently_enabled' => FlaggedBeforeAnnounced'
  BY DEF FlaggedBeforeAnnounced
<1> QED BY <1>1, <1>2, <1>3

\* What the init and the GUI thread do, but for update().
LEMMA PlacesGui ==
    ASSUME TypeOK, PlacesInv,
           \/ KdfStarted \/ GuiCommand \/ GuiStep \/ DisableAnswer \/ DrainPortfolioQueue
           \/ \E c \in Coins : EnableDefaultCoin(c)
    PROVE  /\ AnswersFit' /\ QueuedOnce' /\ SentOnce' /\ DownBeforeAnswer'
           /\ FlaggedBeforeAnnounced' /\ UpUntilDisabled' /\ OnePlace' /\ GuiFits'
<1> USE GuiEffects
<1> DEFINE Goal == /\ AnswersFit' /\ QueuedOnce' /\ SentOnce' /\ DownBeforeAnswer'
                   /\ FlaggedBeforeAnnounced' /\ UpUntilDisabled' /\ OnePlace' /\ GuiFits'
<1>1. ASSUME NEW x \in Coins, EnableDefaultCoin(x) \/ EnableOne(x) PROVE Goal
  <2>1. GuiFits'
    BY <1>1 DEF EnableDefaultCoin, PlacesInv, GuiFits
  <2>2. \A c \in Coins : IsBeingDisabled(c)' <=> IsBeingDisabled(c)
    BY <1>1 DEF EnableDefaultCoin, EnableOne, IsBeingDisabled
  <2> QED BY <1>1, <2>1, <2>2, EnqueueKeeps DEF EnableDefaultCoin, EnableOne
<1>2. ASSUME UNCHANGED <<activation_queue, batches, overlapped>>,
             UpUntilDisabled', OnePlace', GuiFits',
             \/ UNCHANGED currently_enabled
             \/ currently_enabled' \subseteq currently_enabled /\ FlaggedBeforeAnnounced'
      PROVE  Goal
  BY <1>2, BatchesUntouched
\* The steps that change nothing a coin is held in.
<1>3. ASSUME UNCHANGED <<activation_queue, batches, overlapped, currently_enabled, rows,
                         portfolio_queue, refused, kdf_coins>>,
             \A c \in Coins : IsBeingDisabled(c)' <=> IsBeingDisabled(c), GuiFits'
      PROVE  Goal
  <2>1. Single' = Single /\ \A c \in Coins : Announcing(c)' <=> Announcing(c)
    BY <1>3 DEF Single, Announcing, WillAnnounce
  <2>2. UpUntilDisabled' /\ OnePlace'
    BY <1>3, <2>1 DEF PlacesInv, UpUntilDisabled, OnePlace, Single
  <2> QED BY <1>2, <1>3, <2>2
<1>4. CASE KdfStarted \/ EnableCoins \/ EnableDone \/ DisableDone
  <2>1. gui' = gui \/ gui'.pc \in {"enabling", "idle"}
    BY <1>4 DEF KdfStarted, EnableCoins, EnableDone, DisableDone, GuiIdle
  <2>2. \A c \in Coins : IsBeingDisabled(c)' <=> IsBeingDisabled(c)
    BY <1>4, <2>1 DEF KdfStarted, EnableCoins, EnableDone, DisableDone, IsBeingDisabled
  <2>3. GuiFits'
    BY <2>1 DEF PlacesInv, GuiFits
  <2> QED BY <1>3, <1>4, <2>2, <2>3 DEF KdfStarted, EnableCoins, EnableDone, DisableDone
<1>5. CASE DisableCoins
  <2>1. PICK request \in SUBSET rows :
          /\ rows' = rows \ request
          /\ gui'.pc = "disabling" /\ gui'.todo = request /\ gui'.asked = request /\ gui'.coin = {}
    BY <1>5 DEF DisableCoins, Disableable
  <2>2. UNCHANGED <<activation_queue, batches, overlapped, currently_enabled, portfolio_queue,
                    refused, kdf_coins>>
    BY <1>5 DEF DisableCoins
  <2>3. gui.pc = "idle"
    BY <1>5 DEF DisableCoins
  <2>4. UpUntilDisabled' /\ OnePlace' /\ GuiFits'
    BY <2>1, <2>2, <2>3 DEF PlacesInv, UpUntilDisabled, OnePlace, GuiFits, Single, Announcing,
                            WillAnnounce, IsBeingDisabled
  <2> QED BY <1>2, <2>2, <2>4
<1>6. ASSUME NEW x \in Coins, DisableOne(x) PROVE Goal
  <2>1. /\ UNCHANGED <<activation_queue, batches, overlapped, currently_enabled, rows,
                       portfolio_queue, refused, kdf_coins>>
        /\ gui.pc = "disabling" /\ x \in gui.todo
    BY <1>6 DEF DisableOne
  <2>2. \/ gui'.pc \in {"disabling", "disable_rpc"} /\ gui'.todo = gui.todo
        \/ gui'.pc = "disabling" /\ gui'.todo = gui.todo \ {x} /\ x \notin currently_enabled
    BY <1>6
  <2>3. \A c \in Coins : c # x => (IsBeingDisabled(c)' <=> IsBeingDisabled(c))
    BY <2>1, <2>2 DEF IsBeingDisabled
  <2>4. IsBeingDisabled(x) /\ (x \in Single => IsBeingDisabled(x)')
    BY <2>1, <2>2 DEF IsBeingDisabled, PlacesInv, UpUntilDisabled
  <2>5. Single' = Single /\ \A c \in Coins : Announcing(c)' <=> Announcing(c)
    BY <2>1 DEF Single, Announcing, WillAnnounce
  <2>6. UpUntilDisabled' /\ OnePlace'
    BY <2>1, <2>3, <2>4, <2>5 DEF PlacesInv, UpUntilDisabled, OnePlace, Single
  <2>7. GuiFits'
    BY <1>6, <2>1 DEF PlacesInv, GuiFits
  <2> QED BY <1>2, <2>1, <2>6, <2>7
<1>7. CASE KdfDisables
  <2>1. /\ UNCHANGED <<activation_queue, batches, overlapped, currently_enabled, rows,
                       portfolio_queue, refused>>
        /\ gui.pc = "disable_rpc" /\ kdf_coins' = kdf_coins \ gui.coin
    BY <1>7 DEF KdfDisables
  <2>2. UpUntilDisabled' /\ OnePlace' /\ GuiFits'
    BY <1>7, <2>1 DEF PlacesInv, UpUntilDisabled, OnePlace, GuiFits, Single, Announcing,
                      WillAnnounce, IsBeingDisabled
  <2> QED BY <1>2, <2>1, <2>2
<1>8. CASE KdfRefuses
  <2>1. /\ UNCHANGED <<activation_queue, batches, overlapped, currently_enabled, rows,
                       portfolio_queue, kdf_coins>>
        /\ gui.pc = "disable_rpc" /\ refused' = refused \cup gui.coin
    BY <1>8 DEF KdfRefuses
  <2>2. UpUntilDisabled' /\ OnePlace' /\ GuiFits'
    BY <1>8, <2>1 DEF PlacesInv, UpUntilDisabled, OnePlace, GuiFits, Single, Announcing,
                      WillAnnounce, IsBeingDisabled
  <2> QED BY <1>2, <2>1, <2>2
<1>9. CASE ClearEnabled
  <2>1. /\ UNCHANGED <<activation_queue, batches, overlapped, rows, portfolio_queue, refused,
                       kdf_coins>>
        /\ gui.pc = "disabled" /\ currently_enabled' = currently_enabled \ gui.coin
    BY <1>9 DEF ClearEnabled, FlagAfterDisable
  <2>2. UpUntilDisabled' /\ OnePlace' /\ GuiFits'
    BY <1>9, <2>1 DEF PlacesInv, UpUntilDisabled, OnePlace, GuiFits, Single, Announcing,
                      WillAnnounce, IsBeingDisabled
  <2>3. FlaggedBeforeAnnounced'
    <3> SUFFICES ASSUME NEW b \in BatchIds, batches[b].pc = "enable",
                        NEW c \in batches[b].activated \ batches[b].todo, c \notin overlapped
                 PROVE  c \in currently_enabled'
      BY <2>1 DEF FlaggedBeforeAnnounced
    <3>1. c \in Single /\ Announcing(c) /\ c \in currently_enabled
      BY DEF Single, Announcing, WillAnnounce, PlacesInv, FlaggedBeforeAnnounced, TypeOK, Batch
    <3> QED BY <2>1, <3>1 DEF PlacesInv, OnePlace, GuiFits, IsBeingDisabled
  <2> QED BY <1>2, <2>1, <2>2, <2>3
<1>10. CASE DrainPortfolioQueue
  <2>1. /\ UNCHANGED <<activation_queue, batches, overlapped, currently_enabled, gui, kdf_coins>>
        /\ portfolio_queue' = {} /\ rows' = rows \cup portfolio_queue
        /\ refused' = refused \ portfolio_queue
    BY <1>10 DEF DrainPortfolioQueue
  <2>2. UpUntilDisabled' /\ OnePlace' /\ GuiFits'
    BY <1>10, <2>1 DEF PlacesInv, UpUntilDisabled, OnePlace, GuiFits, Single, Announcing,
                       WillAnnounce, IsBeingDisabled
  <2> QED BY <1>2, <2>1, <2>2
<1> QED BY <1>1, <1>4, <1>5, <1>6, <1>7, <1>8, <1>9, <1>10 DEF GuiCommand, GuiStep, DisableAnswer

\* What update() and the callbacks do.
LEMMA PlacesUpdate ==
    ASSUME TypeOK, PlacesInv, UpdateActivation
    PROVE  /\ AnswersFit' /\ QueuedOnce' /\ SentOnce' /\ DownBeforeAnswer'
           /\ FlaggedBeforeAnnounced' /\ UpUntilDisabled' /\ OnePlace' /\ GuiFits'
<1> USE DEF PlacesInv
<1>1. /\ UNCHANGED <<overlapped, currently_enabled, rows, portfolio_queue, refused, kdf_coins, gui>>
      /\ Single' = Single
  BY DEF UpdateActivation, Single
<1>2. /\ Taken \subseteq SeqSet(activation_queue)
      /\ SeqSet(activation_queue') \subseteq SeqSet(activation_queue)
      /\ Taken \cap SeqSet(activation_queue') \subseteq overlapped
      /\ QueuedOnce'
  BY QueueShrinks
<1>3. \A b \in BatchIds :
        \/ batches'[b] = batches[b]
        \/ /\ batches[b].pc = "idle" /\ batches'[b].pc = "sent"
           /\ batches'[b].coins \subseteq Taken
           /\ \A c \in batches'[b].coins : b = <<Family[c], FreeSlot(Family[c])>>
  BY UpdateEffects
<1>4. AnswersFit' /\ GuiFits' /\ FlaggedBeforeAnnounced'
  BY <1>1, <1>3 DEF AnswersFit, HasAnswers, GuiFits, FlaggedBeforeAnnounced
<1>5. SentOnce'
  <2> SUFFICES ASSUME NEW c \in Single, NEW b \in BatchIds, c \in batches'[b].coins
               PROVE  /\ c \notin SeqSet(activation_queue')
                      /\ \A d \in BatchIds : c \in batches'[d].coins => d = b
    BY <1>1 DEF SentOnce
  <2>1. CASE batches'[b] = batches[b]
    BY <1>2, <1>3, <2>1 DEF SentOnce
  <2>2. CASE c \in Taken /\ b = <<Family[c], FreeSlot(Family[c])>>
    BY <1>2, <1>3, <2>2 DEF SentOnce, Single
  <2> QED BY <1>3, <2>1, <2>2
<1>6. \A c \in Coins : /\ Waiting(c)' => Waiting(c)
                       /\ Failed(c)' => Failed(c)
                       /\ Announcing(c)' => Announcing(c)
  BY <1>2, <1>3 DEF Waiting, Failed, HasAnswers, Announcing, WillAnnounce
<1>7. DownBeforeAnswer' /\ UpUntilDisabled' /\ OnePlace'
  BY <1>1, <1>6 DEF DownBeforeAnswer, UpUntilDisabled, OnePlace, Single, IsBeingDisabled
<1> QED BY <1>2, <1>4, <1>5, <1>7

LEMMA PlacesCallback ==
    ASSUME TypeOK, FlagsOnlyAnnounced, PlacesInv, NEW b \in BatchIds, BatchAnswer(b) \/ Callback(b)
    PROVE  /\ AnswersFit' /\ QueuedOnce' /\ SentOnce' /\ DownBeforeAnswer'
           /\ FlaggedBeforeAnnounced' /\ UpUntilDisabled' /\ OnePlace' /\ GuiFits'
<1> USE DEF PlacesInv
<1> DEFINE Goal == /\ AnswersFit' /\ QueuedOnce' /\ SentOnce' /\ DownBeforeAnswer'
                   /\ FlaggedBeforeAnnounced' /\ UpUntilDisabled' /\ OnePlace' /\ GuiFits'
<1>1. UNCHANGED <<activation_queue, overlapped, rows, refused, gui>> /\ Single' = Single
  BY DEF BatchAnswer, Callback, KdfAnswers, AnswerLost, AnswersRead, CoinFullyInitialized,
         MarkEnabled, ClearFailed, Single
<1>2. QueuedOnce' /\ GuiFits'
  BY <1>1 DEF QueuedOnce, GuiFits
<1>3. SentOnce'
  BY <1>1, BatchEffects, AnswerEffects
     DEF SentOnce, BatchAnswer, Callback, Goes, Frees, OtherBatches
<1>4. CASE KdfAnswers(b)
  <2>1. UNCHANGED <<currently_enabled, portfolio_queue>>
    BY <1>4 DEF KdfAnswers
  <2>2. AnswersFit' /\ FlaggedBeforeAnnounced'
    BY <1>1, <1>4, <2>1, AnswerEffects
       DEF AnswersFit, HasAnswers, FlaggedBeforeAnnounced, OtherBatches
  <2>3. \A c \in Coins : /\ Waiting(c)' => Waiting(c)
                         /\ Failed(c)' => Failed(c) \/ Waiting(c)
                         /\ Announcing(c)' => Announcing(c) \/ (Waiting(c) /\ c \in kdf_coins')
    <3>1. /\ batches[b].pc = "sent" /\ batches'[b].pc = "answers" /\ OtherBatches(b)
          /\ batches'[b].activated \subseteq batches[b].coins
          /\ batches'[b].failed \subseteq batches[b].coins
          /\ batches'[b].activated \subseteq kdf_coins'
      BY <1>4, AnswerEffects
    <3>2. \A c \in Coins : Waiting(c)' => Waiting(c)
      BY <1>1, <3>1 DEF Waiting, OtherBatches
    <3>3. \A c \in Coins : Failed(c)' => Failed(c) \/ Waiting(c)
      BY <3>1 DEF Waiting, Failed, HasAnswers, OtherBatches
    <3>4. \A c \in Coins : Announcing(c)' => Announcing(c) \/ (Waiting(c) /\ c \in kdf_coins')
      <4> SUFFICES ASSUME NEW c \in Coins, NEW d \in BatchIds, WillAnnounce(d, c)'
                   PROVE  Announcing(c) \/ (Waiting(c) /\ c \in kdf_coins')
        BY DEF Announcing
      <4>1. CASE d = b
        BY <3>1, <4>1 DEF Waiting, WillAnnounce
      <4>2. CASE d # b
        BY <3>1, <4>2 DEF Announcing, WillAnnounce, OtherBatches
      <4> QED BY <4>1, <4>2
    <3> QED BY <3>2, <3>3, <3>4
  <2>4. DownBeforeAnswer' /\ UpUntilDisabled' /\ OnePlace'
    BY <1>1, <1>4, <2>1, <2>3, AnswerEffects
       DEF DownBeforeAnswer, UpUntilDisabled, OnePlace, Single, IsBeingDisabled
  <2> QED BY <1>2, <1>3, <2>2, <2>4
<1>5. CASE AnswerLost(b)
  <2>1. /\ UNCHANGED <<currently_enabled, portfolio_queue>> /\ kdf_coins \subseteq kdf_coins'
        /\ Frees(b)
    BY <1>5, BatchEffects DEF AnswerLost
  <2>2. AnswersFit' /\ FlaggedBeforeAnnounced'
    BY <1>1, <2>1 DEF AnswersFit, HasAnswers, FlaggedBeforeAnnounced, Frees, OtherBatches
  <2>3. \A c \in Coins : /\ Waiting(c)' => Waiting(c)
                         /\ Failed(c)' => Failed(c)
                         /\ Announcing(c)' => Announcing(c)
    BY <1>1, <2>1 DEF Waiting, Failed, HasAnswers, Announcing, WillAnnounce, Frees, OtherBatches
  <2>4. DownBeforeAnswer' /\ UpUntilDisabled' /\ OnePlace'
    BY <1>1, <2>1, <2>3 DEF DownBeforeAnswer, UpUntilDisabled, OnePlace, Single, IsBeingDisabled
  <2> QED BY <1>2, <1>3, <2>2, <2>4
<1>6. ASSUME NEW x \in Coins, MarkEnabled(b, x) PROVE Goal
  <2>1. /\ UNCHANGED <<kdf_coins, portfolio_queue>>
        /\ currently_enabled' = currently_enabled \cup {x}
        /\ Goes(b, batches[b].pc) /\ batches'[b].todo = batches[b].todo \ {x}
        /\ batches[b].pc \in {"answers", "enable"} /\ x \in batches[b].todo
    BY <1>6, BatchEffects DEF MarkEnabled
  <2>2. AnswersFit' /\ FlaggedBeforeAnnounced'
    BY <1>1, <2>1 DEF AnswersFit, HasAnswers, FlaggedBeforeAnnounced, Goes, OtherBatches
  <2>3. \A c \in Coins : /\ Waiting(c)' <=> Waiting(c)
                         /\ Failed(c)' <=> Failed(c)
                         /\ Announcing(c)' <=> Announcing(c)
    BY <1>1, <2>1 DEF Waiting, Failed, HasAnswers, Announcing, WillAnnounce, Goes, OtherBatches
  <2>4. x \in Single => ~Waiting(x) /\ ~Failed(x)
    <3>1. x \in batches[b].activated /\ x \in batches[b].coins
      BY <2>1 DEF FlagsOnlyAnnounced, AnswersFit, HasAnswers
    <3> QED BY <2>1, <3>1 DEF Single, SentOnce, AnswersFit, HasAnswers, Waiting, Failed
  <2>5. DownBeforeAnswer' /\ UpUntilDisabled' /\ OnePlace'
    BY <1>1, <2>1, <2>3, <2>4
       DEF DownBeforeAnswer, UpUntilDisabled, OnePlace, Single, IsBeingDisabled
  <2> QED BY <1>2, <1>3, <2>2, <2>5
<1>7. CASE AnswersRead(b)
  <2>1. /\ UNCHANGED <<currently_enabled, kdf_coins, portfolio_queue>>
        /\ Goes(b, "enable") /\ batches'[b].todo = batches[b].activated /\ batches[b].pc = "answers"
    BY <1>7, BatchEffects DEF AnswersRead
  <2>2. AnswersFit' /\ FlaggedBeforeAnnounced'
    BY <1>1, <2>1 DEF AnswersFit, HasAnswers, FlaggedBeforeAnnounced, Goes, OtherBatches
  <2>3. \A c \in Coins : /\ Waiting(c)' <=> Waiting(c)
                         /\ Failed(c)' <=> Failed(c)
                         /\ Announcing(c)' <=> Announcing(c)
    BY <1>1, <2>1 DEF Waiting, Failed, HasAnswers, Announcing, WillAnnounce, Goes, OtherBatches
  <2>4. DownBeforeAnswer' /\ UpUntilDisabled' /\ OnePlace'
    BY <1>1, <2>1, <2>3 DEF DownBeforeAnswer, UpUntilDisabled, OnePlace, Single, IsBeingDisabled
  <2> QED BY <1>2, <1>3, <2>2, <2>4
<1>8. CASE CoinFullyInitialized(b)
  <2>1. /\ UNCHANGED <<currently_enabled, kdf_coins>>
        /\ portfolio_queue' = portfolio_queue \cup batches[b].activated
        /\ (Goes(b, "fail") /\ batches'[b].todo = batches[b].failed) \/ Frees(b)
        /\ batches[b].pc = "enable" /\ batches[b].todo = {}
    BY <1>8, BatchEffects DEF CoinFullyInitialized, Announced
  <2>2. AnswersFit' /\ FlaggedBeforeAnnounced'
    BY <1>1, <2>1 DEF AnswersFit, HasAnswers, FlaggedBeforeAnnounced, Goes, Frees, OtherBatches
  <2>3. \A c \in Coins : /\ Waiting(c)' => Waiting(c)
                         /\ Failed(c)' => Failed(c)
                         /\ Announcing(c)' => Announcing(c)
    BY <1>1, <2>1
       DEF Waiting, Failed, HasAnswers, Announcing, WillAnnounce, Goes, Frees, OtherBatches
  <2>4. \A c \in batches[b].activated \cap Single :
          c \in currently_enabled /\ Announcing(c) /\ ~Announcing(c)'
    <3> SUFFICES ASSUME NEW c \in batches[b].activated, c \in Single
                 PROVE  c \in currently_enabled /\ Announcing(c) /\ ~Announcing(c)'
      OBVIOUS
    <3>1. c \in currently_enabled /\ Announcing(c)
      BY <2>1 DEF FlaggedBeforeAnnounced, Single, Announcing, WillAnnounce
    <3>2. \A d \in BatchIds : WillAnnounce(d, c) => d = b
      BY <2>1 DEF WillAnnounce, AnswersFit, HasAnswers, SentOnce
    <3>3. ~Announcing(c)'
      BY <2>1, <3>2 DEF Announcing, WillAnnounce, Goes, Frees, OtherBatches
    <3> QED BY <3>1, <3>3
  <2>5. DownBeforeAnswer' /\ UpUntilDisabled' /\ OnePlace'
    BY <1>1, <2>1, <2>3, <2>4
       DEF DownBeforeAnswer, UpUntilDisabled, OnePlace, Single, IsBeingDisabled
  <2> QED BY <1>2, <1>3, <2>2, <2>5
<1>9. ASSUME NEW x \in Coins, ClearFailed(b, x) PROVE Goal
  <2>1. /\ UNCHANGED <<kdf_coins, portfolio_queue>>
        /\ currently_enabled' = currently_enabled \ {x}
        /\ (Goes(b, "fail") /\ batches'[b].todo = batches[b].todo \ {x}) \/ Frees(b)
        /\ batches[b].pc = "fail" /\ x \in batches[b].todo
    BY <1>9, BatchEffects DEF ClearFailed
  <2>2. Failed(x)
    BY <2>1 DEF Failed, HasAnswers, AnswersFit
  <2>3. \A c \in Single : c \in currently_enabled => c \in currently_enabled'
    BY <2>1, <2>2 DEF DownBeforeAnswer
  <2>4. AnswersFit'
    BY <1>1, <2>1 DEF AnswersFit, HasAnswers, Goes, Frees, OtherBatches
  <2>5. FlaggedBeforeAnnounced'
    BY <1>1, <2>1, <2>3
       DEF FlaggedBeforeAnnounced, Goes, Frees, OtherBatches, Single, TypeOK, Batch
  <2>6. \A c \in Coins : /\ Waiting(c)' => Waiting(c)
                         /\ Failed(c)' => Failed(c)
                         /\ Announcing(c)' => Announcing(c)
    BY <1>1, <2>1
       DEF Waiting, Failed, HasAnswers, Announcing, WillAnnounce, Goes, Frees, OtherBatches
  <2>7. DownBeforeAnswer' /\ UpUntilDisabled' /\ OnePlace'
    BY <1>1, <2>1, <2>3, <2>6
       DEF DownBeforeAnswer, UpUntilDisabled, OnePlace, Single, IsBeingDisabled
  <2> QED BY <1>2, <1>3, <2>4, <2>5, <2>7
<1> QED BY <1>4, <1>5, <1>6, <1>7, <1>8, <1>9 DEF BatchAnswer, Callback

LEMMA PrimaryStep == TypeOK /\ FlagsOnlyAnnounced /\ PlacesInv /\ [Next]_vars => PrimaryAskedOnce'
<1> SUFFICES ASSUME TypeOK, FlagsOnlyAnnounced, PlacesInv, [Next]_vars PROVE PrimaryAskedOnce'
  OBVIOUS
<1> USE GuiEffects, CoinsAssumption DEF PlacesInv, PrimaryAskedOnce
<1>1. ASSUME NEW x \in Coins, EnableDefaultCoin(x) PROVE PrimaryAskedOnce'
  <2>1. SeqSet(activation_queue') = SeqSet(activation_queue) \cup {x} /\ UNCHANGED batches
    BY <1>1, QueueGrows DEF EnableDefaultCoin
  <2>2. Pending' = Pending \cup {x}
    BY <2>1 DEF Pending, InFlight
  <2>3. PrimaryDexCoins \cap overlapped' = {}
    BY <1>1 DEF EnableDefaultCoin, Enqueue
  <2> QED BY <1>1, <2>2, <2>3 DEF EnableDefaultCoin
<1>2. ASSUME NEW x \in Coins, EnableOne(x) PROVE PrimaryAskedOnce'
  <2>1. SeqSet(activation_queue') = SeqSet(activation_queue) \cup {x} /\ UNCHANGED batches
    BY <1>2, QueueGrows DEF EnableOne
  <2>2. Pending' = Pending \cup {x}
    BY <2>1 DEF Pending, InFlight
  <2>3. x \notin PrimaryDexCoins
    BY <1>2 DEF EnableOne
  <2>4. PrimaryDexCoins \cap overlapped' = {}
    BY <1>2, <2>3 DEF EnableOne, Enqueue
  <2> QED BY <1>2, <2>2, <2>3, <2>4 DEF EnableOne
<1>3. CASE EnableCoins
  <2>1. PICK request \in SUBSET (Coins \ rows) :
          gui' = [GuiIdle EXCEPT !.pc = "enabling",
                    !.todo = (request \cup ExtraCoins(request)) \ currently_enabled]
    BY <1>3 DEF EnableCoins
  <2>2. gui'.todo \subseteq request \cup ExtraCoins(request) /\ gui'.asked = {}
    BY <2>1 DEF GuiIdle
  <2>3. PrimaryDexCoins \cap request = {}
    BY <1>3 DEF EnableCoins, Complete
  <2>4. PrimaryDexCoins \cap ExtraCoins(request) = {}
    BY DEF ExtraCoins
  <2> QED BY <1>3, <2>2, <2>3, <2>4 DEF EnableCoins, Pending, InFlight
<1>4. CASE DisableCoins
  <2>1. PICK request \in SUBSET Disableable :
          rows' = rows \ request /\ gui'.pc = "disabling" /\ gui'.asked = request
    BY <1>4 DEF DisableCoins
  <2> QED BY <1>4, <2>1 DEF DisableCoins, Disableable, Pending, InFlight, TypeOK
<1>5. CASE KdfStarted \/ EnableDone \/ KdfDisables \/ KdfRefuses \/ ClearEnabled
           \/ \E x \in Coins : DisableOne(x)
  <2>1. /\ UNCHANGED <<active, overlapped, init_todo, activation_queue, batches, rows, fully_enabled>>
        /\ currently_enabled' \subseteq currently_enabled
    BY <1>5 DEF KdfStarted, EnableDone, KdfDisables, KdfRefuses, ClearEnabled, FlagAfterDisable,
                DisableOne
  <2>2. gui' = gui \/ (gui'.pc # "enabling" /\ gui'.asked \in {gui.asked, {}})
    BY <1>5 DEF KdfStarted, EnableDone
  <2> QED BY <2>1, <2>2 DEF Pending, InFlight
<1>6. CASE DisableDone
  BY <1>6 DEF DisableDone, Deactivated, Pending, InFlight
<1>7. CASE UpdateActivation
  <2>1. Pending' \subseteq Pending
    <3>1. /\ Taken \subseteq SeqSet(activation_queue)
          /\ SeqSet(activation_queue') \subseteq SeqSet(activation_queue)
      BY <1>7, QueueShrinks
    <3>2. \A b \in BatchIds : batches'[b] = batches[b] \/ batches'[b].coins \subseteq Taken
      BY <1>7, UpdateEffects
    <3> QED BY <3>1, <3>2 DEF Pending, InFlight
  <2> QED BY <1>7, <2>1 DEF UpdateActivation
<1>8. CASE DrainPortfolioQueue
  BY <1>8 DEF DrainPortfolioQueue, PrimaryCoins, Pending, InFlight
<1>9. ASSUME NEW b \in BatchIds, BatchAnswer(b) \/ Callback(b) PROVE PrimaryAskedOnce'
  <2>1. UNCHANGED <<active, overlapped, init_todo, activation_queue, rows, fully_enabled, gui>>
    BY <1>9 DEF BatchAnswer, Callback, KdfAnswers, AnswerLost, AnswersRead, CoinFullyInitialized,
                MarkEnabled, ClearFailed
  <2>2. /\ batches'[b].coins \subseteq batches[b].coins
        /\ OtherBatches(b)
    BY <1>9, BatchEffects, AnswerEffects DEF BatchAnswer, Callback, Goes, Frees
  <2>3. Pending' \subseteq Pending
    <3>1. \A d \in BatchIds : batches'[d].coins \subseteq batches[d].coins
      BY <2>2 DEF OtherBatches
    <3> QED BY <2>1, <3>1 DEF Pending, InFlight
  <2>4. \A c \in currently_enabled' : c \in currently_enabled \/ c \in Pending
    <3>1. ASSUME NEW x \in Coins, MarkEnabled(b, x)
          PROVE  currently_enabled' = currently_enabled \cup {x} /\ x \in Pending
      BY <3>1 DEF MarkEnabled, FlagsOnlyAnnounced, AnswersFit, HasAnswers, Pending, InFlight
    <3>2. CASE \E x \in Coins : MarkEnabled(b, x)
      BY <3>1, <3>2
    <3>3. CASE currently_enabled' \subseteq currently_enabled
      BY <3>3
    <3> QED BY <1>9, <3>2, <3>3
            DEF BatchAnswer, Callback, KdfAnswers, AnswerLost, AnswersRead, CoinFullyInitialized,
                ClearFailed
  <2> QED BY <2>1, <2>3, <2>4
<1>10. CASE UNCHANGED vars
  BY <1>10 DEF vars, Pending, InFlight
<1> QED BY <1>1, <1>2, <1>3, <1>4, <1>5, <1>6, <1>7, <1>8, <1>9, <1>10
        DEF Next, InitThread, GuiCommand, GuiStep, DisableAnswer

LEMMA SavedStep == TypeOK /\ PlacesInv /\ [Next]_vars => SavedUntilDisabled'
<1> SUFFICES ASSUME TypeOK, PlacesInv, [Next]_vars PROVE SavedUntilDisabled'
  OBVIOUS
<1> USE GuiEffects DEF PlacesInv, SavedUntilDisabled
<1>1. CASE /\ UNCHANGED coins_file /\ currently_enabled \subseteq currently_enabled'
           /\ overlapped \subseteq overlapped'
           /\ \/ UNCHANGED gui
              \/ gui.pc \in {"idle", "enabling"}
              \/ gui'.asked = gui.asked /\ gui'.pc \in {"disabling", "disable_rpc", "disabled"}
  BY <1>1
<1>2. CASE InitThread
  BY <1>1, <1>2 DEF InitThread, KdfStarted, EnableDefaultCoin, Enqueue
<1>3. CASE GuiCommand
  BY <1>1, <1>3 DEF GuiCommand, EnableCoins, DisableCoins
<1>4. CASE EnableDone \/ \E c \in Coins : EnableOne(c)
  BY <1>1, <1>4 DEF EnableDone, EnableOne, Enqueue
<1>5. CASE \E c \in Coins : DisableOne(c)
  BY <1>1, <1>5 DEF DisableOne
<1>6. CASE DisableAnswer
  BY <1>1, <1>6 DEF DisableAnswer, KdfDisables, KdfRefuses
<1>7. CASE ClearEnabled
  BY <1>7 DEF ClearEnabled, FlagAfterDisable, GuiFits
<1>8. CASE DisableDone
  BY <1>8 DEF DisableDone, Deactivated
<1>9. CASE UpdateActivation
  BY <1>9 DEF UpdateActivation, Unmarked
<1>10. CASE DrainPortfolioQueue
  BY <1>1, <1>10 DEF DrainPortfolioQueue
<1>11. ASSUME NEW b \in BatchIds, BatchAnswer(b) \/ Callback(b) PROVE SavedUntilDisabled'
  <2>1. UNCHANGED <<coins_file, overlapped, gui>>
    BY <1>11 DEF BatchAnswer, Callback, KdfAnswers, AnswerLost, AnswersRead, CoinFullyInitialized,
                 MarkEnabled, ClearFailed
  \* A coin that loses its flag was answered with an error: a single one has none to lose.
  <2>2. \A c \in currently_enabled : c \in currently_enabled' \cup overlapped
    <3>1. ASSUME NEW x \in Coins, ClearFailed(b, x) PROVE x \notin currently_enabled \/ x \in overlapped
      BY <3>1 DEF ClearFailed, AnswersFit, DownBeforeAnswer, Failed, HasAnswers, Single
    <3> QED BY <1>11, <3>1 DEF BatchAnswer, Callback, KdfAnswers, AnswerLost, AnswersRead,
                              CoinFullyInitialized, MarkEnabled, ClearFailed
  <2> QED BY <2>1, <2>2
<1>12. CASE UNCHANGED vars
  BY <1>1, <1>12 DEF vars
<1> QED BY <1>2, <1>3, <1>4, <1>5, <1>6, <1>7, <1>8, <1>9, <1>10, <1>11, <1>12 DEF Next, GuiStep

LEMMA PlacesStep == TypeOK /\ FlagsOnlyAnnounced /\ PlacesInv /\ [Next]_vars => PlacesInv'
<1> SUFFICES ASSUME TypeOK, FlagsOnlyAnnounced, PlacesInv, [Next]_vars PROVE PlacesInv'
  OBVIOUS
<1>1. PrimaryAskedOnce' /\ SavedUntilDisabled'
  BY PrimaryStep, SavedStep
<1>2. CASE InitThread \/ GuiCommand \/ GuiStep \/ DisableAnswer \/ DrainPortfolioQueue
  BY <1>1, <1>2, PlacesGui DEF InitThread, PlacesInv
<1>3. CASE UpdateActivation
  BY <1>1, <1>3, PlacesUpdate DEF PlacesInv
<1>4. ASSUME NEW b \in BatchIds, BatchAnswer(b) \/ Callback(b) PROVE PlacesInv'
  BY <1>1, <1>4, PlacesCallback DEF PlacesInv
<1>5. CASE UNCHANGED vars
  BY <1>5
     DEF vars, PlacesInv, AnswersFit, QueuedOnce, SentOnce, DownBeforeAnswer, Waiting, Failed,
         HasAnswers, FlaggedBeforeAnnounced, UpUntilDisabled, Announcing, WillAnnounce,
         IsBeingDisabled, OnePlace, GuiFits, PrimaryAskedOnce, SavedUntilDisabled, Single,
         Pending, InFlight
<1> QED BY <1>2, <1>3, <1>4, <1>5 DEF Next

LEMMA PlacesImply == TypeOK /\ EnabledCoinsAccountedFor /\ PlacesInv => StoresAgree
<1> SUFFICES ASSUME TypeOK, EnabledCoinsAccountedFor, PlacesInv PROVE StoresAgree
  OBVIOUS
<1> USE DEF PlacesInv
<1>1. PrimaryCoinsStayUp
  BY CoinsAssumption DEF PrimaryCoinsStayUp, Complete, PrimaryAskedOnce, UpUntilDisabled, Single
<1>2. ASSUME Quiescent PROVE gui.pc = "idle" /\ portfolio_queue = {} /\ \A b \in BatchIds : batches[b].coins = {}
  BY <1>2 DEF Quiescent, Pending, InFlight, GuiIdle
<1>3. AtRestAllAgree
  <2> SUFFICES ASSUME Quiescent, NEW c \in Single
               PROVE  /\ c \in currently_enabled <=> c \in rows \cup refused
                      /\ c \in rows => c \in kdf_coins
    BY DEF AtRestAllAgree, Single
  <2>1. c \in currently_enabled => c \in rows \cup refused
    <3>1. \A b \in BatchIds : ~WillAnnounce(b, c)
      BY <1>2 DEF WillAnnounce, AnswersFit, HasAnswers
    <3> QED BY <1>2, <3>1 DEF EnabledCoinsAccountedFor, IsAccountedFor, IsBeingDisabled
  <2> QED BY <2>1 DEF UpUntilDisabled
<1>4. SavedCoinsAreEnabled
  BY <1>2 DEF SavedCoinsAreEnabled, SavedUntilDisabled
<1> QED BY <1>1, <1>3, <1>4 DEF StoresAgree

\* At rest the service, the portfolio, the daemon and the file agree on every coin that
\* was not asked for twice at a time, and the primary coins stay up, for any coins,
\* families, batch sizes and numbers of batches in flight.
THEOREM StoresComeTogether == Spec => []StoresAgree
<1> DEFINE I == IInv /\ PlacesInv
<1>1. Init => I
  BY TypeInit, FlagsInit, AccountedInit, PlacesInit DEF IInv
<1>2. I /\ [Next]_vars => I'
  BY TypeStep, FlagsStep, AccountedStep, PlacesStep DEF IInv
<1>3. I => StoresAgree
  BY PlacesImply DEF IInv
<1> HIDE DEF I
<1> QED BY <1>1, <1>2, <1>3, PTL DEF Spec
=============================================================================
