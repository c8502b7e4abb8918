--------------------- MODULE PlatformActivation_proofs ----------------------
(***************************************************************************)
(* Proofs about PlatformActivation, for any platforms, tokens, behaviour   *)
(* of a second lock and number of calls and commands: the type invariant,  *)
(* that only one callback at a time is past its lock, that what is enabled *)
(* is announced and shown, and that only the user takes a platform from    *)
(* under an enabled token.                                                 *)
(***************************************************************************)
EXTENDS PlatformActivation, TLAPS

-----------------------------------------------------------------------------
(* Type correctness.                                                       *)

LEMMA NoCallIsCall == NoCall \in Call
BY PlatformAssumption DEF NoCall, Call, Coins

LEMMA TypeInit == Init => TypeOK
BY PlatformAssumption, NoCallIsCall DEF Init, TypeOK, GuiIdle, Gui

\* A call moves on.
LEMMA MoveType ==
    ASSUME TypeOK, NEW n \in Ids,
           NEW pc \in {"already", "refused", "lock", "held", "held_already", "again", "waits"}
    PROVE  [calls EXCEPT ![n].pc = pc] \in [Ids -> Call]
<1>1. [calls[n] EXCEPT !.pc = pc] \in Call
  BY DEF TypeOK, Call
<1> QED BY <1>1 DEF TypeOK

\* A call has fewer tokens left.
LEMMA TokensType ==
    ASSUME TypeOK, NEW n \in Ids, NEW tokens \in SUBSET calls[n].tokens
    PROVE  /\ [calls EXCEPT ![n].tokens = tokens] \in [Ids -> Call]
           /\ [calls EXCEPT ![n].pc = "ok", ![n].tokens = tokens] \in [Ids -> Call]
           /\ tokens \subseteq Coins
<1>1. calls[n].tokens \subseteq Tokens
  BY DEF TypeOK, Call
<1>2. [calls[n] EXCEPT !.tokens = tokens] \in Call
  BY <1>1 DEF TypeOK, Call
<1>3. [calls[n] EXCEPT !.pc = "ok", !.tokens = tokens] \in Call
  BY <1>1 DEF TypeOK, Call
<1>4. [calls EXCEPT ![n].pc = "ok", ![n].tokens = tokens]
        = [calls EXCEPT ![n] = [calls[n] EXCEPT !.pc = "ok", !.tokens = tokens]]
  BY DEF TypeOK
<1> QED BY <1>1, <1>2, <1>3, <1>4 DEF TypeOK, Coins

LEMMA EndType ==
    ASSUME TypeOK, NEW n \in Ids
    PROVE  [calls EXCEPT ![n] = NoCall] \in [Ids -> Call]
BY NoCallIsCall DEF TypeOK

LEMMA CoinType ==
    ASSUME TypeOK, NEW n \in Ids
    PROVE  calls[n].coin \in Coins
BY DEF TypeOK, Call

LEMMA SendType ==
    ASSUME TypeOK, NEW n \in Ids, NEW c \in Coins, NEW tokens \in SUBSET Tokens,
           Send(n, c, tokens)
    PROVE  calls' \in [Ids -> Call]
<1>1. [pc |-> "sent", coin |-> c, tokens |-> tokens] \in Call
  BY DEF Call
<1> QED BY <1>1 DEF TypeOK, Send

LEMMA ServesType ==
    ASSUME TypeOK, NEW n \in Ids, NEW tokens \in SUBSET calls[n].tokens, Serves(n, tokens)
    PROVE  kdf_coins' \subseteq Coins
<1>1. calls[n].tokens \subseteq Tokens /\ calls[n].coin \in Coins
  BY DEF TypeOK, Call
<1> QED BY <1>1 DEF TypeOK, Serves, Coins

\* What is taken from the queue as a group, but for the platform, are tokens.
LEMMA GroupType ==
    ASSUME TypeOK, NEW p \in Platforms
    PROVE  Group(p) \subseteq gui.todo /\ Group(p) \ {p} \subseteq Tokens
BY PlatformAssumption DEF TypeOK, Gui, Group, Coins

LEMMA TypeStep == TypeOK /\ [Next]_vars => TypeOK'
<1> SUFFICES ASSUME TypeOK, [Next]_vars PROVE TypeOK'
  OBVIOUS
<1> USE PlatformAssumption
<1>0. ASSUME Command PROVE commands' \in 0..MaxCommands
  BY <1>0 DEF TypeOK, Command
<1>1. CASE EnableCoins
  BY <1>0, <1>1 DEF TypeOK, EnableCoins, shown, histories
<1>2. CASE TakeQueue
  BY <1>2 DEF TypeOK, TakeQueue, GuiIdle, Gui, shown, histories
<1>3. ASSUME NEW p \in Platforms, StartGroup(p) PROVE TypeOK'
  <2>1. Group(p) \subseteq gui.todo /\ Group(p) \ {p} \subseteq Tokens /\ p \in Coins
    BY GroupType DEF Coins
  <2>2. calls' \in [Ids -> Call]
    BY <1>3, <2>1, SendType DEF TypeOK, StartGroup
  <2>3. gui' \in Gui
    <3>1. gui.todo \ Group(p) \in SUBSET Coins /\ Group(p) \ {p} \in SUBSET Tokens
      BY <2>1 DEF TypeOK, Gui
    <3>2. [gui EXCEPT !.todo = @ \ Group(p)] \in Gui
      BY <3>1 DEF TypeOK, Gui
    <3>3. [gui EXCEPT !.pc = "tokens", !.todo = @ \ Group(p), !.tokens = Group(p) \ {p}] \in Gui
      BY <3>1 DEF TypeOK, Gui
    <3> QED BY <1>3, <3>2, <3>3 DEF StartGroup
  <2>4. overlapped' \subseteq Coins
    BY <1>3, <2>1, PlatformAssumption DEF TypeOK, StartGroup, Send, Coins
  <2> QED BY <1>3, <2>1, <2>2, <2>3, <2>4 DEF TypeOK, StartGroup, shown
<1>4. ASSUME NEW t \in Tokens, SendToken(t) PROVE TypeOK'
  <2>1. t \in Coins
    BY DEF Coins
  <2>2. calls' \in [Ids -> Call]
    BY <1>4, <2>1, SendType DEF SendToken
  <2>3. overlapped' \subseteq Coins
    BY <1>4, <2>1 DEF TypeOK, SendToken, Send
  <2> QED BY <1>4, <2>1, <2>2, <2>3 DEF TypeOK, SendToken, Gui, shown
<1>5. CASE NextGroup
  BY <1>5 DEF TypeOK, NextGroup, GuiIdle, Gui, shown, histories
<1>6. ASSUME NEW n \in Ids, KdfAnswers(n) PROVE TypeOK'
  <2>1. calls' \in [Ids -> Call] /\ kdf_coins' \subseteq Coins
    <3>1. ASSUME NEW tokens \in SUBSET calls[n].tokens, Serves(n, tokens),
                 calls' = [calls EXCEPT ![n].pc = "ok", ![n].tokens = tokens]
          PROVE  calls' \in [Ids -> Call] /\ kdf_coins' \subseteq Coins
      BY <3>1, TokensType, ServesType
    <3>2. /\ [calls EXCEPT ![n].pc = "already"] \in [Ids -> Call]
          /\ [calls EXCEPT ![n].pc = "refused"] \in [Ids -> Call]
      BY MoveType
    <3> QED BY <1>6, <3>1, <3>2 DEF KdfAnswers, TypeOK
  <2> QED BY <1>6, <2>1 DEF TypeOK, KdfAnswers, shown, histories
<1>7. ASSUME NEW n \in Ids, AnswerLost(n) PROVE TypeOK'
  <2>1. kdf_coins' \subseteq Coins
    BY <1>7, ServesType DEF AnswerLost, TypeOK
  <2>2. calls' \in [Ids -> Call]
    BY <1>7, EndType DEF AnswerLost
  <2> QED BY <1>7, <2>1, <2>2 DEF TypeOK, AnswerLost, shown, histories
<1>8. ASSUME NEW n \in Ids, Callback(n) PROVE TypeOK'
  <2>1. CASE AnnounceCoin(n)
    <3>1. [calls EXCEPT ![n].pc = "lock"] \in [Ids -> Call] /\ calls[n].coin \in Coins
      BY MoveType, CoinType
    <3> QED BY <2>1, <3>1 DEF TypeOK, AnnounceCoin, Announced, shown, histories
  <2>2. CASE LockAndFlag(n)
    <3>1. [calls EXCEPT ![n].pc = "held"] \in [Ids -> Call] /\ calls[n].coin \in Coins
      BY MoveType, CoinType
    <3> QED BY <2>2, <3>1 DEF TypeOK, LockAndFlag, Flagged, shown, histories
  <2>3. CASE FlagAlreadyActivated(n)
    <3>1. [calls EXCEPT ![n].pc = "held_already"] \in [Ids -> Call] /\ calls[n].coin \in Coins
      BY MoveType, CoinType
    <3> QED BY <2>3, <3>1 DEF TypeOK, FlagAlreadyActivated, Flagged, Announced, shown, histories
  <2>4. CASE Refuse(n)
    BY <2>4, EndType, CoinType DEF TypeOK, Refuse, Unflagged, shown, histories
  <2>5. ASSUME NEW t \in Tokens, TendermintToken(n, t) PROVE TypeOK'
    <3>1. calls[n].tokens \ {t} \in SUBSET calls[n].tokens /\ t \in Coins
      BY DEF Coins
    <3>2. [calls EXCEPT ![n].tokens = calls[n].tokens \ {t}] \in [Ids -> Call]
      BY <3>1, TokensType
    <3> QED BY <2>5, <3>1, <3>2 DEF TypeOK, TendermintToken, Flagged, Announced, shown, histories
  <2>6. ASSUME NEW t \in Tokens, SlpToken(n, t) PROVE TypeOK'
    <3>1. [calls EXCEPT ![n].pc = "again"] \in [Ids -> Call] /\ t \in Coins
      BY MoveType DEF Coins
    <3> QED BY <2>6, <3>1 DEF TypeOK, SlpToken, Announced, shown, histories
  <2>7. CASE TokenAlreadyActivated(n) \/ RelockWaits(n)
    <3>1. [calls EXCEPT ![n].pc = "again"] \in [Ids -> Call]
          /\ [calls EXCEPT ![n].pc = "waits"] \in [Ids -> Call]
      BY MoveType
    <3> QED BY <2>7, <3>1 DEF TypeOK, TokenAlreadyActivated, RelockWaits, shown, histories
  <2>8. CASE RelockThrows(n) \/ LeaveCallback(n)
    BY <2>8, EndType DEF TypeOK, RelockThrows, LeaveCallback, MutexAfterCallback, shown, histories
  <2> QED BY <1>8, <2>1, <2>2, <2>3, <2>4, <2>5, <2>6, <2>7, <2>8 DEF Callback
<1>9. CASE DrainPortfolioQueue
  BY <1>9 DEF TypeOK, DrainPortfolioQueue, histories
<1>10. CASE DisableCoins
  <2>1. PICK request \in SUBSET rows : /\ rows' = rows \ request
                                       /\ gui' = [GuiIdle EXCEPT !.pc = "disabling", !.todo = request]
    BY <1>10 DEF DisableCoins
  <2>2. gui' \in Gui /\ rows' \subseteq Coins
    BY <2>1 DEF TypeOK, GuiIdle, Gui
  <2> QED BY <1>0, <1>10, <2>2 DEF TypeOK, DisableCoins, histories
<1>11. ASSUME NEW c \in Coins, DisableOne(c) PROVE TypeOK'
  BY <1>11 DEF TypeOK, DisableOne, Gui, histories
<1>12. CASE KdfDisables
  BY <1>12 DEF TypeOK, KdfDisables, Gui, shown, histories
<1>13. CASE KdfKeeps
  BY <1>13 DEF TypeOK, KdfKeeps, Gui, histories
<1>14. CASE ClearEnabled
  BY <1>14 DEF TypeOK, ClearEnabled, FlagAfterDisable, Gui, shown
<1>15. CASE DisableDone
  BY <1>15 DEF TypeOK, DisableDone, GuiIdle, Gui, shown, histories
<1>16. CASE UNCHANGED vars
  BY <1>16 DEF TypeOK, vars, shown, histories
<1> QED BY <1>1, <1>2, <1>3, <1>4, <1>5, <1>6, <1>7, <1>8, <1>9, <1>10, <1>11, <1>12, <1>13,
           <1>14, <1>15, <1>16 DEF Next, Update, Disabling

\* The variables keep their types, whatever the coins, the calls and the locks.
THEOREM TypeCorrect == Spec => []TypeOK
BY TypeInit, TypeStep, PTL DEF Spec

-----------------------------------------------------------------------------
(* What an operation does to the calls.                                    *)

Others(n) == \A m \in Ids \ {n} : calls'[m] = calls[m]

\* Call n is at pc now, with the tokens it had.
Moves(n, pc) ==
    /\ calls'[n].pc = pc /\ calls'[n].coin = calls[n].coin /\ calls'[n].tokens = calls[n].tokens
    /\ Others(n)

\* Call n has only these tokens left.
Keeps(n, pc, tokens) ==
    /\ calls'[n].pc = pc /\ calls'[n].coin = calls[n].coin /\ calls'[n].tokens = tokens
    /\ Others(n)

Ends(n) == calls'[n].pc = "idle" /\ calls'[n].tokens = {} /\ Others(n)

Sends(n, c, tokens) ==
    /\ calls[n].pc = "idle"
    /\ calls'[n].pc = "sent" /\ calls'[n].coin = c /\ calls'[n].tokens = tokens
    /\ Others(n)

LEMMA CallEffects ==
    ASSUME TypeOK, NEW n \in Ids
    PROVE  /\ AnnounceCoin(n) => Moves(n, "lock")
           /\ LockAndFlag(n) => Moves(n, "held")
           /\ FlagAlreadyActivated(n) => Moves(n, "held_already")
           /\ TokenAlreadyActivated(n) => Moves(n, "again")
           /\ RelockWaits(n) => Moves(n, "waits")
           /\ \A t \in Tokens : SlpToken(n, t) => Moves(n, "again")
           /\ \A t \in Tokens : TendermintToken(n, t) => Keeps(n, "held", calls[n].tokens \ {t})
           /\ Refuse(n) \/ AnswerLost(n) \/ RelockThrows(n) \/ LeaveCallback(n) => Ends(n)
<1> USE DEF Moves, Keeps, Ends, Others, TypeOK
<1>1. calls[n] \in Call
  OBVIOUS
<1>2. AnnounceCoin(n) => Moves(n, "lock")
  BY <1>1 DEF AnnounceCoin, Call
<1>3. LockAndFlag(n) => Moves(n, "held")
  BY <1>1 DEF LockAndFlag, Call
<1>4. FlagAlreadyActivated(n) => Moves(n, "held_already")
  BY <1>1 DEF FlagAlreadyActivated, Call
<1>5. TokenAlreadyActivated(n) => Moves(n, "again")
  BY <1>1 DEF TokenAlreadyActivated, Call
<1>6. RelockWaits(n) => Moves(n, "waits")
  BY <1>1 DEF RelockWaits, Call
<1>7. \A t \in Tokens : SlpToken(n, t) => Moves(n, "again")
  BY <1>1 DEF SlpToken, Call
<1>8. \A t \in Tokens : TendermintToken(n, t) => Keeps(n, "held", calls[n].tokens \ {t})
  BY <1>1 DEF TendermintToken, Call
<1>9. Refuse(n) \/ AnswerLost(n) \/ RelockThrows(n) \/ LeaveCallback(n) => Ends(n)
  BY <1>1 DEF Refuse, AnswerLost, RelockThrows, LeaveCallback, NoCall
<1> QED BY <1>2, <1>3, <1>4, <1>5, <1>6, <1>7, <1>8, <1>9

LEMMA AnswerEffects ==
    ASSUME TypeOK, NEW n \in Ids, KdfAnswers(n)
    PROVE  /\ calls[n].pc = "sent"
           /\ \/ Moves(n, "already") \/ Moves(n, "refused")
              \/ \E tokens \in SUBSET calls[n].tokens : Keeps(n, "ok", tokens)
<1> USE DEF Moves, Keeps, Others, TypeOK
<1>1. calls[n] \in Call /\ calls[n].pc = "sent"
  BY DEF KdfAnswers
<1>2. CASE calls' = [calls EXCEPT ![n].pc = "already"]
  BY <1>1, <1>2 DEF Call
<1>3. CASE calls' = [calls EXCEPT ![n].pc = "refused"]
  BY <1>1, <1>3 DEF Call
<1>4. CASE \E tokens \in SUBSET calls[n].tokens :
             calls' = [calls EXCEPT ![n].pc = "ok", ![n].tokens = tokens]
  <2>1. PICK tokens \in SUBSET calls[n].tokens :
              calls' = [calls EXCEPT ![n].pc = "ok", ![n].tokens = tokens]
    BY <1>4
  <2>2. Keeps(n, "ok", tokens)
    BY <1>1, <2>1 DEF Call
  <2> QED BY <1>1, <2>2
<1> QED BY <1>2, <1>3, <1>4 DEF KdfAnswers

LEMMA SendEffects ==
    ASSUME TypeOK, NEW n \in Ids, NEW c, NEW tokens, Send(n, c, tokens)
    PROVE  Sends(n, c, tokens)
BY DEF TypeOK, Send, Sends, Others, Running

-----------------------------------------------------------------------------
(* One owner.                                                              *)

LEMMA OwnerInit == Init => OnlyTheOwnerGoesThroughTokens
BY PlatformAssumption DEF Init, OnlyTheOwnerGoesThroughTokens, Ids, NoCall

LEMMA OwnerStep ==
    TypeOK /\ OnlyTheOwnerGoesThroughTokens /\ [Next]_vars => OnlyTheOwnerGoesThroughTokens'
<1> SUFFICES ASSUME TypeOK, OnlyTheOwnerGoesThroughTokens, [Next]_vars
             PROVE  OnlyTheOwnerGoesThroughTokens'
  OBVIOUS
<1> USE DEF OnlyTheOwnerGoesThroughTokens
<1>0. NoOwner \notin Ids
  BY PlatformAssumption DEF Ids
<1>1. CASE EnableCoins \/ TakeQueue \/ NextGroup \/ DrainPortfolioQueue
  BY <1>1 DEF EnableCoins, TakeQueue, NextGroup, DrainPortfolioQueue
<1>8. CASE DisableCoins \/ Disabling \/ KdfDisables \/ KdfKeeps
  BY <1>8 DEF DisableCoins, Disabling, DisableOne, ClearEnabled, DisableDone, KdfDisables, KdfKeeps
<1>2. ASSUME NEW p \in Platforms, StartGroup(p) PROVE OnlyTheOwnerGoesThroughTokens'
  BY <1>2, SendEffects DEF StartGroup, Sends, Others
<1>3. ASSUME NEW t \in Tokens, SendToken(t) PROVE OnlyTheOwnerGoesThroughTokens'
  BY <1>3, SendEffects DEF SendToken, Sends, Others
<1>4. ASSUME NEW n \in Ids, KdfAnswers(n) PROVE OnlyTheOwnerGoesThroughTokens'
  <2>1. UNCHANGED mutex
    BY <1>4 DEF KdfAnswers
  <2> QED BY <1>4, <2>1, AnswerEffects DEF Moves, Keeps, Others
<1>5. ASSUME NEW n \in Ids, AnswerLost(n) PROVE OnlyTheOwnerGoesThroughTokens'
  <2>1. UNCHANGED mutex /\ calls[n].pc = "sent" /\ Ends(n)
    BY <1>5, CallEffects DEF AnswerLost
  <2> QED BY <2>1 DEF Ends, Others
<1>6. ASSUME NEW n \in Ids, Callback(n) PROVE OnlyTheOwnerGoesThroughTokens'
  <2>1. CASE AnnounceCoin(n)
    <3>1. UNCHANGED mutex /\ calls[n].pc = "ok" /\ Moves(n, "lock")
      BY <2>1, CallEffects DEF AnnounceCoin
    <3> QED BY <3>1 DEF Moves, Others
  <2>2. CASE LockAndFlag(n)
    <3>1. mutex' = n /\ mutex = NoOwner /\ Moves(n, "held")
      BY <2>2, CallEffects DEF LockAndFlag, Free
    <3> QED BY <1>0, <3>1 DEF Moves, Others
  <2>3. CASE FlagAlreadyActivated(n)
    <3>1. mutex' = n /\ mutex = NoOwner /\ Moves(n, "held_already")
      BY <2>3, CallEffects DEF FlagAlreadyActivated, Free
    <3> QED BY <1>0, <3>1 DEF Moves, Others
  <2>4. CASE Refuse(n)
    <3>1. UNCHANGED mutex /\ calls[n].pc = "refused" /\ Ends(n)
      BY <2>4, CallEffects DEF Refuse
    <3> QED BY <3>1 DEF Ends, Others
  <2>5. ASSUME NEW t \in Tokens, TendermintToken(n, t) PROVE OnlyTheOwnerGoesThroughTokens'
    <3>1. UNCHANGED mutex /\ calls[n].pc = "held" /\ Keeps(n, "held", calls[n].tokens \ {t})
      BY <2>5, CallEffects DEF TendermintToken
    <3> QED BY <3>1 DEF Keeps, Others
  <2>6. ASSUME NEW t \in Tokens, SlpToken(n, t) PROVE OnlyTheOwnerGoesThroughTokens'
    <3>1. UNCHANGED mutex /\ calls[n].pc = "held" /\ Moves(n, "again")
      BY <2>6, CallEffects DEF SlpToken
    <3> QED BY <3>1 DEF Moves, Others
  <2>7. CASE TokenAlreadyActivated(n)
    <3>1. UNCHANGED mutex /\ calls[n].pc = "held_already" /\ Moves(n, "again")
      BY <2>7, CallEffects DEF TokenAlreadyActivated
    <3> QED BY <3>1 DEF Moves, Others
  <2>8. CASE RelockWaits(n)
    <3>1. UNCHANGED mutex /\ calls[n].pc = "again" /\ Moves(n, "waits")
      BY <2>8, CallEffects DEF RelockWaits
    <3> QED BY <3>1 DEF Moves, Others
  <2>9. CASE RelockThrows(n) \/ LeaveCallback(n)
    <3>1. /\ mutex' = NoOwner /\ Ends(n)
          /\ calls[n].pc \in {"held", "held_already", "again"}
      BY <2>9, CallEffects DEF RelockThrows, LeaveCallback, MutexAfterCallback
    <3> QED BY <1>0, <3>1 DEF Ends, Others
  <2> QED BY <1>6, <2>1, <2>2, <2>3, <2>4, <2>5, <2>6, <2>7, <2>8, <2>9 DEF Callback
<1>7. CASE UNCHANGED vars
  BY <1>7 DEF vars
<1> QED BY <1>1, <1>2, <1>3, <1>4, <1>5, <1>6, <1>7, <1>8 DEF Next, Update

\* Two callbacks are never past their lock at once, whatever a second lock does.
THEOREM OwnerIsAlone == Spec => []OnlyTheOwnerGoesThroughTokens
BY TypeInit, TypeStep, OwnerInit, OwnerStep, PTL DEF Spec

-----------------------------------------------------------------------------
(* Enabled coins are announced and shown, what is shown is enabled, and    *)
(* only the user takes a platform from under its tokens.                   *)

\* In "disabling" no coin is with the daemon.
NoCoinAsked == gui.pc = "disabling" => gui.coin = {}

\* The coins of disable_multiple_coins that are not asked for yet.
ToDisable == IF gui.pc \in {"disabling", "disable_rpc", "disabled"} THEN gui.todo ELSE {}

\* A callback that is about to flag its coin has announced it; if its row went since,
\* disable_coin has passed it over or will.
LockedAreShown ==
    \A n \in Ids :
        calls[n].pc = "lock" => calls[n].coin \in portfolio_queue \cup rows \cup ToDisable \cup hidden

\* What was announced is enabled or about to be, but for what the properties excuse.
AnnouncedAreFlagged ==
    \A c \in portfolio_queue \cup rows :
        \/ c \in currently_enabled \cup interrupted \cup overlapped
        \/ \E n \in Ids : calls[n].pc = "lock" /\ calls[n].coin = c

\* The coins a call has asked for, and those it may still announce or unflag.
Mentioned(n) == {calls[n].coin} \cup calls[n].tokens

Pending(n) ==
    (IF calls[n].pc \in {"sent", "ok", "already", "refused"} THEN {calls[n].coin} ELSE {})
        \cup (IF calls[n].pc \in {"sent", "ok", "lock", "held"} THEN calls[n].tokens ELSE {})

Excused == overlapped \cup interrupted

\* A coin is pending, shown, or on its way out: one of them at a time.
PendingAreNew ==
    \A n \in Ids :
        Pending(n) \cap (currently_enabled \cup portfolio_queue \cup rows \cup Leaving) \subseteq Excused

ShownOnce ==
    /\ portfolio_queue \cap rows \subseteq Excused
    /\ Leaving \cap (portfolio_queue \cup rows) \subseteq Excused

\* Two calls that mention a coin overlap.
OneCallPerCoin ==
    \A m, n \in Ids :
        m # n /\ Running(m) /\ Running(n) => Mentioned(m) \cap Mentioned(n) \subseteq overlapped

Served(p) == p \in currently_enabled \cup left \cup overlapped

\* Tokens are asked for one by one where their platform is served, and flagged by
\* a callback whose coin is.
TokensAreServed ==
    /\ \A t \in gui.tokens : Served(Parent[t])
    /\ \A n \in Ids :
         /\ Running(n) /\ calls[n].coin \in Tokens => Served(Parent[calls[n].coin])
         /\ calls[n].pc \in {"held", "held_already"} => Served(Parent[calls[n].coin])

\* The tokens of a call are those of its platform.
TokensAreOfTheCall ==
    \A n \in Ids : \A t \in calls[n].tokens : Parent[t] = calls[n].coin

PlatformInv ==
    /\ NoCoinAsked
    /\ EnabledAreShown
    /\ LockedAreShown
    /\ AnnouncedAreFlagged
    /\ PendingAreNew
    /\ ShownOnce
    /\ OneCallPerCoin
    /\ EnabledTokensHavePlatform
    /\ TokensAreServed
    /\ TokensAreOfTheCall

LEMMA PlatformInit == Init => PlatformInv
BY DEF Init, PlatformInv, NoCoinAsked, EnabledAreShown, LockedAreShown, AnnouncedAreFlagged,
       PendingAreNew, ShownOnce, OneCallPerCoin, EnabledTokensHavePlatform, TokensAreServed,
       TokensAreOfTheCall, NoCall, GuiIdle, Running, Pending, Leaving

\* What the types and the assumptions on the constants say of coins and calls.
LEMMA CoinFacts ==
    ASSUME TypeOK
    PROVE  /\ \A c \in Coins : Parent[c] \in Platforms
           /\ \A p \in Platforms : p \in Coins /\ Parent[p] = p /\ p \notin Tokens
           /\ \A t \in Tokens : t \in Coins /\ t \notin Platforms
           /\ \A n \in Ids : calls[n].coin \in Coins /\ calls[n].tokens \subseteq Tokens
           /\ gui.tokens \subseteq Tokens /\ currently_enabled \subseteq Coins
           /\ interrupted \subseteq Tokens
BY PlatformAssumption DEF TypeOK, Call, Coins, Gui

\* The steps of the GUI thread and of the daemon that leave the calls alone: a coin
\* keeps its flag or is on its way out.
LEMMA GuiKeeps ==
    ASSUME TypeOK, PlatformInv, NoCoinAsked',
           UNCHANGED <<calls, overlapped, interrupted>>,
           currently_enabled' \subseteq currently_enabled,
           currently_enabled \ currently_enabled' \subseteq Leaving \cap (Tokens \cup left'),
           left \subseteq left', hidden \subseteq hidden' \cup rows',
           portfolio_queue' \subseteq portfolio_queue,
           rows' \subseteq rows \cup portfolio_queue,
           portfolio_queue' \cap rows' \subseteq portfolio_queue \cap rows,
           Leaving' \subseteq Leaving \cup (rows \ rows'),
           gui'.tokens = {} \/ gui'.tokens = gui.tokens,
           currently_enabled' \cap (portfolio_queue \cup rows \cup Leaving \cup hidden)
             \subseteq portfolio_queue' \cup rows' \cup Leaving' \cup hidden',
           AboutToBeFlagged \cap (portfolio_queue \cup rows \cup ToDisable \cup hidden)
             \subseteq portfolio_queue' \cup rows' \cup ToDisable' \cup hidden'
    PROVE  PlatformInv'
<1> USE CoinFacts DEF PlatformInv
<1>1. LockedAreShown'
  BY DEF LockedAreShown, AboutToBeFlagged
<1>2. EnabledAreShown'
  BY DEF EnabledAreShown
<1>3. PendingAreNew'
  BY DEF PendingAreNew, Pending, Excused
<1>4. ShownOnce'
  BY DEF ShownOnce, Excused
<1>5. AnnouncedAreFlagged'
  BY DEF AnnouncedAreFlagged, ShownOnce, Excused
<1>6. OneCallPerCoin' /\ TokensAreOfTheCall'
  BY DEF OneCallPerCoin, TokensAreOfTheCall, Running, Mentioned
<1>7. \A p \in Platforms : Served(p) => Served(p)'
  BY DEF Served
<1>8. EnabledTokensHavePlatform' /\ TokensAreServed'
  BY <1>7 DEF EnabledTokensHavePlatform, TokensAreServed, Served, Running
<1> QED BY <1>1, <1>2, <1>3, <1>4, <1>5, <1>6, <1>8

\* A request for a coin that is neither served nor asked for, or is excused.
LEMMA SendKeeps ==
    ASSUME TypeOK, PlatformInv, NEW n \in Ids, NEW c \in Coins, NEW tokens \in SUBSET Tokens,
           Send(n, c, tokens), Leaving = {}, Leaving' = {}, NoCoinAsked', ToDisable' = {},
           gui'.tokens \subseteq Tokens, \A t \in gui'.tokens : Served(Parent[t]),
           c \in Tokens => Served(Parent[c]),
           \A t \in tokens : Parent[t] = c,
           UNCHANGED <<currently_enabled, portfolio_queue, rows, hidden, interrupted, left>>
    PROVE  PlatformInv'
<1> USE CoinFacts DEF PlatformInv
<1>1. Sends(n, c, tokens)
  BY SendEffects
<1>2. overlapped' = overlapped \cup {x \in {c} \cup tokens : Asked(x) \/ x \in currently_enabled}
  BY DEF Send
<1>3. EnabledAreShown'
  BY DEF EnabledAreShown
<1>4. LockedAreShown'
  BY <1>1 DEF LockedAreShown, Sends, Others, ToDisable, Leaving
<1>5. AnnouncedAreFlagged'
  BY <1>1, <1>2 DEF AnnouncedAreFlagged, Sends, Others
<1>6. PendingAreNew'
  <2>1. ASSUME NEW x \in {c} \cup tokens, x \in currently_enabled \cup portfolio_queue \cup rows
        PROVE  x \in overlapped' \cup interrupted
    BY <1>2, <2>1 DEF AnnouncedAreFlagged, Asked, Running
  <2>2. ASSUME NEW m \in Ids, NEW x \in Pending(m)', x \in currently_enabled \cup portfolio_queue \cup rows
        PROVE  x \in overlapped' \cup interrupted
    <3>1. CASE m = n
      BY <1>1, <2>1, <2>2, <3>1 DEF Sends, Pending
    <3>2. CASE m # n
      BY <1>1, <1>2, <2>2, <3>2 DEF Sends, Others, Pending, PendingAreNew, Excused
    <3> QED BY <3>1, <3>2
  <2> QED BY <2>2 DEF PendingAreNew, Excused
<1>7. ShownOnce'
  BY <1>2 DEF ShownOnce, Excused
<1>8. OneCallPerCoin'
  BY <1>1, <1>2 DEF OneCallPerCoin, Sends, Others, Running, Mentioned, Asked
<1>9. \A p \in Platforms : Served(p) => Served(p)'
  BY <1>2 DEF Served
<1>10. EnabledTokensHavePlatform' /\ TokensAreServed' /\ TokensAreOfTheCall'
  BY <1>1, <1>2, <1>9 DEF EnabledTokensHavePlatform, TokensAreServed, TokensAreOfTheCall, Sends,
     Others, Running
<1> QED BY <1>3, <1>4, <1>5, <1>6, <1>7, <1>8, <1>10

\* The steps of a callback that may only announce and flag its own coins, or excuse
\* them, and go on with fewer.
LEMMA FlagKeeps ==
    ASSUME TypeOK, PlatformInv, NEW n \in Ids, NEW c \in Coins,
           \/ /\ calls[n].pc \in {"lock", "already"} /\ c = calls[n].coin
              /\ calls'[n].tokens = calls[n].tokens
           \/ /\ calls[n].pc = "held" /\ c \in calls[n].tokens
              /\ calls'[n].tokens = calls[n].tokens \ {c},
           Others(n), calls'[n].coin = calls[n].coin,
           calls'[n].pc = IF calls[n].pc = "already" THEN "held_already" ELSE "held",
           currently_enabled' = currently_enabled \cup {c},
           portfolio_queue' = IF calls[n].pc = "lock" THEN portfolio_queue ELSE portfolio_queue \cup {c},
           left \ {c} \subseteq left', c \in Tokens \/ c \in currently_enabled',
           c \in Tokens => Served(Parent[c]),
           UNCHANGED <<gui, rows, hidden, overlapped, interrupted>>
    PROVE  PlatformInv'
<1> USE CoinFacts DEF PlatformInv
<1>0. /\ Running(n) /\ c \in Mentioned(n)
      /\ calls[n].pc # "lock" => c \in Pending(n)
      /\ Pending(n)' \subseteq Pending(n) \ {c}
      /\ calls[n].coin \notin calls[n].tokens
  BY DEF Running, Mentioned, Pending, TokensAreOfTheCall
<1>1. EnabledAreShown'
  BY DEF EnabledAreShown, LockedAreShown, ToDisable, Leaving
<1>2. LockedAreShown'
  BY DEF LockedAreShown, ToDisable, Others
<1>3. AnnouncedAreFlagged'
  BY DEF AnnouncedAreFlagged, Others
<1>4. PendingAreNew'
  <2>1. \A m \in Ids \ {n} : Pending(m)' = Pending(m)
    BY DEF Others, Pending
  <2>2. \A m \in Ids \ {n} : c \in Pending(m) => c \in overlapped
    BY <1>0 DEF OneCallPerCoin, Mentioned, Pending, Running
  <2> QED BY <1>0, <2>1, <2>2 DEF PendingAreNew, Leaving, Excused
<1>5. ShownOnce'
  BY <1>0 DEF ShownOnce, PendingAreNew, Leaving, Excused
<1>6. OneCallPerCoin' /\ TokensAreOfTheCall'
  BY DEF OneCallPerCoin, TokensAreOfTheCall, Running, Mentioned, Others
<1>7. \A p \in Platforms : Served(p) => Served(p)'
  BY DEF Served
<1>8. \A p \in Platforms : p = Parent[calls[n].coin] => Served(p)'
  BY <1>0, <1>7 DEF TokensAreServed, Served, Running, Coins
<1>9. EnabledTokensHavePlatform' /\ TokensAreServed'
  BY <1>0, <1>7, <1>8 DEF TokensAreOfTheCall, EnabledTokensHavePlatform, TokensAreServed, Served, Running, Others
<1> QED BY <1>1, <1>2, <1>3, <1>4, <1>5, <1>6, <1>9 DEF NoCoinAsked

\* The steps after which a call is over, or asks for no more than it did and flags
\* nothing: the coin it may take down was asked for twice or is its own.
LEMMA CallKeeps ==
    ASSUME TypeOK, PlatformInv, NEW n \in Ids, calls[n].pc \notin {"idle", "lock"}, Others(n),
           NEW pc \in {"idle", "ok", "already", "refused", "again", "waits"},
           calls'[n].pc = pc, calls'[n].tokens \subseteq calls[n].tokens,
           pc = "idle" => calls'[n].tokens = {},
           pc # "idle" => calls'[n].coin = calls[n].coin,
           pc \in {"ok", "already", "refused"} => calls[n].pc = "sent",
           \/ UNCHANGED currently_enabled
           \/ currently_enabled' = currently_enabled \ {calls[n].coin} /\ calls[n].pc = "refused",
           interrupted \subseteq interrupted', interrupted' \subseteq Tokens,
           portfolio_queue \subseteq portfolio_queue',
           portfolio_queue' \ portfolio_queue \subseteq interrupted',
           UNCHANGED <<gui, rows, hidden, overlapped, left>>
    PROVE  PlatformInv'
<1> USE CoinFacts DEF PlatformInv
<1>0. /\ Running(n) /\ Pending(n)' \subseteq Pending(n)
      /\ Running(n)' => Mentioned(n)' \subseteq Mentioned(n)
      /\ currently_enabled \ currently_enabled' \subseteq Pending(n)
  BY DEF Running, Mentioned, Pending
<1>1. EnabledAreShown'
  BY DEF EnabledAreShown, Leaving
<1>2. LockedAreShown'
  BY DEF LockedAreShown, ToDisable, Others
<1>3. \A c \in currently_enabled \ currently_enabled' : c \in Excused
  BY <1>0 DEF PendingAreNew, Excused
<1>4. AnnouncedAreFlagged'
  BY <1>0, <1>3 DEF AnnouncedAreFlagged, Others, Excused
<1>5. PendingAreNew'
  <2>1. \A m \in Ids : Pending(m)' \subseteq Pending(m)
    BY <1>0 DEF Others, Pending
  <2> QED BY <2>1 DEF PendingAreNew, Leaving, Excused
<1>6. ShownOnce'
  BY DEF ShownOnce, Leaving, Excused
<1>7. OneCallPerCoin' /\ TokensAreOfTheCall'
  <2>1. \A m \in Ids : Running(m)' => Running(m) /\ Mentioned(m)' \subseteq Mentioned(m)
    BY <1>0 DEF Others, Running, Mentioned
  <2>2. OneCallPerCoin'
    BY <2>1 DEF OneCallPerCoin
  <2>3. TokensAreOfTheCall'
    BY DEF TokensAreOfTheCall, Running, Mentioned, Others
  <2> QED BY <2>2, <2>3
<1>8. \A p \in Platforms : Served(p) => Served(p)'
  BY <1>3 DEF Served, Excused
<1>9. EnabledTokensHavePlatform' /\ TokensAreServed'
  BY <1>0, <1>8 DEF EnabledTokensHavePlatform, TokensAreServed, Served, Running, Others
<1> QED BY <1>1, <1>2, <1>4, <1>5, <1>6, <1>7, <1>9 DEF NoCoinAsked

LEMMA PlatformStep == TypeOK /\ PlatformInv /\ [Next]_vars => PlatformInv'
<1> SUFFICES ASSUME TypeOK, PlatformInv, [Next]_vars PROVE PlatformInv'
  OBVIOUS
<1> USE CoinFacts DEF PlatformInv, shown, histories
<1>0. gui \in Gui
  BY DEF TypeOK
<1>1. CASE EnableCoins
  BY <1>0, <1>1, GuiKeeps DEF EnableCoins, NoCoinAsked, Leaving, ToDisable
<1>2. CASE TakeQueue
  BY <1>0, <1>2, GuiKeeps DEF TakeQueue, GuiIdle, NoCoinAsked, Leaving, ToDisable
<1>3. CASE NextGroup
  <2>1. gui'.pc \in {"idle", "groups"} /\ gui'.tokens = {}
    BY <1>0, <1>3 DEF NextGroup, GuiIdle, Gui
  <2> QED BY <1>0, <1>3, <2>1, GuiKeeps DEF NextGroup, NoCoinAsked, Leaving, ToDisable
<1>4. CASE DrainPortfolioQueue
  BY <1>0, <1>4, GuiKeeps DEF DrainPortfolioQueue, NoCoinAsked, Leaving, ToDisable
<1>5. CASE DisableCoins
  <2>1. PICK request \in SUBSET rows : /\ rows' = rows \ request
                                       /\ gui' = [GuiIdle EXCEPT !.pc = "disabling", !.todo = request]
    BY <1>5 DEF DisableCoins
  <2>2. gui'.pc = "disabling" /\ gui'.todo = request /\ gui'.tokens = {} /\ gui'.coin = {}
    BY <2>1 DEF GuiIdle
  <2>3. UNCHANGED <<calls, currently_enabled, portfolio_queue, hidden, overlapped, interrupted, left>>
        /\ gui.pc = "idle"
    BY <1>5 DEF DisableCoins, Command
  <2>4. /\ Leaving = {} /\ ToDisable = {} /\ Leaving' = request /\ ToDisable' = request
        /\ NoCoinAsked'
    BY <2>2, <2>3 DEF NoCoinAsked, Leaving, ToDisable
  <2> QED BY <2>1, <2>2, <2>3, <2>4, GuiKeeps
<1>6. ASSUME NEW c \in Coins, DisableOne(c) PROVE PlatformInv'
  <2>1. /\ gui'.todo = gui.todo \ {c} /\ gui'.tokens = gui.tokens
        /\ \/ c \in currently_enabled /\ gui'.pc = "disable_rpc" /\ gui'.coin = {c}
           \/ c \notin currently_enabled /\ gui'.pc = "disabling" /\ gui'.coin = {}
        /\ gui.pc = "disabling" /\ c \in gui.todo /\ gui.coin = {}
    BY <1>0, <1>6 DEF DisableOne, Gui, NoCoinAsked
  <2>2. UNCHANGED <<currently_enabled, calls, portfolio_queue, rows, overlapped, interrupted, left>>
        /\ hidden' = hidden \cup ({c} \cap AboutToBeFlagged)
    BY <1>6 DEF DisableOne
  <2> QED BY <2>1, <2>2, GuiKeeps DEF NoCoinAsked, Leaving, ToDisable
<1>7. CASE KdfDisables
  <2>1. /\ gui.pc = "disable_rpc" /\ gui'.pc = "disabled"
        /\ gui'.todo = gui.todo /\ gui'.tokens = gui.tokens /\ gui'.coin = gui.coin
    BY <1>0, <1>7 DEF KdfDisables, Gui
  <2> QED BY <1>7, <2>1, GuiKeeps DEF KdfDisables, NoCoinAsked, Leaving, ToDisable
<1>8. CASE KdfKeeps
  <2>1. /\ gui.pc = "disable_rpc" /\ gui'.pc = "disabling"
        /\ gui'.todo = gui.todo /\ gui'.tokens = gui.tokens /\ gui'.coin = {}
    BY <1>0, <1>8 DEF KdfKeeps, Gui
  <2> QED BY <1>8, <2>1, GuiKeeps DEF KdfKeeps, NoCoinAsked, Leaving, ToDisable
<1>9. CASE ClearEnabled
  <2>1. /\ gui.pc = "disabled" /\ gui'.pc = "disabling"
        /\ gui'.todo = gui.todo /\ gui'.tokens = gui.tokens /\ gui'.coin = {}
        /\ gui.coin \subseteq Coins
    BY <1>0, <1>9 DEF ClearEnabled, Gui
  <2> QED BY <1>9, <2>1, GuiKeeps DEF ClearEnabled, FlagAfterDisable, NoCoinAsked, Leaving,
             ToDisable, Coins
<1>10. CASE DisableDone
  BY <1>0, <1>10, GuiKeeps DEF DisableDone, GuiIdle, NoCoinAsked, Leaving, ToDisable
<1>11. ASSUME NEW p \in Platforms, StartGroup(p) PROVE PlatformInv'
  <2>1. Group(p) \ {p} \in SUBSET Tokens /\ \A t \in Group(p) : Parent[t] = p
    BY GroupType DEF Group
  <2>2. /\ UNCHANGED <<currently_enabled, portfolio_queue, rows, hidden, interrupted, left>>
        /\ gui.pc = "groups"
    BY <1>11 DEF StartGroup
  <2>3. CASE UNCHANGED <<calls, overlapped>> /\ gui' = [gui EXCEPT !.todo = @ \ Group(p)]
    <3>1. gui'.pc = "groups" /\ gui'.tokens = gui.tokens
      BY <1>0, <2>2, <2>3 DEF Gui
    <3> QED BY <2>2, <2>3, <3>1, GuiKeeps DEF NoCoinAsked, Leaving, ToDisable
  <2>4. CASE /\ UNCHANGED <<calls, overlapped>> /\ PlatformEnabled(p)
             /\ gui' = [gui EXCEPT !.pc = "tokens", !.todo = @ \ Group(p), !.tokens = Group(p) \ {p}]
    <3>1. gui'.pc = "tokens" /\ gui'.tokens = Group(p) \ {p}
      BY <1>0, <2>4 DEF Gui
    <3>2. \A t \in gui'.tokens : Served(Parent[t])
      BY <2>1, <2>4, <3>1 DEF Served, PlatformEnabled
    <3> QED BY <2>1, <2>2, <2>4, <3>1, <3>2 DEF NoCoinAsked, Leaving, ToDisable, EnabledAreShown,
               LockedAreShown, AnnouncedAreFlagged, PendingAreNew, Pending, Excused, ShownOnce,
               OneCallPerCoin, Running, Mentioned, EnabledTokensHavePlatform, TokensAreServed, Served,
               TokensAreOfTheCall
  <2>5. CASE /\ \E n \in Ids : Send(n, p, Group(p) \ {p})
             /\ gui' = [gui EXCEPT !.todo = @ \ Group(p)]
    <3>1. gui'.pc = "groups" /\ gui'.tokens = gui.tokens
      BY <1>0, <2>2, <2>5 DEF Gui
    <3> QED BY <2>1, <2>2, <2>5, <3>1, SendKeeps DEF NoCoinAsked, Leaving, ToDisable, TokensAreServed
  <2> QED BY <1>11, <2>3, <2>4, <2>5 DEF StartGroup
<1>12. ASSUME NEW t \in Tokens, SendToken(t) PROVE PlatformInv'
  <2>1. /\ gui.pc = "tokens" /\ t \in gui.tokens
        /\ gui'.pc = "tokens" /\ gui'.tokens = gui.tokens \ {t}
        /\ UNCHANGED <<currently_enabled, portfolio_queue, rows, hidden, interrupted, left>>
    BY <1>0, <1>12 DEF SendToken, Gui
  <2>2. PICK n \in Ids : Send(n, t, {})
    BY <1>12 DEF SendToken
  <2> QED BY <2>1, <2>2, SendKeeps DEF NoCoinAsked, Leaving, ToDisable, TokensAreServed
<1>13. ASSUME NEW n \in Ids, KdfAnswers(n) PROVE PlatformInv'
  <2>1. UNCHANGED <<gui, currently_enabled, portfolio_queue, rows, hidden, overlapped, interrupted, left>>
        /\ calls[n].pc = "sent" /\ calls'[n].coin = calls[n].coin /\ Others(n)
        /\ calls'[n].tokens \subseteq calls[n].tokens /\ calls'[n].pc \in {"ok", "already", "refused"}
    BY <1>13, AnswerEffects DEF KdfAnswers, Moves, Keeps
  <2> QED BY <2>1, CallKeeps
<1>14. ASSUME NEW n \in Ids, AnswerLost(n) \/ Refuse(n) \/ RelockThrows(n) \/ LeaveCallback(n)
       PROVE  PlatformInv'
  <2>1. /\ UNCHANGED <<gui, portfolio_queue, rows, hidden, overlapped, interrupted, left>>
        /\ Ends(n)
        /\ \/ UNCHANGED currently_enabled
           \/ currently_enabled' = currently_enabled \ {calls[n].coin} /\ calls[n].pc = "refused"
        /\ calls[n].pc \in {"sent", "refused", "again", "held", "held_already"}
    BY <1>14, CallEffects DEF AnswerLost, Refuse, Unflagged, RelockThrows, LeaveCallback
  <2> QED BY <2>1, CallKeeps DEF Ends
<1>15. ASSUME NEW n \in Ids, TokenAlreadyActivated(n) \/ RelockWaits(n) PROVE PlatformInv'
  <2>1. /\ UNCHANGED <<gui, currently_enabled, portfolio_queue, rows, hidden, overlapped, interrupted, left>>
        /\ Moves(n, "again") \/ Moves(n, "waits")
        /\ calls[n].pc \in {"held_already", "again"}
    BY <1>15, CallEffects DEF TokenAlreadyActivated, RelockWaits
  <2> QED BY <2>1, CallKeeps DEF Moves
<1>16. ASSUME NEW n \in Ids, NEW t \in Tokens, SlpToken(n, t) PROVE PlatformInv'
  <2>1. /\ UNCHANGED <<gui, currently_enabled, rows, hidden, overlapped, left>>
        /\ portfolio_queue' = portfolio_queue \cup {t}
        /\ interrupted' = interrupted \cup {t}
        /\ Moves(n, "again") /\ calls[n].pc = "held"
    BY <1>16, CallEffects DEF SlpToken, Announced
  <2> QED BY <2>1, CallKeeps DEF Moves
<1>17. ASSUME NEW n \in Ids, AnnounceCoin(n) PROVE PlatformInv'
  <2>1. /\ UNCHANGED <<gui, currently_enabled, rows, hidden, overlapped, interrupted, left>>
        /\ portfolio_queue' = portfolio_queue \cup {calls[n].coin}
        /\ Moves(n, "lock") /\ calls[n].pc = "ok"
    BY <1>17, CallEffects DEF AnnounceCoin, Announced
  <2>2. EnabledAreShown'
    BY <2>1 DEF EnabledAreShown, Leaving
  <2>3. LockedAreShown' /\ AnnouncedAreFlagged'
    BY <2>1 DEF LockedAreShown, AnnouncedAreFlagged, ToDisable, Moves, Others
  <2>4. calls[n].coin \notin calls[n].tokens
    BY DEF TokensAreOfTheCall
  <2>5. PendingAreNew'
    <3>1. \A m \in Ids \ {n} : /\ Pending(m)' = Pending(m)
                               /\ calls[n].coin \in Pending(m) => calls[n].coin \in overlapped
      BY <2>1 DEF OneCallPerCoin, Mentioned, Pending, Running, Moves, Others
    <3>2. Pending(n)' = Pending(n) \ {calls[n].coin}
      BY <2>1, <2>4 DEF Pending, Moves
    <3> QED BY <2>1, <3>1, <3>2 DEF PendingAreNew, Leaving, Excused
  <2>6. ShownOnce'
    BY <2>1 DEF ShownOnce, PendingAreNew, Pending, Leaving, Excused
  <2>7. OneCallPerCoin' /\ TokensAreOfTheCall'
    BY <2>1 DEF OneCallPerCoin, TokensAreOfTheCall, Running, Mentioned, Moves, Others
  <2>8. EnabledTokensHavePlatform' /\ TokensAreServed' /\ NoCoinAsked'
    BY <2>1 DEF EnabledTokensHavePlatform, TokensAreServed, NoCoinAsked, Served, Running, Moves, Others
  <2> QED BY <2>2, <2>3, <2>5, <2>6, <2>7, <2>8
<1>18. ASSUME NEW n \in Ids, LockAndFlag(n) PROVE PlatformInv'
  <2>1. /\ Moves(n, "held") /\ calls[n].pc = "lock"
        /\ currently_enabled' = currently_enabled \cup {calls[n].coin}
        /\ left' = left \ {calls[n].coin}
        /\ UNCHANGED <<gui, portfolio_queue, rows, hidden, overlapped, interrupted>>
    BY <1>18, CallEffects DEF LockAndFlag, Flagged
  <2>2. calls[n].coin \in Tokens => Served(Parent[calls[n].coin])
    BY <2>1 DEF TokensAreServed, Running
  <2> QED BY <2>1, <2>2, FlagKeeps DEF Moves
<1>19. ASSUME NEW n \in Ids, FlagAlreadyActivated(n) PROVE PlatformInv'
  <2>1. /\ Moves(n, "held_already") /\ calls[n].pc = "already"
        /\ currently_enabled' = currently_enabled \cup {calls[n].coin}
        /\ left' = left \ {calls[n].coin}
        /\ portfolio_queue' = portfolio_queue \cup {calls[n].coin}
        /\ UNCHANGED <<gui, rows, hidden, overlapped, interrupted>>
    BY <1>19, CallEffects DEF FlagAlreadyActivated, Flagged, Announced
  <2>2. calls[n].coin \in Tokens => Served(Parent[calls[n].coin])
    BY <2>1 DEF TokensAreServed, Running
  <2> QED BY <2>1, <2>2, FlagKeeps DEF Moves
<1>20. ASSUME NEW n \in Ids, NEW t \in Tokens, TendermintToken(n, t) PROVE PlatformInv'
  <2>1. /\ Keeps(n, "held", calls[n].tokens \ {t}) /\ calls[n].pc = "held" /\ t \in calls[n].tokens
        /\ currently_enabled' = currently_enabled \cup {t}
        /\ portfolio_queue' = portfolio_queue \cup {t}
        /\ UNCHANGED <<gui, rows, hidden, overlapped, interrupted, left>>
    BY <1>20, CallEffects DEF TendermintToken, Flagged, Announced
  <2>2. Served(Parent[t])
    BY <2>1 DEF TokensAreServed, TokensAreOfTheCall
  <2> QED BY <2>1, <2>2, FlagKeeps DEF Keeps
<1>21. CASE UNCHANGED vars
  <2>1. /\ UNCHANGED <<gui, calls, currently_enabled, portfolio_queue, rows, hidden>>
        /\ UNCHANGED <<overlapped, interrupted, left>>
    BY <1>21 DEF vars
  <2> QED BY <2>1, GuiKeeps DEF NoCoinAsked, Leaving, ToDisable
<1> QED BY <1>1, <1>2, <1>3, <1>4, <1>5, <1>6, <1>7, <1>8, <1>9, <1>10, <1>11, <1>12, <1>13, <1>14,
           <1>15, <1>16, <1>17, <1>18, <1>19, <1>20, <1>21 DEF Next, Update, Disabling, Callback

\* Only the user takes a platform from under an enabled token, whichever answer came
\* first, was refused or was lost, unless two activations of the platform overlapped.
THEOREM TokensHavePlatform == Spec => []EnabledTokensHavePlatform
<1>1. PlatformInv => EnabledTokensHavePlatform
  BY DEF PlatformInv
<1> QED BY TypeInit, TypeStep, PlatformInit, PlatformStep, <1>1, PTL DEF Spec

\* What is enabled is announced or shown, or was hidden by a disabling that did not take
\* place; and with no call running what is announced or shown is enabled, but for what a
\* second lock or a second request excuses.
THEOREM AnnouncementsAreRight == Spec => []AnnouncementsAreTrue
<1>1. PlatformInv => AnnouncementsAreTrue
  BY DEF PlatformInv, AnnouncementsAreTrue, EnabledAreShown, ShownAreEnabledAtRest,
         AnnouncedAreFlagged, Running
<1> QED BY TypeInit, TypeStep, PlatformInit, PlatformStep, <1>1, PTL DEF Spec
=============================================================================
