--------------------------- MODULE Portfolio_proofs ---------------------------
(* Proofs about module Portfolio: the types, and the three invariants that  *)
(* tie the rows, the registry, the enabled marks and the dialog's count     *)
(* together, for any finite set of coins, any limit and any number of       *)
(* logins; and about what asks the world again and again: that the figures  *)
(* of the rows and the total agree (Prices), that only orders of enabled    *)
(* pairs are moved (MakerBot), what is left of a lost check (Watchers), and *)
(* that no coin that waits for its parameters is forgotten (Downloads).     *)
EXTENDS Portfolio, Prices, Watchers, Downloads, MakerBot, FiniteSetTheorems, SequenceTheorems, WellFoundedInduction, TLAPS

-----------------------------------------------------------------------------
(* Sets of coins are finite.                                               *)

LEMMA CoinsAreFinite ==
    ASSUME NEW S \in SUBSET Coins
    PROVE  IsFiniteSet(S) /\ Cardinality(S) \in Nat
  <1>1. IsFiniteSet(S)
    BY FS_Subset, PortfolioAssumption DEF PortfolioAssumption
  <1>. QED  BY <1>1, FS_CardinalityType

LEMMA DrainedAreCoins == TypeOK => ToInit \subseteq Coins
  BY DEF TypeOK, ToInit

LEMMA DisjointUnion ==
    ASSUME NEW S \in SUBSET Coins, NEW T \in SUBSET Coins, S \cap T = {}
    PROVE  Cardinality(S \cup T) = Cardinality(S) + Cardinality(T)
  <1>1. /\ IsFiniteSet(S) /\ Cardinality(S) \in Nat
        /\ IsFiniteSet(T) /\ Cardinality(T) \in Nat
    BY CoinsAreFinite
  <1>2. Cardinality(S \cap T) = 0
    BY FS_EmptySet
  <1>3. Cardinality(S \cup T) = Cardinality(S) + Cardinality(T) - Cardinality(S \cap T)
    BY <1>1, FS_Union
  <1>. QED  BY <1>1, <1>2, <1>3

-----------------------------------------------------------------------------
(* Rows are natural numbers because every registered coin has one, so the   *)
(* types are inductive only together with OneRowPerCoin.                   *)

Rows == TypeOK /\ OneRowPerCoin

LEMMA RowsInit == Init => Rows
  BY PortfolioAssumption DEF PortfolioAssumption, Init, Rows, TypeOK, OneRowPerCoin, Closed

LEMMA RowsSession ==
    ASSUME Rows, Login \/ KdfStarted \/ ClearPendingEvents \/ DisconnectSignals
    PROVE  Rows'
  <1>. USE PortfolioAssumption DEF PortfolioAssumption, Rows, TypeOK, OneRowPerCoin, life, cfg, table, history
  <1>1. CASE Login
    BY <1>1 DEF Login
  <1>2. CASE KdfStarted
    BY <1>2 DEF KdfStarted
  <1>3. CASE ClearPendingEvents
    BY <1>3 DEF ClearPendingEvents
  <1>4. CASE DisconnectSignals
    BY <1>4 DEF DisconnectSignals
  <1>. QED  BY <1>1, <1>2, <1>3, <1>4

LEMMA RowsAnnounce ==
    ASSUME Rows, NEW c \in Coins, Announce(c)
    PROVE  Rows'
  <1>1. [coin |-> c, session |-> session] \in [coin: Coins, session: Nat]
    BY PortfolioAssumption DEF PortfolioAssumption, Rows, TypeOK
  <1>. QED
    BY <1>1 DEF Rows, TypeOK, OneRowPerCoin, Announce, life, cfg, table, history

\* Ticking adds a row for the coins that had none.
LEMMA RowsTick ==
    ASSUME Rows, Tick
    PROVE  Rows'
  <1>1. ToInit \subseteq Coins
    BY DrainedAreCoins DEF Rows
  <1>2. Cardinality(RowsAnnounced(ToInit)) \in Nat
    BY <1>1, CoinsAreFinite DEF RowsAnnounced
  <1>3. view_rows' \in Int
    BY <1>2 DEF Rows, TypeOK, Tick
  <1>4. rows' \in [Coins -> Nat]
    BY DEF Rows, TypeOK, Tick
  <1>5. OneRowPerCoin'
    BY <1>1 DEF Rows, TypeOK, OneRowPerCoin, Tick, Datas
  <1>6. /\ stale' \subseteq Coins
        /\ cfg_enabled' \subseteq Coins
        /\ ticker_registry' \subseteq Coins
        /\ fully_enabled' \subseteq PrimaryDexCoins
    BY <1>1 DEF Rows, TypeOK, Tick, Datas, MarkedEnabled
  <1>. QED
    BY <1>3, <1>4, <1>5, <1>6 DEF Rows, TypeOK, Tick, life

\* Disabling takes one row of a coin that has exactly one.
LEMMA RowsDisable ==
    ASSUME Rows, NEW request \in SUBSET Coins, DisableCoins(request)
    PROVE  Rows'
  <1>1. Cardinality(request) \in Nat
    BY CoinsAreFinite
  <1>2. rows' \in [Coins -> Nat]
    BY DEF Rows, TypeOK, OneRowPerCoin, DisableCoins, Removed
  <1>3. OneRowPerCoin'
    BY DEF Rows, TypeOK, OneRowPerCoin, DisableCoins, Removed
  <1>. QED
    BY <1>1, <1>2, <1>3, PortfolioAssumption DEF PortfolioAssumption, Rows, TypeOK, DisableCoins, life

LEMMA RowsDialog ==
    ASSUME Rows,
           \/ OpenDialog \/ CloseDialog \/ EnableClicked \/ EnableRefused
           \/ \E c \in Coins : Check(c) \/ Uncheck(c)
           \/ \E coins \in SUBSET Coins : FilterCoins(coins)
    PROVE  Rows'
  <1>. USE DEF Rows, TypeOK, OneRowPerCoin, life, cfg, table, history, Closed, Unchecked, CountAfterClosing
  <1>1. CASE OpenDialog
    BY <1>1 DEF OpenDialog
  <1>2. CASE CloseDialog
    BY <1>2 DEF CloseDialog, Close
  <1>3. CASE EnableClicked
    BY <1>3 DEF EnableClicked, Close
  <1>4. CASE EnableRefused
    <2>1. Cardinality(ticker_registry) \in Nat
      BY CoinsAreFinite
    <2>2. refused' \in Int
      BY <1>4, <2>1, PortfolioAssumption DEF PortfolioAssumption, EnableRefused, StillEnableable
    <2>. QED  BY <1>4, <2>2 DEF EnableRefused, Close
  <1>5. CASE \E c \in Coins : Check(c) \/ Uncheck(c)
    BY <1>5 DEF Check, Uncheck
  <1>6. CASE \E coins \in SUBSET Coins : FilterCoins(coins)
    BY <1>6 DEF FilterCoins
  <1>. QED  BY <1>1, <1>2, <1>3, <1>4, <1>5, <1>6

LEMMA RowsStep == Rows /\ [Next]_vars => Rows'
  <1>. SUFFICES ASSUME Rows, [Next]_vars PROVE Rows'
    OBVIOUS
  <1>1. CASE UNCHANGED vars
    BY <1>1 DEF vars, Rows, TypeOK, OneRowPerCoin, life, cfg, table, history
  <1>. QED
    BY <1>1, RowsSession, RowsAnnounce, RowsTick, RowsDisable, RowsDialog DEF Next

\* The types of every variable, for any coins and any number of logins.
THEOREM TypeCorrect == Spec => []TypeOK
  <1>1. Rows => TypeOK
    BY DEF Rows
  <1>. QED  BY <1>1, RowsInit, RowsStep, PTL DEF Spec

\* portfolio_model::m_ticker_registry tells exactly which tickers have a row,
\* and no ticker has two, whatever is announced and however often.
THEOREM RowsMatchRegistry == Spec => []OneRowPerCoin
  <1>1. Rows => OneRowPerCoin
    BY DEF Rows
  <1>. QED  BY <1>1, RowsInit, RowsStep, PTL DEF Spec

-----------------------------------------------------------------------------
(* The rows and the enabled marks start a session together: the rows are    *)
(* empty from the end of the session before, the marks from the login.     *)

Marks ==
    /\ phase = "logged_out" => ticker_registry = {}
    /\ phase = "starting" => ticker_registry = {} /\ cfg_enabled = {}
    /\ ShownIsEnabledInCfg

LEMMA MarksInit == Init => Marks
  BY DEF Init, Marks, ShownIsEnabledInCfg

LEMMA MarksStep == Rows /\ Marks /\ [Next]_vars => Marks'
  <1>. SUFFICES ASSUME Rows, Marks, [Next]_vars PROVE Marks'
    OBVIOUS
  <1>. USE DEF Marks, ShownIsEnabledInCfg, life, cfg, table
  <1>1. CASE Login \/ KdfStarted \/ ClearPendingEvents \/ DisconnectSignals
    BY <1>1 DEF Login, KdfStarted, ClearPendingEvents, DisconnectSignals
  <1>2. CASE \E c \in Coins : Announce(c) \/ Check(c) \/ Uncheck(c)
    BY <1>2 DEF Announce, Check, Uncheck
  <1>3. CASE Tick
    BY <1>3 DEF Tick, MarkedEnabled
  <1>4. CASE \E coins \in SUBSET Coins : DisableCoins(coins) \/ FilterCoins(coins)
    BY <1>4 DEF DisableCoins, FilterCoins, Dashboard
  <1>5. CASE OpenDialog \/ CloseDialog \/ EnableClicked \/ EnableRefused
    BY <1>5 DEF OpenDialog, CloseDialog, EnableClicked, EnableRefused, Close
  <1>6. CASE UNCHANGED vars
    BY <1>6 DEF vars
  <1>. QED  BY <1>1, <1>2, <1>3, <1>4, <1>5, <1>6 DEF Next

\* portfolio_page updates the rows and the marks of global_coins_cfg_model one
\* after the other; between two handlers they are the same.
THEOREM RowsMatchMarks == Spec => []ShownIsEnabledInCfg
  <1>1. Marks => ShownIsEnabledInCfg
    BY DEF Marks
  <1>. QED  BY <1>1, RowsInit, RowsStep, MarksInit, MarksStep, PTL DEF Spec

-----------------------------------------------------------------------------
(* While the dialog is open every checked coin that is not enabled has been *)
(* counted; a closed dialog counts nothing.                                *)

Count ==
    IF dialog.open
    THEN /\ Cardinality(checked \ cfg_enabled) <= checked_nb
         /\ checked_nb <= Cardinality(checked)
    ELSE checked_nb = 0

LEMMA CountInit == Init => Count
  BY DEF Init, Count, Closed

LEMMA CountUntouched ==
    ASSUME Count, UNCHANGED <<cfg, dialog>>
    PROVE  Count'
  BY DEF Count, cfg

LEMMA CountLogin ==
    ASSUME Rows, Count, Login
    PROVE  Count'
  <1>1. checked' = {} /\ cfg_enabled' = {} /\ checked_nb' = 0
    BY DEF Login
  <1>2. checked' \ cfg_enabled' = {}
    BY <1>1
  <1>3. Cardinality(checked') = 0 /\ Cardinality(checked' \ cfg_enabled') = 0
    BY <1>1, <1>2, FS_EmptySet
  <1>. QED  BY <1>1, <1>3 DEF Count

LEMMA CountTick ==
    ASSUME Rows, Count, Tick
    PROVE  Count'
  <1>1. /\ checked' = checked
        /\ checked_nb' = checked_nb
        /\ dialog' = dialog
        /\ cfg_enabled \subseteq cfg_enabled'
    BY DEF Tick, MarkedEnabled
  <1>2. IsFiniteSet(checked \ cfg_enabled) /\ Cardinality(checked \ cfg_enabled) \in Nat
    BY CoinsAreFinite DEF Rows, TypeOK
  <1>3. checked' \ cfg_enabled' \in SUBSET (checked \ cfg_enabled)
    BY <1>1
  <1>4. Cardinality(checked' \ cfg_enabled') <= Cardinality(checked \ cfg_enabled)
    BY <1>2, <1>3, FS_Subset
  <1>5. checked' \ cfg_enabled' \in SUBSET Coins
    BY <1>1 DEF Rows, TypeOK
  <1>6. Cardinality(checked' \ cfg_enabled') \in Nat
    BY <1>5, CoinsAreFinite
  <1>. QED  BY <1>1, <1>2, <1>4, <1>6 DEF Count, Rows, TypeOK

LEMMA CountOpen ==
    ASSUME Rows, Count, OpenDialog
    PROVE  Count'
  <1>1. checked' = checked \cap cfg_enabled /\ checked_nb' = 0 /\ cfg_enabled' = cfg_enabled
    BY DEF OpenDialog, Unchecked
  <1>2. checked' \ cfg_enabled' = {}
    BY <1>1
  <1>3. Cardinality(checked' \ cfg_enabled') = 0
    BY <1>2, FS_EmptySet
  <1>4. checked' \in SUBSET Coins
    BY <1>1 DEF Rows, TypeOK
  <1>5. Cardinality(checked') \in Nat
    BY <1>4, CoinsAreFinite
  <1>. QED  BY <1>1, <1>3, <1>5 DEF Count

LEMMA CountCheck ==
    ASSUME Rows, Count, NEW c \in Coins, Check(c)
    PROVE  Count'
  <1>. DEFINE Counted == checked \ cfg_enabled
  <1>1. c \notin checked /\ c \notin cfg_enabled
    BY DEF Check, Visible
  <1>2. /\ checked' = checked \cup {c}
        /\ cfg_enabled' = cfg_enabled
        /\ checked_nb' = checked_nb + 1
        /\ dialog' = dialog
        /\ dialog.open
    BY DEF Check
  <1>3. checked' \ cfg_enabled' = Counted \cup {c}
    BY <1>1, <1>2
  <1>4. /\ IsFiniteSet(checked) /\ Cardinality(checked) \in Nat
        /\ IsFiniteSet(Counted) /\ Cardinality(Counted) \in Nat
    BY CoinsAreFinite DEF Rows, TypeOK
  <1>5. Cardinality(checked') = Cardinality(checked) + 1
    BY <1>1, <1>2, <1>4, FS_AddElement
  <1>6. Cardinality(checked' \ cfg_enabled') = Cardinality(Counted) + 1
    BY <1>1, <1>3, <1>4, FS_AddElement
  <1>7. Cardinality(Counted) <= checked_nb /\ checked_nb <= Cardinality(checked)
    BY <1>2 DEF Count
  <1>8. checked_nb \in Int
    BY DEF Rows, TypeOK
  <1>. HIDE DEF Counted
  <1>. QED  BY <1>2, <1>4, <1>5, <1>6, <1>7, <1>8 DEF Count

LEMMA CountUncheck ==
    ASSUME Rows, Count, NEW c \in Coins, Uncheck(c)
    PROVE  Count'
  <1>. DEFINE Counted == checked \ cfg_enabled
  <1>1. c \in checked /\ c \notin cfg_enabled
    BY DEF Uncheck, Visible
  <1>2. /\ checked' = checked \ {c}
        /\ cfg_enabled' = cfg_enabled
        /\ checked_nb' = checked_nb - 1
        /\ dialog' = dialog
        /\ dialog.open
    BY DEF Uncheck
  <1>3. checked' \ cfg_enabled' = Counted \ {c}
    BY <1>2
  <1>4. /\ IsFiniteSet(checked) /\ Cardinality(checked) \in Nat
        /\ IsFiniteSet(Counted) /\ Cardinality(Counted) \in Nat
    BY CoinsAreFinite DEF Rows, TypeOK
  <1>5. Cardinality(checked') = Cardinality(checked) - 1
    BY <1>1, <1>2, <1>4, FS_RemoveElement
  <1>6. Cardinality(checked' \ cfg_enabled') = Cardinality(Counted) - 1
    BY <1>1, <1>3, <1>4, FS_RemoveElement
  <1>7. Cardinality(Counted) <= checked_nb /\ checked_nb <= Cardinality(checked)
    BY <1>2 DEF Count
  <1>8. checked_nb \in Int
    BY DEF Rows, TypeOK
  <1>. HIDE DEF Counted
  <1>. QED  BY <1>2, <1>4, <1>5, <1>6, <1>7, <1>8 DEF Count

LEMMA CountStep == Rows /\ Count /\ [Next]_vars => Count'
  <1>. SUFFICES ASSUME Rows, Count, [Next]_vars PROVE Count'
    OBVIOUS
  <1>1. CASE KdfStarted \/ ClearPendingEvents \/ DisconnectSignals \/ (\E c \in Coins : Announce(c)) \/ UNCHANGED vars
    BY <1>1, CountUntouched DEF KdfStarted, ClearPendingEvents, DisconnectSignals, Announce, vars
  <1>2. CASE \E coins \in SUBSET Coins : DisableCoins(coins)
    BY <1>2 DEF DisableCoins, Count
  <1>3. CASE \E coins \in SUBSET Coins : FilterCoins(coins)
    BY <1>3 DEF FilterCoins, Count, cfg, Rows, TypeOK
  <1>4. CASE CloseDialog \/ EnableClicked \/ EnableRefused
    BY <1>4 DEF CloseDialog, EnableClicked, EnableRefused, Close, Closed, CountAfterClosing, Count
  <1>. QED
    BY <1>1, <1>2, <1>3, <1>4, CountLogin, CountTick, CountOpen, CountCheck, CountUncheck DEF Next

LEMMA CountImplies == Rows /\ Count => CountedCoinsAreChecked
  <1>. SUFFICES ASSUME Rows, Count PROVE checked_nb \in 0..Cardinality(checked)
    BY DEF CountedCoinsAreChecked
  <1>1. /\ Cardinality(checked) \in Nat
        /\ Cardinality(checked \ cfg_enabled) \in Nat
    BY CoinsAreFinite DEF Rows, TypeOK
  <1>2. checked_nb \in Int
    BY DEF Rows, TypeOK
  <1>. QED  BY <1>1, <1>2 DEF Count

\* m_checked_nb is never negative and never more than the coins checked, though
\* ticks change under the open dialog which of them it shows.
THEOREM CountNeverExceedsChecked == Spec => []CountedCoinsAreChecked
  BY RowsInit, RowsStep, CountInit, CountStep, CountImplies, PTL DEF Spec

-----------------------------------------------------------------------------
(* The views' number of rows, which only ticks and disabling change while a *)
(* session runs.                                                           *)

LEMMA ViewsInit == Init => ViewsMissNoRow
  BY FS_EmptySet DEF Init, ViewsMissNoRow

\* All drained tickers are announced, so the new rows are among them.
LEMMA ViewsTick ==
    ASSUME Rows, ViewsMissNoRow, Tick
    PROVE  ViewsMissNoRow'
  <1>. DEFINE New == Datas(ToInit)
  <1>1. ToInit \in SUBSET Coins /\ New \in SUBSET ToInit
    BY DrainedAreCoins DEF Rows, Datas
  <1>2. ticker_registry' = ticker_registry \cup New
    BY DEF Tick, Datas
  <1>3. /\ IsFiniteSet(ticker_registry) /\ Cardinality(ticker_registry) \in Nat
        /\ IsFiniteSet(ToInit) /\ Cardinality(ToInit) \in Nat
        /\ view_rows \in Int
    BY <1>1, CoinsAreFinite DEF Rows, TypeOK
  <1>4. CASE New = {}
    <2>1. ticker_registry' = ticker_registry /\ view_rows' = view_rows
      BY <1>2, <1>4 DEF Tick
    <2>. QED  BY <2>1 DEF ViewsMissNoRow
  <1>5. CASE New # {}
    <2>1. view_rows' = view_rows + Cardinality(ToInit)
      BY <1>5 DEF Tick, RowsAnnounced
    <2>2. IsFiniteSet(New) /\ Cardinality(New) \in Nat /\ Cardinality(New) <= Cardinality(ToInit)
      BY <1>1, <1>3, FS_Subset, FS_CardinalityType
    <2>3. ticker_registry \cap New = {}
      BY DEF Datas
    <2>4. Cardinality(ticker_registry') = Cardinality(ticker_registry) + Cardinality(New)
      BY <1>1, <1>2, <2>3, DisjointUnion DEF Rows, TypeOK
    <2>. HIDE DEF New
    <2>. QED  BY <1>3, <2>1, <2>2, <2>4 DEF ViewsMissNoRow
  <1>. QED  BY <1>4, <1>5

LEMMA ViewsDisable ==
    ASSUME Rows, ViewsMissNoRow, NEW request \in SUBSET Coins, DisableCoins(request)
    PROVE  ViewsMissNoRow'
  <1>. DEFINE Kept == ticker_registry \ request
  <1>1. ticker_registry' = Kept /\ view_rows' = view_rows - Cardinality(request)
    BY DEF DisableCoins
  <1>2. ticker_registry = Kept \cup request /\ Kept \cap request = {}
    BY DEF DisableCoins
  <1>3. Kept \in SUBSET Coins
    BY DEF Rows, TypeOK
  <1>4. /\ IsFiniteSet(Kept) /\ Cardinality(Kept) \in Nat
        /\ IsFiniteSet(request) /\ Cardinality(request) \in Nat
        /\ view_rows \in Int
    BY <1>3, CoinsAreFinite DEF Rows, TypeOK
  <1>5. Cardinality(Kept \cup request) = Cardinality(Kept) + Cardinality(request)
    BY <1>2, <1>3, DisjointUnion
  <1>6. Cardinality(ticker_registry) = Cardinality(Kept) + Cardinality(request)
    BY <1>2, <1>5
  <1>. HIDE DEF Kept
  <1>. QED  BY <1>1, <1>4, <1>6 DEF ViewsMissNoRow

LEMMA ViewsStep == Rows /\ ViewsMissNoRow /\ [Next]_vars => ViewsMissNoRow'
  <1>. SUFFICES ASSUME Rows, ViewsMissNoRow, [Next]_vars PROVE ViewsMissNoRow'
    OBVIOUS
  <1>1. CASE DisconnectSignals
    BY <1>1, FS_EmptySet DEF DisconnectSignals, ViewsMissNoRow
  <1>2. CASE Login \/ KdfStarted \/ ClearPendingEvents \/ UNCHANGED vars
    BY <1>2 DEF Login, KdfStarted, ClearPendingEvents, vars, table, ViewsMissNoRow
  <1>3. CASE \E c \in Coins : Announce(c) \/ Check(c) \/ Uncheck(c)
    BY <1>3 DEF Announce, Check, Uncheck, table, ViewsMissNoRow
  <1>4. CASE OpenDialog \/ \E coins \in SUBSET Coins : FilterCoins(coins)
    BY <1>4 DEF OpenDialog, FilterCoins, table, ViewsMissNoRow
  <1>5. CASE CloseDialog \/ EnableClicked \/ EnableRefused
    BY <1>5 DEF CloseDialog, EnableClicked, EnableRefused, Close, table, ViewsMissNoRow
  <1>. QED  BY <1>1, <1>2, <1>3, <1>4, <1>5, ViewsTick, ViewsDisable DEF Next

\* However coins are announced, disabled and announced again, the views never
\* count fewer rows than the portfolio has.
THEOREM ViewsCountEveryRow == Spec => []ViewsMissNoRow
  BY RowsInit, RowsStep, ViewsInit, ViewsStep, PTL DEF Spec

\* The four containers the portfolio is spread over agree in every reachable state: the
\* registry with the rows, the rows with the marks of the dialog's list, the views
\* with the rows, the count of the dialog with what is checked.
THEOREM ContainersStayTogether == Spec => []ContainersAgree
<1>1. OneRowPerCoin /\ ShownIsEnabledInCfg /\ ViewsMissNoRow /\ CountedCoinsAreChecked => ContainersAgree
  BY DEF ContainersAgree
<1> QED BY RowsMatchRegistry, RowsMatchMarks, ViewsCountEveryRow, CountNeverExceedsChecked, <1>1, PTL

-----------------------------------------------------------------------------
(* Module Prices: what the rows are worth.  First the search for a currency *)
(* that has a rate, then the figures.                                      *)

\* A non-empty set of numbers has a least one.
LEMMA LeastNumber ==
    ASSUME NEW T \in SUBSET Nat, T # {}
    PROVE  \E m \in T : \A n \in T : m <= n
<1>1. \E m \in T : \A n \in T : <<n, m>> \notin OpToRel(<, Nat)
  BY NatLessThanWellFounded, WFMin
<1>2. PICK m \in T : \A n \in T : <<n, m>> \notin OpToRel(<, Nat)
  BY <1>1
<1>3. \A n \in T : ~(n < m)
  BY <1>2 DEF OpToRel
<1> QED BY <1>3

\* Where every try up to the n-th has a value, so has the one after it: the tries are
\* a function, each the currency after the one before.
LEMMA TriesAreMade ==
    ASSUME NEW c, Len(possible) \in Nat
    PROVE  /\ DOMAIN Tried(c) = 0..(Len(possible) + 1)
           /\ Tried(c)[0] = c
           /\ \A n \in 1..(Len(possible) + 1) : Tried(c)[n] = After(Tried(c)[n - 1])
<1> DEFINE N == Len(possible) + 1
           IsTry(f, n) == /\ f = [k \in 0..n |-> f[k]] /\ f[0] = c
                          /\ \A k \in 1..n : f[k] = After(f[k - 1])
           Missing == {n \in Nat : ~ \E f : IsTry(f, n)}
<1>1. Missing = {}
  <2> SUFFICES ASSUME Missing # {} PROVE FALSE
    OBVIOUS
  <2>1. PICK m \in Missing : \A n \in Missing : m <= n
    BY LeastNumber
  <2>2. CASE m = 0
    <3>1. IsTry([k \in 0..0 |-> c], 0)
      OBVIOUS
    <3> QED BY <3>1, <2>1, <2>2
  <2>3. CASE m # 0
    <3>1. m \in Nat /\ m - 1 \in Nat /\ m - 1 \notin Missing
      BY <2>1, <2>3
    <3>2. PICK f : IsTry(f, m - 1)
      BY <3>1
    <3> DEFINE g == [k \in 0..m |-> IF k <= m - 1 THEN f[k] ELSE After(f[m - 1])]
    <3>3. g = [k \in 0..m |-> g[k]] /\ g[0] = c
      BY <3>1, <3>2
    <3>4. ASSUME NEW k \in 1..m PROVE g[k] = After(g[k - 1])
      <4>1. k - 1 \in 0..m /\ k - 1 <= m - 1 /\ k \in 0..m
        BY <3>1
      <4>2. g[k - 1] = f[k - 1]
        BY <4>1
      <4>3. CASE k <= m - 1
        <5>1. k \in 1..(m - 1) /\ g[k] = f[k]
          BY <4>1, <4>3, <3>1
        <5>2. f[k] = After(f[k - 1])
          BY <5>1, <3>2
        <5> QED BY <5>1, <5>2, <4>2
      <4>4. CASE ~(k <= m - 1)
        <5>1. k = m /\ g[k] = After(f[m - 1])
          BY <4>4, <4>1, <3>1
        <5> QED BY <5>1, <4>2
      <4> QED BY <4>3, <4>4
    <3>5. IsTry(g, m)
      BY <3>3, <3>4
    <3> QED BY <3>5, <2>1
  <2> QED BY <2>2, <2>3
<1> N \in Nat
  OBVIOUS
<1>2. PICK f : IsTry(f, N)
  <2>1. N \notin Missing
    BY <1>1
  <2> QED BY <2>1
<1>3. f = [n \in 0..N |-> IF n = 0 THEN c ELSE After(f[n - 1])]
  <2>1. ASSUME NEW n \in 0..N PROVE f[n] = IF n = 0 THEN c ELSE After(f[n - 1])
    <3>1. n = 0 \/ n \in 1..N
      OBVIOUS
    <3> QED BY <3>1, <1>2
  <2> QED BY <2>1, <1>2
<1> DEFINE Try == CHOOSE try : try = [n \in 0..N |-> IF n = 0 THEN c ELSE After(try[n - 1])]
<1>4. Try = [n \in 0..N |-> IF n = 0 THEN c ELSE After(Try[n - 1])]
  BY <1>3
<1>5. Tried(c) = Try
  BY DEF Tried
<1> HIDE DEF Try
<1> QED BY <1>4, <1>5

\* possible_currencies: the fiat, then coins, none twice.
ListOk ==
    /\ fiat \in AllFiats
    /\ possible = <<fiat>> \o CoinCurrencies

LEMMA PossibleOnes ==
    ASSUME ListOk
    PROVE  /\ possible \in Seq(AllFiats \cup CoinsOf) /\ Len(possible) \in Nat /\ Len(possible) >= 2
           /\ possible[1] = fiat
           /\ \A i \in 2..Len(possible) : possible[i] \in CoinsOf
           /\ \A d \in CoinsOf : \E i \in 2..Len(possible) : possible[i] = d
           /\ \A i, j \in 1..Len(possible) : possible[i] = possible[j] => i = j
<1>1. /\ CoinCurrencies \in Seq(STRING) /\ Len(CoinCurrencies) \in Nat /\ Len(CoinCurrencies) >= 1
      /\ DOMAIN CoinCurrencies = 1..Len(CoinCurrencies)
  BY PricesAssumption, EmptySeq, LenProperties DEF PricesAssumption
<1>2. \A i \in 1..Len(CoinCurrencies) : CoinCurrencies[i] \in CoinsOf
  BY <1>1 DEF CoinsOf, ToSet
<1>3. CoinsOf \cap AllFiats = {}
  BY PricesAssumption DEF PricesAssumption, CoinsOf, AllFiats
<1>4. CoinCurrencies \in Seq(CoinsOf)
  BY <1>1, <1>2
<1>5. <<fiat>> \in Seq(AllFiats) /\ Len(<<fiat>>) = 1 /\ <<fiat>>[1] = fiat
  BY DEF ListOk
<1>6. /\ possible \in Seq(AllFiats \cup CoinsOf)
      /\ Len(possible) = 1 + Len(CoinCurrencies)
      /\ possible[1] = fiat
      /\ \A i \in 2..Len(possible) : possible[i] = CoinCurrencies[i - 1]
  <2>1. <<fiat>> \in Seq(AllFiats \cup CoinsOf) /\ CoinCurrencies \in Seq(AllFiats \cup CoinsOf)
    BY <1>4, <1>5
  <2> QED BY <2>1, <1>1, <1>5, ConcatProperties DEF ListOk
<1>7. \A i \in 2..Len(possible) : i - 1 \in 1..Len(CoinCurrencies) /\ possible[i] \in CoinsOf
  BY <1>1, <1>2, <1>6
<1>8. ASSUME NEW i \in 1..Len(possible), NEW j \in 1..Len(possible), possible[i] = possible[j]
      PROVE  i = j
  <2>1. possible[1] \notin CoinsOf
    BY <1>3, <1>6 DEF ListOk
  <2>2. CASE i = 1 \/ j = 1
    BY <2>1, <2>2, <1>1, <1>6, <1>7, <1>8
  <2>3. CASE i # 1 /\ j # 1
    <3>1. i \in 2..Len(possible) /\ j \in 2..Len(possible)
      BY <2>3, <1>1, <1>6
    <3>2. CoinCurrencies[i - 1] = CoinCurrencies[j - 1]
      BY <3>1, <1>6, <1>8
    <3>3. i - 1 = j - 1
      BY <3>1, <3>2, <1>1, <1>7, PricesAssumption DEF PricesAssumption
    <3> QED BY <3>1, <3>3
  <2> QED BY <2>2, <2>3
<1>9. ASSUME NEW d \in CoinsOf PROVE \E i \in 2..Len(possible) : possible[i] = d
  <2>1. PICK k \in 1..Len(CoinCurrencies) : CoinCurrencies[k] = d
    BY <1>1 DEF CoinsOf, ToSet
  <2>2. k + 1 \in 2..Len(possible) /\ possible[k + 1] = CoinCurrencies[k]
    BY <1>1, <1>6
  <2> QED BY <2>1, <2>2
<1> QED BY <1>1, <1>6, <1>7, <1>8, <1>9

\* change_fiat and change_currency put a fiat in the first place.
LEMMA FirstReplaced ==
    ASSUME ListOk, NEW f
    PROVE  [possible EXCEPT ![1] = f] = <<f>> \o CoinCurrencies
<1>1. CoinCurrencies \in Seq(STRING) /\ Len(CoinCurrencies) \in Nat
  BY PricesAssumption, LenProperties DEF PricesAssumption
<1> DEFINE T == STRING \cup {fiat, f}
<1>2. CoinCurrencies \in Seq(T) /\ <<fiat>> \in Seq(T) /\ <<f>> \in Seq(T)
      /\ Len(<<fiat>>) = 1 /\ Len(<<f>>) = 1 /\ <<fiat>>[1] = fiat /\ <<f>>[1] = f
  BY <1>1
<1> HIDE DEF T
<1>3. /\ possible \in Seq(T) /\ Len(possible) = 1 + Len(CoinCurrencies)
      /\ \A i \in 1..Len(possible) : possible[i] = IF i <= 1 THEN <<fiat>>[i] ELSE CoinCurrencies[i - 1]
  BY <1>2, ConcatProperties DEF ListOk
<1>4. /\ <<f>> \o CoinCurrencies \in Seq(T) /\ Len(<<f>> \o CoinCurrencies) = 1 + Len(CoinCurrencies)
      /\ \A i \in 1..Len(<<f>> \o CoinCurrencies) :
            (<<f>> \o CoinCurrencies)[i] = IF i <= 1 THEN <<f>>[i] ELSE CoinCurrencies[i - 1]
  BY <1>2, ConcatProperties
<1>5. [possible EXCEPT ![1] = f] \in Seq(T) /\ Len([possible EXCEPT ![1] = f]) = Len(possible)
  BY <1>1, <1>3 DEF T
<1>6. \A i \in 1..Len(possible) : [possible EXCEPT ![1] = f][i] = (<<f>> \o CoinCurrencies)[i]
  BY <1>1, <1>2, <1>3, <1>4
<1> QED BY <1>3, <1>4, <1>5, <1>6, SeqEqual

\* The next in line: of the one before the last the last, of the last and of one that
\* is not in the list the first.
LEMMA NextInLine ==
    ASSUME ListOk
    PROVE  /\ \A i \in 1..(Len(possible) - 1) : After(possible[i]) = possible[i + 1]
           /\ After(possible[Len(possible)]) = possible[1]
           /\ \A c : (\A i \in 1..Len(possible) : possible[i] # c) => After(c) = possible[1]
<1>1. /\ Len(possible) \in Nat /\ Len(possible) >= 2
      /\ \A i, j \in 1..Len(possible) : possible[i] = possible[j] => i = j
  BY PossibleOnes
<1>2. ASSUME NEW i \in 1..Len(possible)
      PROVE  SelectInSeq(possible, LAMBDA p : p = possible[i]) = i
  <2>1. {j \in 1..Len(possible) : possible[j] = possible[i]} = {i}
    BY <1>1
  <2>2. Min({i}) = i
    BY <1>1 DEF Min
  <2> QED BY <2>1, <2>2 DEF SelectInSeq
<1>3. ASSUME NEW c, \A i \in 1..Len(possible) : possible[i] # c
      PROVE  After(c) = possible[1]
  <2>1. {j \in 1..Len(possible) : possible[j] = c} = {}
    BY <1>3
  <2>2. SelectInSeq(possible, LAMBDA p : p = c) = 0
    BY <2>1 DEF SelectInSeq
  <2>3. 0 \notin 1..(Len(possible) - 1)
    OBVIOUS
  <2> QED BY <2>2, <2>3, Zenon DEF After
<1>4. ASSUME NEW i \in 1..(Len(possible) - 1) PROVE After(possible[i]) = possible[i + 1]
  <2>1. i \in 1..Len(possible)
    BY <1>1
  <2> QED BY <2>1, <1>2 DEF After
<1>5. ASSUME NEW i \in 1..Len(possible), i = Len(possible) PROVE After(possible[i]) = possible[1]
  <2>1. i \notin 1..(Len(possible) - 1)
    BY <1>1, <1>5
  <2>2. SelectInSeq(possible, LAMBDA p : p = possible[i]) \notin 1..(Len(possible) - 1)
    BY <2>1, <1>2
  <2> QED BY <2>2, Zenon DEF After
<1>6. After(possible[Len(possible)]) = possible[1]
  BY <1>1, <1>5
<1> QED BY <1>3, <1>4, <1>6

Currencies == AllFiats \cup CoinsOf

\* Every try is a currency of the settings.
LEMMA NextIsInTheList ==
    ASSUME ListOk, NEW c
    PROVE  \E i \in 1..Len(possible) : After(c) = possible[i]
<1>1. Len(possible) \in Nat /\ Len(possible) >= 2
  BY PossibleOnes
<1>2. CASE \A i \in 1..Len(possible) : possible[i] # c
  BY <1>1, <1>2, NextInLine
<1>3. ASSUME NEW i \in 1..Len(possible), possible[i] = c PROVE \E j \in 1..Len(possible) : After(c) = possible[j]
  <2>1. CASE i = Len(possible)
    BY <2>1, <1>1, <1>3, NextInLine
  <2>2. CASE i # Len(possible)
    <3>1. i \in 1..(Len(possible) - 1) /\ i + 1 \in 1..Len(possible)
      BY <2>2, <1>1
    <3> QED BY <3>1, <1>3, NextInLine
  <2> QED BY <2>1, <2>2
<1> QED BY <1>2, <1>3

LEMMA TriesAreCurrencies ==
    ASSUME ListOk, NEW c \in Currencies
    PROVE  /\ After(c) \in Currencies
           /\ FirstAvailable(c) \subseteq Currencies
<1>1. /\ Len(possible) \in Nat
      /\ \A i \in 1..Len(possible) : possible[i] \in Currencies
  BY PossibleOnes DEF Currencies
<1>2. \A d : After(d) \in Currencies
  BY <1>1, NextIsInTheList
<1>3. ASSUME NEW n \in 0..(Len(possible) + 1) PROVE Tried(c)[n] \in Currencies
  <2>1. n = 0 \/ n \in 1..(Len(possible) + 1)
    BY <1>1
  <2> QED BY <2>1, <1>1, <1>2, TriesAreMade
<1> QED BY <1>2, <1>3 DEF FirstAvailable

\* Places counted down a list of N, from its i-th, and round again from its j-th.
LEMMA PlacesDown ==
    ASSUME NEW N \in Nat, NEW n \in Nat, NEW i \in 1..N, NEW k \in Nat,
           k # 0, k <= N - i, n + k <= N + 1
    PROVE  /\ k - 1 \in 0..(N - i) /\ ~(k <= k - 1) /\ n + (k - 1) <= N + 1
           /\ n + k \in 1..(N + 1) /\ n + k - 1 = n + (k - 1)
           /\ i + (k - 1) \in 1..(N - 1) /\ i + (k - 1) + 1 = i + k
  OBVIOUS

LEMMA PlacesRound ==
    ASSUME NEW N \in Nat, NEW i \in 1..N, NEW j \in 1..N, i < j
    PROVE  /\ N - j \in 0..(N - j) /\ 1 + (N - j) <= N + 1 /\ j + (N - j) = N
           /\ 2 + (N - j) \in 1..(N + 1) /\ 2 + (N - j) - 1 = 1 + (N - j)
           /\ 2 + (N - j) \in 0..(N + 1) /\ 1 \in 1..N
           /\ i - 1 \in 0..(N - 1) /\ 2 + (N - j) + (i - 1) <= N + 1 /\ 1 + (i - 1) = i
           /\ 2 + (N - j) + (i - 1) \in 0..(N + 1)
  OBVIOUS

\* From where a try is the i-th of the list, the tries go through the rest of it.
LEMMA TriesGoDownTheList ==
    ASSUME ListOk, NEW c, NEW n \in 0..(Len(possible) + 1), NEW i \in 1..Len(possible),
           Tried(c)[n] = possible[i]
    PROVE  \A k \in 0..(Len(possible) - i) :
             n + k <= Len(possible) + 1 => Tried(c)[n + k] = possible[i + k]
<1> DEFINE N == Len(possible)
           Bad == {k \in 0..(N - i) : n + k <= N + 1 /\ Tried(c)[n + k] # possible[i + k]}
<1>1. N \in Nat
  BY PossibleOnes
<1>2. \A m \in 1..(N + 1) : Tried(c)[m] = After(Tried(c)[m - 1])
  BY <1>1, TriesAreMade
<1>3. \A j \in 1..(N - 1) : After(possible[j]) = possible[j + 1]
  BY NextInLine
<1> SUFFICES ASSUME Bad # {} PROVE FALSE
  OBVIOUS
<1>4. PICK k \in Bad : \A j \in Bad : k <= j
  <2>1. Bad \in SUBSET Nat
    BY <1>1
  <2> QED BY <2>1, LeastNumber
<1>5. k \in Nat /\ k <= N - i /\ n + k <= N + 1 /\ Tried(c)[n + k] # possible[i + k]
  BY <1>4, <1>1
<1>5a. n \in Nat /\ i \in 1..N
  BY <1>1
<1> HIDE DEF N
<1>6. k # 0
  <2>1. i + 0 = i /\ n + 0 = n
    OBVIOUS
  <2> QED BY <1>5, <2>1
<1>6a. /\ k - 1 \in 0..(N - i) /\ ~(k <= k - 1) /\ n + (k - 1) <= N + 1
       /\ n + k \in 1..(N + 1) /\ n + k - 1 = n + (k - 1)
       /\ i + (k - 1) \in 1..(N - 1) /\ i + (k - 1) + 1 = i + k
  BY <1>1, <1>5, <1>5a, <1>6, PlacesDown
<1>7. k - 1 \in 0..(N - i) /\ n + (k - 1) <= N + 1 /\ k - 1 \notin Bad
  BY <1>6a, <1>4
<1>8. Tried(c)[n + (k - 1)] = possible[i + (k - 1)]
  BY <1>7
<1> QED BY <1>2, <1>3, <1>5, <1>8, <1>6a

\* The tries come to each of the list: down to its end, and again from its first.
LEMMA TriesComeToEach ==
    ASSUME ListOk, NEW c, NEW i \in 1..Len(possible)
    PROVE  \E m \in 0..(Len(possible) + 1) : Tried(c)[m] = possible[i]
<1> DEFINE N == Len(possible)
<1>1. N \in Nat /\ N >= 2
  BY PossibleOnes
<1>2. Tried(c)[0] = c /\ \A n \in 1..(N + 1) : Tried(c)[n] = After(Tried(c)[n - 1])
  BY <1>1, TriesAreMade
<1>3. PICK j \in 1..N : After(c) = possible[j]
  BY NextIsInTheList
<1>4. Tried(c)[1] = possible[j] /\ 1 \in 0..(N + 1)
  <2>1. 1 \in 1..(N + 1) /\ 1 - 1 = 0
    BY <1>1
  <2> QED BY <2>1, <1>1, <1>2, <1>3
<1>5. CASE j <= i
  <2>1. i - j \in 0..(N - j) /\ 1 + (i - j) <= N + 1 /\ j + (i - j) = i /\ 1 + (i - j) \in 0..(N + 1)
    BY <1>1, <1>5
  <2>2. Tried(c)[1 + (i - j)] = possible[j + (i - j)]
    BY <2>1, <1>4, TriesGoDownTheList
  <2> QED BY <2>1, <2>2
<1>6. CASE ~(j <= i)
  <2>1. /\ N - j \in 0..(N - j) /\ 1 + (N - j) <= N + 1 /\ j + (N - j) = N
        /\ 2 + (N - j) \in 1..(N + 1) /\ 2 + (N - j) - 1 = 1 + (N - j)
        /\ 2 + (N - j) \in 0..(N + 1) /\ 1 \in 1..N
        /\ i - 1 \in 0..(N - 1) /\ 2 + (N - j) + (i - 1) <= N + 1 /\ 1 + (i - 1) = i
        /\ 2 + (N - j) + (i - 1) \in 0..(N + 1)
    <3>1. i \in 1..N /\ j \in 1..N /\ i < j
      BY <1>1, <1>3, <1>6
    <3> HIDE DEF N
    <3> QED BY <3>1, <1>1, PlacesRound
  <2>2. Tried(c)[1 + (N - j)] = possible[j + (N - j)]
    <3>1. \A k \in 0..(N - j) : 1 + k <= N + 1 => Tried(c)[1 + k] = possible[j + k]
      BY <1>4, TriesGoDownTheList
    <3> QED BY <2>1, <3>1
  <2>3. Tried(c)[2 + (N - j)] = possible[1]
    <3>1. Tried(c)[1 + (N - j)] = possible[N] /\ After(possible[N]) = possible[1]
      BY <2>1, <2>2, NextInLine
    <3>2. Tried(c)[2 + (N - j)] = After(Tried(c)[2 + (N - j) - 1])
      BY <2>1, <1>2
    <3> QED BY <2>1, <3>1, <3>2
  <2>4. Tried(c)[2 + (N - j) + (i - 1)] = possible[1 + (i - 1)]
    BY <2>1, <2>3, TriesGoDownTheList
  <2> QED BY <2>1, <2>4
<1> QED BY <1>5, <1>6

\* An answer about rates leaves no coin that has an id without one.
RatesKnown == ratesCame => \A c \in CoinsOf \ WithoutId : coinRates[c] # "absent"

\* Once a rate came and a coin of the list has an id; and the dollar needs no rate.
LEMMA SearchEnds ==
    ASSUME ListOk, NEW c \in Currencies, RatesKnown,
           (ratesCame /\ ~(CoinsOf \subseteq WithoutId)) \/ fiat = "USD"
    PROVE  FirstAvailable(c) # {}
<1> DEFINE N == Len(possible)
           Found == {m \in 0..(N + 1) : Available(Tried(c)[m])}
<1>1. N \in Nat /\ N >= 2 /\ possible[1] = fiat
  BY PossibleOnes
<1>2. CoinsOf \cap AllFiats = {}
  BY PricesAssumption DEF PricesAssumption, CoinsOf, AllFiats
<1>3. \E i \in 1..N : Available(possible[i])
  <2>1. CASE ratesCame /\ ~(CoinsOf \subseteq WithoutId)
    <3>1. PICK d \in CoinsOf \ WithoutId : TRUE
      BY <2>1
    <3>2. PICK i \in 2..N : possible[i] = d
      BY <3>1, PossibleOnes
    <3>3. Available(d)
      BY <2>1, <3>1, <1>2 DEF RatesKnown, Available, is_currency_available
    <3> QED BY <3>2, <3>3, <1>1
  <2>2. CASE fiat = "USD"
    <3>1. Available(possible[1]) /\ 1 \in 1..N
      BY <2>2, <1>1 DEF Available, is_fiat_available, AllFiats
    <3> QED BY <3>1
  <2> QED BY <2>1, <2>2
<1>5. Found # {}
  BY <1>3, TriesComeToEach
<1>6. PICK m \in Found : \A n \in Found : m <= n
  <2>1. Found \in SUBSET Nat
    BY <1>1
  <2> HIDE DEF Found
  <2> QED BY <2>1, <1>5, LeastNumber
<1>7. ASSUME NEW k \in 0..(m - 1) PROVE ~Available(Tried(c)[k])
  <2>1. m \in 0..(N + 1) /\ k \in 0..(N + 1) /\ ~(m <= k)
    BY <1>1, <1>6
  <2> QED BY <2>1, <1>6
<1> QED BY <1>6, <1>7 DEF FirstAvailable

-----------------------------------------------------------------------------
(* The inductive invariant.  Whatever a figure depends on, a change of it   *)
(* is followed by an update of the figure that is pending or has it still   *)
(* to compute; and while updates do not overlap, what one has computed and  *)
(* not yet written is right, or an update pends that will repair it.        *)

Pending(p) == shows > 0 \/ p \in due \/ (p = "total" /\ due # {})
Covers(t, p) == \/ updating[t].part = p \/ p \in updating[t].left
                \/ p = "total" /\ updating[t].part \in Assets
Right(p) == shown[p] = FigureOf(currency, p)

TotalIsLast == \A t \in Threads : updating[t].part \notin Assets => updating[t].left = {}
Alone == \A t \in Threads :
           /\ Gone \notin updating[t].left
           /\ updating[t] # NoUpdate => \A s \in Threads \ {t} : updating[s] = NoUpdate
HeldIsRight == \A t \in Threads, p \in Parts :
                 updating[t].part = p => updating[t].figure = FigureOf(currency, p) \/ Pending(p)
EachFollows == \A p \in Parts : Right(p) \/ Pending(p) \/ \E t \in Threads : Covers(t, p)
Follows == settled => Alone /\ HeldIsRight /\ EachFollows

Agreement == RatesKnown /\ ChoiceEnds /\ TotalIsLast /\ Follows
PricesInv == PricesTypeOK /\ Agreement

\* At rest nothing pends and nothing is covered: what follows is right.
LEMMA RestIsRight == PricesInv => PricesAgree
<1> SUFFICES ASSUME PricesInv, settled, shows = 0, due = {},
                    \A t \in Threads : updating[t] = NoUpdate, NEW p \in Parts
             PROVE  shown[p] = FigureOf(currency, p)
  BY DEF PricesInv, Agreement, PricesAgree, ShownAtRest
<1>1. ~Pending(p)
  BY DEF Pending
<1>2. "none" \notin Parts /\ "none" \notin Assets
  BY PricesAssumption DEF Parts
<1>3. \A t \in Threads : ~Covers(t, p)
  BY <1>2 DEF Covers, NoUpdate
<1> QED BY <1>1, <1>3 DEF PricesInv, Agreement, Follows, EachFollows, Right

LEMMA FigureType ==
    ASSUME PricesTypeOK, NEW c \in Currencies, NEW p \in Parts
    PROVE  FigureOf(c, p) \in Figures
<1>0. Amounts(p) \in SUBSET (Assets \X Nat)
  <2>1. CASE p = "total"
    <3>1. \A a \in Assets : bal[a] \in Nat
      BY DEF PricesTypeOK
    <3> QED BY <2>1, <3>1 DEF Amounts
  <2>2. CASE p # "total"
    <3>1. p \in Assets /\ bal[p] \in Nat
      BY <2>2 DEF PricesTypeOK, Parts
    <3> QED BY <2>2, <3>1 DEF Amounts
  <2> QED BY <2>1, <2>2
<1>1. CASE marketHeld = 0 \/ Unit(c) = "none"
  BY <1>1 DEF FigureOf, Figure, Figures
<1>2. CASE ~(marketHeld = 0 \/ Unit(c) = "none")
  <2>1. marketHeld \in 1..MaxQuotes
    <3>1. marketHeld \in 0..MaxQuotes /\ MaxQuotes \in Nat
      BY PricesAssumption DEF PricesTypeOK, PricesAssumption
    <3> QED BY <3>1, <1>2
  <2>2. Unit(c) \in AllFiats \cup CoinsOf
    BY <1>2 DEF Unit, Currencies, AllFiats
  <2> QED BY <1>0, <1>2, <2>1, <2>2 DEF FigureOf, Figure, Figures
<1> QED BY <1>1, <1>2

LEMMA CurrencyType == PricesTypeOK => ListOk /\ currency \in Currencies
  BY DEF PricesTypeOK, ListOk, Currencies

LEMMA NumbersType ==
    ASSUME PricesTypeOK
    PROVE  /\ MaxQuotes \in Nat /\ MaxAsks \in Nat
           /\ quote \in 1..MaxQuotes /\ marketHeld \in 0..MaxQuotes /\ shows \in 0..MaxAsks
  BY PricesAssumption DEF PricesTypeOK, PricesAssumption

\* What figures depend on.
LEMMA FigureFrame ==
    ASSUME UNCHANGED <<marketHeld, otherRates, coinRates, bal>>
    PROVE  \A c, p : FigureOf(c, p)' = FigureOf(c, p)
  BY DEF FigureOf, Amounts, Figure, Unit, CoinsOf

\* A step that changes nothing a figure depends on, no figure and no update.
LEMMA Undisturbed ==
    ASSUME Agreement,
           UNCHANGED <<marketHeld, otherRates, coinRates, ratesCame, cfgVars, bal, shows, due,
                       shown, updating, overflown>>,
           settled' => settled
    PROVE  Agreement'
<1>1. RatesKnown' /\ ChoiceEnds' /\ TotalIsLast'
  BY DEF Agreement, RatesKnown, ChoiceEnds, TotalIsLast, cfgVars
<1>2. Follows'
  <2>1. \A c, p : FigureOf(c, p)' = FigureOf(c, p)
    BY FigureFrame
  <2>2. \A p : Right(p)' = Right(p) /\ Pending(p)' = Pending(p)
    BY <2>1 DEF Right, Pending, cfgVars
  <2>3. \A p, t : Covers(t, p)' = Covers(t, p)
    BY DEF Covers
  <2>4. \A p : FigureOf(currency, p)' = FigureOf(currency, p)
    BY <2>1 DEF cfgVars
  <2> SUFFICES ASSUME settled' PROVE Alone' /\ HeldIsRight' /\ EachFollows'
    BY DEF Follows
  <2>5. Alone /\ HeldIsRight /\ EachFollows
    BY DEF Agreement, Follows
  <2>6. Alone'
    BY <2>5 DEF Alone
  <2>7. HeldIsRight'
    BY <2>2, <2>4, <2>5 DEF HeldIsRight
  <2>8. EachFollows'
    BY <2>2, <2>3, <2>5 DEF EachFollows
  <2> QED BY <2>6, <2>7, <2>8
<1> QED BY <1>1, <1>2 DEF Agreement

LEMMA PricesStart == PricesInit => PricesInv
<1> SUFFICES ASSUME PricesInit PROVE PricesInv
  OBVIOUS
<1>0. NoFigure \in Figures
  BY DEF Figures
<1>1. PricesTypeOK
  <2>2. quote \in 1..MaxQuotes /\ 1 \in 1..MaxQuotes /\ marketHeld \in 0..MaxQuotes /\ shows \in 0..MaxAsks
    BY PricesAssumption DEF PricesInit, PricesAssumption
  <2>3. asks \subseteq [fallback : BOOLEAN, at : 1..MaxQuotes]
    BY <2>2 DEF PricesInit
  <2>4. updating \in [Threads -> [part : Parts \cup {"none"}, figure : Figures,
                                  left : SUBSET (Assets \cup {Gone}), whole : BOOLEAN]]
    BY <1>0 DEF PricesInit, NoUpdate
  <2> QED BY <1>0, <2>2, <2>3, <2>4 DEF PricesInit, PricesTypeOK
<1>2. RatesKnown /\ ChoiceEnds
  BY DEF PricesInit, RatesKnown, ChoiceEnds
<1>3. TotalIsLast /\ Alone /\ HeldIsRight
  <2>1. \A t \in Threads : updating[t] = NoUpdate /\ updating[t].part = "none" /\ updating[t].left = {}
    BY DEF PricesInit, NoUpdate
  <2>2. "none" \notin Parts
    BY PricesAssumption DEF Parts
  <2> QED BY <2>1, <2>2 DEF TotalIsLast, Alone, HeldIsRight
<1>4. EachFollows
  <2>1. \A c, p : FigureOf(c, p) = NoFigure
    BY DEF PricesInit, FigureOf, Figure
  <2> QED BY <2>1 DEF PricesInit, EachFollows, Right
<1> QED BY <1>1, <1>2, <1>3, <1>4 DEF PricesInv, Agreement, Follows

\* With an update of everything pending, all follows.
LEMMA ShowPends ==
    ASSUME Agreement, shows' > 0, UNCHANGED <<updating, coinRates, ratesCame, cfgVars, overflown, settled>>
    PROVE  Agreement'
<1>1. RatesKnown' /\ ChoiceEnds' /\ TotalIsLast'
  BY DEF Agreement, RatesKnown, ChoiceEnds, TotalIsLast, cfgVars
<1>2. \A p : Pending(p)'
  BY DEF Pending
<1>3. settled => Alone'
  BY DEF Agreement, Follows, Alone
<1> QED BY <1>1, <1>2, <1>3 DEF Agreement, Follows, HeldIsRight, EachFollows

LEMMA MarketStep ==
    ASSUME PricesInv, MarketMoves \/ PollMarket \/ AnswerMarket
    PROVE  PricesInv'
<1> USE DEF rateVars, cfgVars, showVars
<1>1. CASE MarketMoves
  <2>1. PricesTypeOK'
    <3>1. quote' \in 1..MaxQuotes
      BY <1>1, NumbersType DEF PricesInv, MarketMoves
    <3> QED BY <1>1, <3>1 DEF PricesInv, PricesTypeOK, MarketMoves
  <2>2. Agreement'
    BY <1>1, Undisturbed DEF PricesInv, MarketMoves
  <2> QED BY <2>1, <2>2 DEF PricesInv
<1>2. CASE PollMarket
  <2>1. [fallback |-> FALSE, at |-> quote] \in [fallback : BOOLEAN, at : 1..MaxQuotes]
    BY DEF PricesInv, PricesTypeOK
  <2>2. PricesTypeOK'
    BY <1>2, <2>1 DEF PricesInv, PricesTypeOK, PollMarket
  <2>3. Agreement'
    BY <1>2, Undisturbed DEF PricesInv, PollMarket
  <2> QED BY <2>2, <2>3 DEF PricesInv
<1>3. ASSUME NEW r \in asks, shows < MaxAsks, MarketAnswered(r) PROVE PricesInv'
  <2>1. shows' \in 0..MaxAsks /\ shows' > 0
    BY <1>3, NumbersType DEF PricesInv, MarketAnswered, MarketOf
  <2>2. PricesTypeOK'
    <3>2. marketHeld' \in 0..MaxQuotes
      <4>1. r.at \in 1..MaxQuotes /\ MaxQuotes \in Nat
        BY PricesAssumption DEF PricesInv, PricesTypeOK, PricesAssumption
      <4> QED BY <4>1, <1>3 DEF MarketAnswered, MarketOf
    <3>3. asks' \subseteq asks
      BY <1>3 DEF MarketAnswered, MarketOf
    <3> QED BY <1>3, <2>1, <3>2, <3>3 DEF PricesInv, PricesTypeOK, MarketAnswered, MarketOf
  <2>3. Agreement'
    BY <1>3, <2>1, ShowPends DEF PricesInv, MarketAnswered, MarketOf
  <2> QED BY <2>2, <2>3 DEF PricesInv
<1>4. ASSUME NEW r \in asks, shows < MaxAsks, MarketRefused(r) PROVE PricesInv'
  <2>1. shows' \in 0..MaxAsks /\ shows' > 0
    BY <1>4, NumbersType DEF PricesInv, MarketRefused
  <2>2. PricesTypeOK'
    <3>2. [fallback |-> TRUE, at |-> quote] \in [fallback : BOOLEAN, at : 1..MaxQuotes]
      BY DEF PricesInv, PricesTypeOK
    <3>3. asks' \subseteq [fallback : BOOLEAN, at : 1..MaxQuotes]
      BY <1>4, <3>2 DEF PricesInv, PricesTypeOK, MarketRefused
    <3> QED BY <1>4, <2>1, <3>3 DEF PricesInv, PricesTypeOK, MarketRefused
  <2>3. Agreement'
    BY <1>4, <2>1, ShowPends DEF PricesInv, MarketRefused
  <2> QED BY <2>2, <2>3 DEF PricesInv
<1> QED BY <1>1, <1>2, <1>3, <1>4 DEF AnswerMarket

LEMMA RatesStep ==
    ASSUME PricesInv, ~overflown, PollRates \/ \E ok \in BOOLEAN : RatesAnswered(ok)
    PROVE  PricesInv'
<1> USE DEF rateVars, cfgVars, showVars
<1>1. CASE PollRates
  <2>1. PricesTypeOK'
    BY <1>1 DEF PricesInv, PricesTypeOK, PollRates
  <2>2. Agreement'
    BY <1>1, Undisturbed DEF PricesInv, PollRates
  <2> QED BY <2>1, <2>2 DEF PricesInv
<1>2. ASSUME NEW ok \in BOOLEAN, RatesAnswered(ok) PROVE PricesInv'
  <2>1. /\ coinRates' = OtherCoinsRates /\ OtherCoinsRates \in [CoinsOf -> {"absent", "0.00", "a rate"}]
        /\ \A c \in CoinsOf \ WithoutId : OtherCoinsRates[c] # "absent"
    <3>1. coinRates' = OtherCoinsRates /\ coinRates \in [CoinsOf -> {"absent", "0.00", "a rate"}]
      BY <1>2 DEF RatesAnswered, PricesInv, PricesTypeOK
    <3>2. \A c \in CoinsOf : coinRates[c] \in {"absent", "0.00", "a rate"}
      BY <3>1
    <3>3. OtherCoinsRates \in [CoinsOf -> {"absent", "0.00", "a rate"}]
      BY <3>2 DEF OtherCoinsRates
    <3>4. \A c \in CoinsOf \ WithoutId : OtherCoinsRates[c] # "absent"
      BY DEF OtherCoinsRates
    <3> QED BY <3>1, <3>3, <3>4
  <2>2. otherRates' \in BOOLEAN /\ settled' \in BOOLEAN /\ ratesCame' = TRUE
    BY <1>2 DEF RatesAnswered
  <2>3. PricesTypeOK'
    BY <1>2, <2>1, <2>2 DEF PricesInv, PricesTypeOK, RatesAnswered
  <2>4. Agreement'
    <3>1. CASE ~settled'
      <4>1. RatesKnown'
        BY <2>1 DEF RatesKnown, CoinsOf
      <4>2. ChoiceEnds' /\ TotalIsLast'
        BY <1>2 DEF RatesAnswered, PricesInv, Agreement, ChoiceEnds, TotalIsLast
      <4> QED BY <3>1, <4>1, <4>2 DEF Agreement, Follows
    <3>2. CASE settled'
      <4>1. UNCHANGED <<otherRates, coinRates>> /\ settled
        BY <1>2, <3>2 DEF RatesAnswered
      <4>2. RatesKnown'
        BY <2>1 DEF RatesKnown, CoinsOf
      <4>3. ChoiceEnds' /\ TotalIsLast'
        BY <1>2 DEF RatesAnswered, PricesInv, Agreement, ChoiceEnds, TotalIsLast
      <4>4. \A c, p : FigureOf(c, p)' = FigureOf(c, p)
        BY <1>2, <4>1, FigureFrame DEF RatesAnswered
      <4>5. \A p : Right(p)' = Right(p) /\ Pending(p)' = Pending(p) /\ FigureOf(currency, p)' = FigureOf(currency, p)
        BY <1>2, <4>4 DEF Right, Pending, RatesAnswered
      <4>6. \A p, t : Covers(t, p)' = Covers(t, p)
        BY <1>2 DEF Covers, RatesAnswered
      <4>7. Alone /\ HeldIsRight /\ EachFollows /\ updating' = updating
        BY <1>2, <4>1 DEF PricesInv, Agreement, Follows, RatesAnswered
      <4>8. Alone' /\ HeldIsRight' /\ EachFollows'
        BY <4>5, <4>6, <4>7 DEF Alone, HeldIsRight, EachFollows
      <4> QED BY <4>2, <4>3, <4>8 DEF Agreement, Follows
    <3> QED BY <3>1, <3>2
  <2> QED BY <2>3, <2>4 DEF PricesInv
<1> QED BY <1>1, <1>2

\* What an update computes is typed; after the rows comes the total, and it is last.
UpdateType == [part : Parts \cup {"none"}, figure : Figures,
               left : SUBSET (Assets \cup {Gone}), whole : BOOLEAN]
LEMMA NextType ==
    ASSUME PricesTypeOK, NEW c \in Currencies, NEW left \in SUBSET (Assets \cup {Gone}),
           NEW whole \in BOOLEAN, NEW u \in NextPart(c, left, whole)
    PROVE  /\ u \in UpdateType
           /\ u.part \notin Assets => u.left = {}
<1>0. "total" \in Parts /\ "total" \notin Assets /\ "none" \notin Assets /\ Gone \notin Assets
      /\ Assets \subseteq Parts
  BY PricesAssumption DEF Parts, Gone
<1>1. CASE left = {}
  <2>1. u = [part |-> "total", figure |-> FigureOf(c, "total"), left |-> {}, whole |-> whole]
    BY <1>1 DEF NextPart, Computed
  <2>2. FigureOf(c, "total") \in Figures
    BY <1>0, FigureType
  <2> QED BY <2>1, <2>2, <1>0 DEF UpdateType
<1>2. CASE left # {}
  <2>1. PICK a \in left : u = IF a = Gone THEN NoUpdate ELSE Computed(c, a, left \ {a}, whole)
    BY <1>2 DEF NextPart
  <2>2. CASE a = Gone
    BY <2>1, <2>2 DEF NoUpdate, UpdateType, Figures
  <2>3. CASE a # Gone
    <3>1. a \in Assets /\ a \in Parts /\ FigureOf(c, a) \in Figures
      BY <2>3, <1>0, FigureType
    <3>2. u = [part |-> a, figure |-> FigureOf(c, a), left |-> left \ {a}, whole |-> whole]
      BY <2>1, <2>3 DEF Computed
    <3> QED BY <3>1, <3>2 DEF UpdateType
  <2> QED BY <2>2, <2>3
<1> QED BY <1>1, <1>2

\* What it covers: with no coin to meet that left, the rows it was to compute and the
\* total, and what it holds is right in the currency it read.
LEMMA NextCovers ==
    ASSUME PricesTypeOK, NEW c, NEW left \in SUBSET Assets, NEW whole, NEW u \in NextPart(c, left, whole)
    PROVE  /\ u.figure = FigureOf(c, u.part) /\ Gone \notin u.left
           /\ \A p \in left : u.part = p \/ p \in u.left
           /\ u.part = "total" \/ u.part \in Assets
<1>0. Gone \notin Assets
  BY PricesAssumption DEF Gone
<1>1. CASE left = {}
  <2>1. u = [part |-> "total", figure |-> FigureOf(c, "total"), left |-> {}, whole |-> whole]
    BY <1>1 DEF NextPart, Computed
  <2> QED BY <2>1, <1>1
<1>2. CASE left # {}
  <2>1. PICK a \in left : u = IF a = Gone THEN NoUpdate ELSE Computed(c, a, left \ {a}, whole)
    BY <1>2 DEF NextPart
  <2>2. a \in Assets /\ u = [part |-> a, figure |-> FigureOf(c, a), left |-> left \ {a}, whole |-> whole]
    BY <2>1, <1>0 DEF Computed
  <2> QED BY <2>2, <1>0
<1> QED BY <1>1, <1>2

\* An update begins.  If it is alone and of all it covers all; of some some and alone,
\* those and the total.
LEMMA BeginStep ==
    ASSUME PricesTypeOK, TotalIsLast, Follows, NEW t \in Threads, NEW c \in Currencies,
           NEW some \in SUBSET (Assets \cup {Gone}), NEW whole \in BOOLEAN,
           Begin(t, c, some, whole),
           UNCHANGED <<marketHeld, otherRates, coinRates, bal>>, currency' = c,
           whole => Assets \subseteq some,
           ~whole => /\ currency' = currency /\ shows' = shows
                     /\ \A p \in Parts \ some : p # "total" => (p \in due' <=> p \in due)
    PROVE  /\ TotalIsLast' /\ Follows'
           /\ shown' = shown /\ settled' \in BOOLEAN
           /\ updating' \in [Threads -> UpdateType]
<1>0. /\ "total" \in Parts /\ Assets \subseteq Parts /\ "none" \notin Parts /\ "total" \notin Assets
      /\ Parts \subseteq Assets \cup {"total"} /\ "none" \notin Assets
  BY PricesAssumption DEF Parts
<1>1. PICK u \in NextPart(c, some, whole) : updating' = [updating EXCEPT ![t] = u]
  BY DEF Begin
<1>2. u \in UpdateType /\ (u.part \notin Assets => u.left = {})
  BY <1>1, NextType
<1>3. updating \in [Threads -> UpdateType] /\ updating' \in [Threads -> UpdateType]
  BY <1>1, <1>2 DEF PricesTypeOK, UpdateType
<1>4. updating'[t] = u /\ \A s \in Threads \ {t} : updating'[s] = updating[s]
  BY <1>1, <1>3
<1>5. TotalIsLast'
  BY <1>2, <1>4 DEF TotalIsLast
<1>6. /\ shown' = shown /\ settled' \in BOOLEAN /\ updating[t] = NoUpdate
      /\ settled' => /\ \A s \in Threads \ {t} : updating[s] = NoUpdate
                     /\ Gone \notin some /\ (whole \/ settled)
  BY DEF Begin, PricesTypeOK
<1>7. Follows'
  <2> SUFFICES ASSUME settled' PROVE Alone' /\ HeldIsRight' /\ EachFollows'
    BY DEF Follows
  <2>1. some \in SUBSET Assets /\ \A s \in Threads \ {t} : updating'[s] = NoUpdate
    BY <1>4, <1>6
  <2>2. /\ u.figure = FigureOf(c, u.part) /\ Gone \notin u.left
        /\ \A p \in some : u.part = p \/ p \in u.left
        /\ u.part = "total" \/ u.part \in Assets
    BY <2>1, <1>1, NextCovers
  <2>3. Alone'
    <3>1. NoUpdate.left = {}
      BY DEF NoUpdate
    <3> QED BY <3>1, <2>1, <2>2, <1>4 DEF Alone
  <2>4. \A d, p : FigureOf(d, p)' = FigureOf(d, p)
    BY FigureFrame
  <2>5. HeldIsRight'
    <3> SUFFICES ASSUME NEW s \in Threads, NEW p \in Parts, updating'[s].part = p
                 PROVE  updating'[s].figure = FigureOf(currency, p)' \/ Pending(p)'
      BY DEF HeldIsRight
    <3>1. CASE s = t
      <4>1. updating'[s].figure = FigureOf(c, p)
        BY <3>1, <1>4, <2>2
      <4>2. FigureOf(currency, p)' = FigureOf(c, p)
        BY <2>4
      <4> QED BY <4>1, <4>2
    <3>2. CASE s # t
      BY <3>2, <2>1, <1>0 DEF NoUpdate
    <3> QED BY <3>1, <3>2
  <2>6. ASSUME NEW p \in some \cup {"total"} PROVE Covers(t, p)'
    BY <2>2, <2>1, <1>4 DEF Covers
  <2>7. EachFollows'
    <3> SUFFICES ASSUME NEW p \in Parts, p \notin some \cup {"total"} PROVE Right(p)' \/ Pending(p)'
      BY <2>6 DEF EachFollows
    <3>1. ~whole /\ settled /\ currency' = currency /\ shows' = shows /\ (p \in due' <=> p \in due)
      BY <1>0, <1>6
    <3>2. \A s \in Threads : ~Covers(s, p)
      BY <1>0, <1>6 DEF Covers, NoUpdate
    <3>3. Right(p) \/ Pending(p)
      BY <3>1, <3>2 DEF Follows, EachFollows
    <3>4. Right(p)' = Right(p)
      BY <3>1, <2>4, <1>6 DEF Right
    <3> QED BY <3>1, <3>3, <3>4 DEF Pending
  <2> QED BY <2>3, <2>5, <2>7
<1> QED BY <1>3, <1>5, <1>6, <1>7

\* BeginAll is of all some.
LEMMA BeginAllStep ==
    ASSUME PricesTypeOK, TotalIsLast, Follows, NEW t \in Threads, NEW c \in Currencies,
           BeginAll(t, c), UNCHANGED <<marketHeld, otherRates, coinRates, bal>>, currency' = c
    PROVE  /\ TotalIsLast' /\ Follows'
           /\ shown' = shown /\ settled' \in BOOLEAN
           /\ updating' \in [Threads -> UpdateType]
<1> DEFINE some == Assets \cup (IF leaving THEN {Gone} ELSE {})
<1>1. some \in SUBSET (Assets \cup {Gone}) /\ Assets \subseteq some /\ TRUE \in BOOLEAN
  OBVIOUS
<1>2. Begin(t, c, some, TRUE)
  BY DEF BeginAll
<1> HIDE DEF some
<1> QED BY <1>1, <1>2, BeginStep

LEMMA ThreadOnes == "gui" \in Threads /\ Workers \subseteq Threads
  BY DEF Threads

LEMMA ShowStep ==
    ASSUME PricesInv, ShowValues \/ (\E a \in Assets : BalanceUpdated(a)) \/ CoinComes \/ CoinLeft
    PROVE  PricesInv'
<1> USE DEF rateVars, cfgVars
<1>0. PricesTypeOK /\ TotalIsLast /\ Follows /\ currency \in Currencies
  BY CurrencyType DEF PricesInv, Agreement
<1>1. SUFFICES /\ TotalIsLast' /\ Follows' /\ shown' = shown /\ settled' \in BOOLEAN
               /\ updating' \in [Threads -> UpdateType]
               /\ UNCHANGED <<quote, marketHeld, asks, rateVars, cfgVars, bal, overflown>>
               /\ shows' \in 0..MaxAsks /\ due' \subseteq Assets /\ leaving' \in BOOLEAN
  BY DEF PricesInv, PricesTypeOK, Agreement, RatesKnown, ChoiceEnds, UpdateType
<1>2. CASE ShowValues
  <2>1. PICK t \in Workers : BeginAll(t, currency)
    BY <1>2 DEF ShowValues
  <2>2. shows' \in 0..MaxAsks
    BY <1>0, <1>2, NumbersType DEF ShowValues
  <2>3. UNCHANGED <<quote, marketHeld, asks, rateVars, cfgVars, bal, due, leaving, overflown>>
    BY <1>2 DEF ShowValues
  <2>4. /\ TotalIsLast' /\ Follows' /\ shown' = shown /\ settled' \in BOOLEAN
        /\ updating' \in [Threads -> UpdateType]
    BY <1>0, <2>1, <2>3, BeginAllStep, ThreadOnes
  <2> QED BY <1>0, <2>2, <2>3, <2>4 DEF PricesTypeOK
<1>3. ASSUME NEW a \in Assets, BalanceUpdated(a)
      PROVE  /\ TotalIsLast' /\ Follows' /\ shown' = shown /\ settled' \in BOOLEAN
             /\ updating' \in [Threads -> UpdateType]
             /\ UNCHANGED <<quote, marketHeld, asks, rateVars, cfgVars, bal, overflown>>
             /\ shows' \in 0..MaxAsks /\ due' \subseteq Assets /\ leaving' \in BOOLEAN
  <2>1. PICK t \in Workers : Begin(t, currency, {a}, FALSE)
    BY <1>3 DEF BalanceUpdated
  <2>2. UNCHANGED <<quote, marketHeld, asks, rateVars, cfgVars, bal, shows, leaving, overflown>>
        /\ due' = due \ {a}
    BY <1>3 DEF BalanceUpdated
  <2>3. {a} \in SUBSET (Assets \cup {Gone}) /\ FALSE \in BOOLEAN
    OBVIOUS
  <2>4. /\ TotalIsLast' /\ Follows' /\ shown' = shown /\ settled' \in BOOLEAN
        /\ updating' \in [Threads -> UpdateType]
    BY <1>0, <2>1, <2>2, <2>3, BeginStep, ThreadOnes
  <2> QED BY <1>0, <2>2, <2>4 DEF PricesTypeOK
<1>4. CASE CoinComes
  <2>1. BeginAll("gui", currency)
        /\ UNCHANGED <<quote, marketHeld, asks, rateVars, cfgVars, bal, shows, due, leaving, overflown>>
    BY <1>4 DEF CoinComes
  <2>2. /\ TotalIsLast' /\ Follows' /\ shown' = shown /\ settled' \in BOOLEAN
        /\ updating' \in [Threads -> UpdateType]
    BY <1>0, <2>1, BeginAllStep, ThreadOnes
  <2> QED BY <1>0, <2>1, <2>2 DEF PricesTypeOK
<1>5. CASE CoinLeft
  <2>1. Begin("gui", currency, {}, FALSE) /\ leaving' = FALSE
        /\ UNCHANGED <<quote, marketHeld, asks, rateVars, cfgVars, bal, shows, due, overflown>>
    BY <1>5 DEF CoinLeft
  <2>2. {} \in SUBSET (Assets \cup {Gone}) /\ FALSE \in BOOLEAN
    OBVIOUS
  <2>3. /\ TotalIsLast' /\ Follows' /\ shown' = shown /\ settled' \in BOOLEAN
        /\ updating' \in [Threads -> UpdateType]
    BY <1>0, <2>1, <2>2, BeginStep, ThreadOnes
  <2> QED BY <1>0, <2>1, <2>3 DEF PricesTypeOK
<1> QED BY <1>2, <1>3, <1>4, <1>5

\* The figure held is written and the next computed: what is written is right or pends.
LEMMA GoOnStep ==
    ASSUME PricesInv, NEW t \in Threads, GoOn(t)
    PROVE  PricesInv'
<1> USE DEF rateVars, cfgVars
<1> DEFINE u == updating[t]
<1>0. PricesTypeOK /\ TotalIsLast /\ Follows /\ currency \in Currencies
  BY CurrencyType DEF PricesInv, Agreement
<1>1. /\ u # NoUpdate /\ shown' = [shown EXCEPT ![u.part] = u.figure]
      /\ UNCHANGED <<quote, marketHeld, asks, rateVars, cfgVars, bal, shows, due, leaving, settled,
                     overflown, moves>>
  BY DEF GoOn
<1>2. PICK v \in IF u.part = "total" THEN {NoUpdate} ELSE NextPart(currency, u.left, u.whole) :
        updating' = [updating EXCEPT ![t] = v]
  BY DEF GoOn
<1>3. updating \in [Threads -> UpdateType] /\ u \in UpdateType
  BY <1>0 DEF PricesTypeOK, UpdateType
<1>4. /\ "total" \in Parts /\ Assets \subseteq Parts /\ "none" \notin Parts /\ "total" \notin Assets
      /\ Parts \subseteq Assets \cup {"total"} /\ Gone \notin Assets
  BY PricesAssumption DEF Parts, Gone
<1>5. v \in UpdateType /\ (v.part \notin Assets => v.left = {})
  <2>1. CASE u.part = "total"
    <3>1. v = NoUpdate
      BY <1>2, <2>1
    <3> QED BY <3>1 DEF NoUpdate, UpdateType, Figures
  <2>2. CASE u.part # "total"
    <3>1. v \in NextPart(currency, u.left, u.whole) /\ u.left \in SUBSET (Assets \cup {Gone}) /\ u.whole \in BOOLEAN
      BY <1>2, <1>3, <2>2 DEF UpdateType
    <3> QED BY <3>1, <1>0, NextType
  <2> QED BY <2>1, <2>2
<1>6. /\ updating' \in [Threads -> UpdateType]
      /\ updating'[t] = v /\ \A s \in Threads \ {t} : updating'[s] = updating[s]
  BY <1>2, <1>3, <1>5
<1>7. TotalIsLast'
  BY <1>0, <1>5, <1>6 DEF TotalIsLast
<1>8. shown' \in [Parts -> Figures] /\ \A p \in Parts : shown'[p] = IF p = u.part THEN u.figure ELSE shown[p]
  <2>1. u.figure \in Figures
    BY <1>3 DEF UpdateType
  <2>2. shown \in [Parts -> Figures]
    BY <1>0 DEF PricesTypeOK
  <2> QED BY <2>1, <2>2, <1>1
<1>9. PricesTypeOK'
  BY <1>0, <1>1, <1>6, <1>8 DEF PricesTypeOK, UpdateType
<1>10. Follows'
  <2> SUFFICES ASSUME settled' PROVE Alone' /\ HeldIsRight' /\ EachFollows'
    BY DEF Follows
  <2>1. Alone /\ HeldIsRight /\ EachFollows
    BY <1>0, <1>1 DEF Follows
  <2>2. \A s \in Threads \ {t} : updating[s] = NoUpdate /\ updating'[s] = NoUpdate
    <3>1. updating[t] # NoUpdate
      BY <1>1
    <3>2. \A s \in Threads \ {t} : updating[s] = NoUpdate
      BY <2>1, <3>1 DEF Alone
    <3> QED BY <3>2, <1>6
  <2>3. u.left \in SUBSET Assets
    BY <1>3, <2>1 DEF Alone, UpdateType
  <2>4. \A p : FigureOf(currency, p)' = FigureOf(currency, p) /\ Pending(p)' = Pending(p)
    <3>1. \A d, p : FigureOf(d, p)' = FigureOf(d, p)
      BY <1>1, FigureFrame
    <3> QED BY <1>1, <3>1 DEF Pending
  <2>5. CASE u.part = "total"
    <3>1. v = NoUpdate /\ u.left = {}
      BY <1>0, <1>2, <1>4, <2>5 DEF TotalIsLast
    <3>2. \A s \in Threads : updating'[s] = NoUpdate
      BY <3>1, <2>2, <1>6
    <3>3. Alone' /\ HeldIsRight'
      <4>1. NoUpdate.left = {} /\ NoUpdate.part = "none"
        BY DEF NoUpdate
      <4>2. \A s \in Threads : updating'[s].left = {} /\ updating'[s].part \notin Parts
        BY <4>1, <3>2, <1>4
      <4> QED BY <4>2, <3>2 DEF Alone, HeldIsRight
    <3>4. ASSUME NEW p \in Parts PROVE Right(p)' \/ Pending(p)'
      <4>1. CASE p = "total"
        <5>1. u.figure = FigureOf(currency, p) \/ Pending(p)
          BY <4>1, <2>1, <2>5 DEF HeldIsRight
        <5> QED BY <5>1, <4>1, <2>4, <2>5, <1>8 DEF Right
      <4>2. CASE p # "total"
        <5>1. \A s \in Threads : ~Covers(s, p)
          BY <4>2, <3>1, <2>2, <2>5, <1>4 DEF Covers, NoUpdate
        <5>2. Right(p) \/ Pending(p)
          BY <5>1, <2>1 DEF EachFollows
        <5>3. shown'[p] = shown[p]
          BY <4>2, <2>5, <1>8
        <5> QED BY <5>2, <5>3, <2>4 DEF Right
      <4> QED BY <4>1, <4>2
    <3> QED BY <3>3, <3>4 DEF EachFollows
  <2>6. CASE u.part # "total"
    <3>1. v \in NextPart(currency, u.left, u.whole)
      BY <1>2, <2>6
    <3>2. /\ v.figure = FigureOf(currency, v.part) /\ Gone \notin v.left
          /\ \A p \in u.left : v.part = p \/ p \in v.left
          /\ v.part = "total" \/ v.part \in Assets
      BY <1>0, <2>3, <3>1, NextCovers
    <3>3. Alone'
      <4>1. NoUpdate.left = {}
        BY DEF NoUpdate
      <4> QED BY <4>1, <3>2, <2>2, <1>6 DEF Alone
    <3>4. HeldIsRight'
      <4> SUFFICES ASSUME NEW s \in Threads, NEW p \in Parts, updating'[s].part = p
                   PROVE  updating'[s].figure = FigureOf(currency, p)' \/ Pending(p)'
        BY DEF HeldIsRight
      <4>1. CASE s = t
        BY <4>1, <3>2, <2>4, <1>6
      <4>2. CASE s # t
        BY <4>2, <2>2, <1>4 DEF NoUpdate
      <4> QED BY <4>1, <4>2
    <3>5. EachFollows'
      <4> SUFFICES ASSUME NEW p \in Parts PROVE Right(p)' \/ Pending(p)' \/ Covers(t, p)'
        BY DEF EachFollows
      <4>1. CASE p = u.part
        <5>1. u.figure = FigureOf(currency, p) \/ Pending(p)
          BY <4>1, <2>1 DEF HeldIsRight
        <5> QED BY <5>1, <4>1, <2>4, <1>8 DEF Right
      <4>2. CASE p \in u.left \/ p = "total"
        BY <4>2, <3>2, <1>6 DEF Covers
      <4>3. CASE p # u.part /\ p \notin u.left /\ p # "total"
        <5>1. ~Covers(t, p)
          BY <4>3 DEF Covers
        <5>2. \A s \in Threads \ {t} : ~Covers(s, p)
          BY <2>2, <1>4, <4>3 DEF Covers, NoUpdate
        <5>3. Right(p) \/ Pending(p)
          BY <5>1, <5>2, <2>1 DEF EachFollows
        <5>4. shown'[p] = shown[p]
          BY <4>3, <1>8
        <5> QED BY <5>3, <5>4, <2>4 DEF Right
      <4> QED BY <4>1, <4>2, <4>3
    <3> QED BY <3>3, <3>4, <3>5
  <2> QED BY <2>5, <2>6
<1>11. RatesKnown' /\ ChoiceEnds'
  BY <1>1 DEF PricesInv, Agreement, RatesKnown, ChoiceEnds
<1> QED BY <1>7, <1>9, <1>10, <1>11 DEF PricesInv, Agreement

\* A balance is written: the coin's row and the total pend, or nobody was told.
LEMMA BalanceStep ==
    ASSUME PricesInv, NEW a \in Assets, NEW told \in BOOLEAN, BalanceWritten(a, told)
    PROVE  PricesInv'
<1> USE DEF rateVars, cfgVars
<1>1. /\ bal' = [bal EXCEPT ![a] = @ + 1] /\ due' = (IF told THEN due \cup {a} ELSE due)
      /\ settled' = (settled /\ told)
      /\ UNCHANGED <<quote, marketHeld, asks, rateVars, cfgVars, shows, leaving, shown, updating, overflown>>
  BY DEF BalanceWritten
<1>2. bal \in [Assets -> Nat] /\ bal' \in [Assets -> Nat] /\ due' \subseteq Assets /\ settled' \in BOOLEAN
  <2>1. bal \in [Assets -> Nat] /\ due \subseteq Assets /\ settled \in BOOLEAN
    BY DEF PricesInv, PricesTypeOK
  <2>2. bal[a] + 1 \in Nat
    BY <2>1
  <2>3. bal' \in [Assets -> Nat]
    BY <1>1, <2>1, <2>2
  <2> QED BY <1>1, <2>1, <2>3
<1>3. PricesTypeOK'
  BY <1>1, <1>2 DEF PricesInv, PricesTypeOK
<1>4. RatesKnown' /\ ChoiceEnds' /\ TotalIsLast'
  BY <1>1 DEF PricesInv, Agreement, RatesKnown, ChoiceEnds, TotalIsLast
<1>5. Follows'
  <2> SUFFICES ASSUME settled' PROVE Alone' /\ HeldIsRight' /\ EachFollows'
    BY DEF Follows
  <2>1. told /\ due' = due \cup {a} /\ Alone /\ HeldIsRight /\ EachFollows
    BY <1>1 DEF PricesInv, Agreement, Follows
  <2>2. Pending(a)' /\ Pending("total")' /\ \A p : Pending(p) => Pending(p)'
    BY <1>1, <2>1 DEF Pending
  <2>3. ASSUME NEW p \in Parts, p # a, p # "total"
        PROVE  FigureOf(currency, p)' = FigureOf(currency, p)
    <3>1. p \in Assets /\ bal'[p] = bal[p]
      BY <2>3, <1>1, <1>2 DEF Parts
    <3>2. Amounts(p)' = Amounts(p)
      BY <2>3, <3>1 DEF Amounts
    <3> QED BY <3>2, <1>1 DEF FigureOf, Figure, Unit, CoinsOf
  <2>4. Alone'
    BY <1>1, <2>1 DEF Alone
  <2>5. HeldIsRight'
    BY <1>1, <2>1, <2>2, <2>3 DEF HeldIsRight
  <2>6. EachFollows'
    <3>1. \A t, p : Covers(t, p)' = Covers(t, p)
      BY <1>1 DEF Covers
    <3>2. ASSUME NEW p \in Parts, p # a, p # "total" PROVE Right(p)' = Right(p)
      BY <3>2, <1>1, <2>3 DEF Right
    <3> QED BY <2>1, <2>2, <3>1, <3>2 DEF EachFollows
  <2> QED BY <2>4, <2>5, <2>6
<1> QED BY <1>3, <1>4, <1>5 DEF PricesInv, Agreement

\* A coin leaves: an update it is still before ends without the total.
LEMMA LeaveStep ==
    ASSUME PricesInv, CoinLeaves
    PROVE  PricesInv'
<1> USE DEF rateVars, cfgVars
<1>1. /\ UNCHANGED <<quote, marketHeld, asks, rateVars, cfgVars, bal, shows, due, shown, overflown>>
      /\ leaving' = TRUE /\ settled' = (settled /\ updating' = updating)
      /\ \A t \in Threads :
           \/ updating'[t] = updating[t]
           \/ /\ updating[t].part \in Assets
              /\ updating'[t] = [updating[t] EXCEPT !.left = @ \cup {Gone}]
  <2>1. ASSUME NEW t \in Threads
        PROVE  \/ updating'[t] = updating[t]
               \/ /\ updating[t].part \in Assets
                  /\ updating'[t] = [updating[t] EXCEPT !.left = @ \cup {Gone}]
    BY DEF CoinLeaves
  <2> QED BY <2>1 DEF CoinLeaves
<1>2. updating \in [Threads -> UpdateType]
  BY DEF PricesInv, PricesTypeOK, UpdateType
<1>3. ASSUME NEW t \in Threads
      PROVE  /\ updating'[t] \in UpdateType
             /\ updating'[t].part \notin Assets => updating'[t].left = {}
  <2>1. updating[t] \in UpdateType /\ (updating[t].part \notin Assets => updating[t].left = {})
    BY <1>2 DEF PricesInv, Agreement, TotalIsLast
  <2>2. CASE updating[t].part \in Assets /\ updating'[t] = [updating[t] EXCEPT !.left = @ \cup {Gone}]
    BY <2>1, <2>2 DEF UpdateType
  <2> QED BY <1>1, <2>1, <2>2
<1>4. updating' \in [Threads -> UpdateType]
  <2> DEFINE S == {updating[t] : t \in Threads} \cup {[updating[t] EXCEPT !.left = @ \cup {Gone}] : t \in Threads}
  <2>1. updating' \in [Threads -> S]
    BY DEF CoinLeaves
  <2> HIDE DEF S
  <2> QED BY <2>1, <1>3
<1>5. PricesTypeOK'
  BY <1>1, <1>4 DEF PricesInv, PricesTypeOK, UpdateType
<1>6. TotalIsLast'
  BY <1>3 DEF TotalIsLast
<1>7. Agreement'
  <2>1. CASE ~settled'
    BY <1>1, <1>6, <2>1 DEF PricesInv, Agreement, Follows, RatesKnown, ChoiceEnds
  <2>2. CASE settled'
    BY <1>1, <2>2, Undisturbed DEF PricesInv
  <2> QED BY <2>1, <2>2
<1> QED BY <1>5, <1>7 DEF PricesInv

\* set_current_currency ends, whatever is asked for, once a rate came or with the dollar.
LEMMA CurrencyStep ==
    ASSUME PricesInv, ~overflown, NEW c \in Currencies, set_current_currency(c),
           UNCHANGED <<quote, marketHeld, asks, rateVars, bal, shows, due, leaving>>
    PROVE  PricesInv'
<1> USE DEF rateVars, cfgVars, showVars
<1> DEFINE found == FirstAvailable(c)
<1>1. PricesTypeOK /\ ListOk /\ currency \in Currencies
  BY CurrencyType DEF PricesInv
<1>2. RatesKnown'
  BY DEF PricesInv, Agreement, RatesKnown
<1>3. CASE found = {}
  <2>1. overflown' = TRUE /\ UNCHANGED <<cfgVars, showVars>>
    BY <1>3 DEF set_current_currency
  <2>2. PricesTypeOK'
    BY <1>1, <2>1 DEF PricesTypeOK
  <2>3. ChoiceEnds'
    BY <1>1, <1>3, <2>1, SearchEnds DEF PricesInv, Agreement, ChoiceEnds
  <2>4. TotalIsLast' /\ Follows'
    <3>1. \A d, p : FigureOf(d, p)' = FigureOf(d, p)
      BY FigureFrame
    <3>2. \A p : Right(p)' = Right(p) /\ Pending(p)' = Pending(p) /\ FigureOf(currency, p)' = FigureOf(currency, p)
      BY <2>1, <3>1 DEF Right, Pending
    <3>3. \A p, t : Covers(t, p)' = Covers(t, p)
      BY <2>1 DEF Covers
    <3>4. TotalIsLast /\ Follows
      BY DEF PricesInv, Agreement
    <3> QED BY <2>1, <3>2, <3>3, <3>4 DEF TotalIsLast, Follows, Alone, HeldIsRight, EachFollows
  <2> QED BY <1>2, <2>2, <2>3, <2>4 DEF PricesInv, Agreement
<1>4. CASE found # {} /\ found = {currency}
  <2>1. UNCHANGED <<overflown, cfgVars, showVars>>
    BY <1>4 DEF set_current_currency
  <2>2. PricesTypeOK'
    BY <1>1, <2>1 DEF PricesTypeOK
  <2>3. Agreement'
    BY <2>1, Undisturbed DEF PricesInv
  <2> QED BY <2>2, <2>3 DEF PricesInv
<1>5. CASE found # {} /\ found # {currency}
  <2>1. PICK next \in found : ChangeCurrency(next) /\ BeginAll("gui", next) /\ UNCHANGED overflown
    BY <1>5 DEF set_current_currency
  <2>2. next \in Currencies
    BY <1>1, <2>1, TriesAreCurrencies
  <2>3. fiat' \in AllFiats /\ currency' = next /\ currency' \in {fiat'} \cup CoinsOf
    BY <1>1, <2>1, <2>2 DEF ChangeCurrency, Currencies, ListOk
  <2>4. possible' = <<fiat'>> \o CoinCurrencies
    <3>1. CASE next \in AllFiats
      <4>1. fiat' = next /\ possible' = [possible EXCEPT ![1] = next]
        BY <2>1, <3>1 DEF ChangeCurrency
      <4> QED BY <4>1, <1>1, FirstReplaced DEF ListOk
    <3>2. CASE next \notin AllFiats
      BY <1>1, <2>1, <3>2 DEF ChangeCurrency, ListOk
    <3> QED BY <3>1, <3>2
  <2>5. /\ TotalIsLast' /\ Follows' /\ shown' = shown /\ settled' \in BOOLEAN
        /\ updating' \in [Threads -> UpdateType]
    BY <1>1, <2>1, <2>2, <2>3, BeginAllStep, ThreadOnes DEF PricesInv, Agreement
  <2>6. PricesTypeOK'
    BY <1>1, <2>1, <2>3, <2>4, <2>5 DEF PricesTypeOK, UpdateType
  <2>7. ChoiceEnds'
    BY <2>1 DEF ChoiceEnds
  <2> QED BY <1>2, <2>5, <2>6, <2>7 DEF PricesInv, Agreement
<1> QED BY <1>3, <1>4, <1>5

LEMMA FiatStep ==
    ASSUME PricesInv, ~overflown, NEW f \in AllFiats, ChooseFiat(f)
    PROVE  PricesInv'
<1> USE DEF rateVars, cfgVars, showVars
<1>1. PricesTypeOK /\ ListOk /\ currency \in Currencies /\ f \in Currencies
  BY CurrencyType DEF PricesInv, Currencies
<1>2. UNCHANGED <<quote, marketHeld, asks, rateVars, bal, shows, due, leaving>>
  BY DEF ChooseFiat
<1>3. CASE ~is_fiat_available(f)
  BY <1>1, <1>2, <1>3, CurrencyStep DEF ChooseFiat
<1>4. CASE is_fiat_available(f)
  <2>1. fiat' = f /\ currency' = f /\ overflown' = overflown /\ possible' = [possible EXCEPT ![1] = f]
    BY <1>4 DEF ChooseFiat
  <2>2. possible' = <<f>> \o CoinCurrencies
    BY <1>1, <2>1, FirstReplaced
  <2>3. RatesKnown' /\ ChoiceEnds'
    BY <1>2, <2>1 DEF PricesInv, Agreement, RatesKnown, ChoiceEnds
  <2>4. TotalIsLast /\ Follows
    BY DEF PricesInv, Agreement
  <2>5. CASE currency = f
    <3>1. UNCHANGED showVars
      BY <1>4, <2>5 DEF ChooseFiat
    <3>2. PricesTypeOK'
      BY <1>1, <1>2, <2>1, <2>2, <3>1 DEF PricesTypeOK
    <3>3. \A d, p : FigureOf(d, p)' = FigureOf(d, p)
      BY <1>2, FigureFrame
    <3>4. \A p : Right(p)' = Right(p) /\ Pending(p)' = Pending(p) /\ FigureOf(currency, p)' = FigureOf(currency, p)
      BY <1>2, <2>1, <2>5, <3>1, <3>3 DEF Right, Pending
    <3>5. \A p, t : Covers(t, p)' = Covers(t, p)
      BY <3>1 DEF Covers
    <3>6. TotalIsLast' /\ Follows'
      BY <2>4, <3>1, <3>4, <3>5 DEF TotalIsLast, Follows, Alone, HeldIsRight, EachFollows
    <3> QED BY <2>3, <3>2, <3>6 DEF PricesInv, Agreement
  <2>6. CASE currency # f
    <3>1. BeginAll("gui", f)
      BY <1>4, <2>6 DEF ChooseFiat
    <3>2. /\ TotalIsLast' /\ Follows' /\ shown' = shown /\ settled' \in BOOLEAN
          /\ updating' \in [Threads -> UpdateType]
      BY <1>1, <1>2, <2>1, <2>4, <3>1, BeginAllStep, ThreadOnes
    <3>3. PricesTypeOK'
      BY <1>1, <1>2, <2>1, <2>2, <3>2 DEF PricesTypeOK, UpdateType
    <3> QED BY <2>3, <3>2, <3>3 DEF PricesInv, Agreement
  <2> QED BY <2>5, <2>6
<1> QED BY <1>3, <1>4

LEMMA PricesStep == PricesInv /\ [PricesNext]_pricesVars => PricesInv'
<1> SUFFICES ASSUME PricesInv, [PricesNext]_pricesVars PROVE PricesInv'
  OBVIOUS
<1>1. CASE UNCHANGED pricesVars
  <2>1. PricesTypeOK'
    BY <1>1 DEF PricesInv, PricesTypeOK, pricesVars, rateVars, cfgVars, showVars
  <2>2. Agreement'
    BY <1>1, Undisturbed DEF PricesInv, pricesVars, rateVars, showVars
  <2> QED BY <2>1, <2>2 DEF PricesInv
<1>2. CASE ~overflown /\ ChooseNext
  <2>1. currency \in Currencies /\ ListOk
    BY CurrencyType DEF PricesInv
  <2>2. After(currency) \in Currencies
    BY <2>1, TriesAreCurrencies
  <2>3. set_current_currency(After(currency))
        /\ UNCHANGED <<quote, marketHeld, asks, rateVars, bal, shows, due, leaving>>
    BY <1>2 DEF ChooseNext
  <2> QED BY <1>2, <2>2, <2>3, CurrencyStep
<1> QED BY <1>1, <1>2, MarketStep, RatesStep, ShowStep, GoOnStep, BalanceStep, LeaveStep, FiatStep DEF PricesNext

\* Whatever the polls, answers, choices, balances and coins that come or go, on however
\* many threads: once every event is treated and every update done, the rows and the
\* total are of the chosen currency, the market held and the balances there are, unless,
\* since a whole update last began alone, updates overlapped or met a coin that was
\* leaving, or rates or a balance changed of which nobody is told; and the search of
\* settings_page for a currency that has a rate ends once a rate came for some coin, for
\* any coins, fiats and list of currencies.
THEOREM PricesAlwaysAgree == PricesSpec => []PricesAgree
<1> QED BY PricesStart, PricesStep, RestIsRight, PTL DEF PricesSpec

-----------------------------------------------------------------------------
(* The bot: what moves the price of an order.                              *)

\* The daemon knows no order that was not placed; a pair that is enabled is one that
\* was, and so is the pair of every request on its way, which is for a maker order.
BotInv ==
  /\ DOMAIN open \subseteq DOMAIN placed /\ DOMAIN pairSettings = MakerPairs
  /\ \A p \in MakerPairs : ~pairSettings[p].disabled => p \in everOn
  /\ \A u \in updates : u.order \in MakerOrders /\ PairOf(u.order) \in everOn
  /\ OnlyEnabledPairsMove

\* What process_update_orders sends is for maker orders of pairs that are enabled.
LEMMA RequestsAreOfEnabledPairs ==
  ASSUME BotInv, process_update_orders
  PROVE  BotInv'
<1>1. /\ updates' \subseteq updates \cup internal_update
      /\ UNCHANGED <<open, placed, pairSettings, everOn>>
  BY DEF process_update_orders
<1>2. ASSUME NEW u \in internal_update
      PROVE  u.order \in MakerOrders /\ PairOf(u.order) \in everOn
  <2>1. PICK o \in ListedOrders : IsUpdated(o) /\ u = [order |-> o, price |-> get_new_price_from_order(o)]
    BY <1>2 DEF internal_update
  <2>2. u.order = o /\ o \in MakerOrders /\ ~pairSettings[PairOf(o)].disabled
    BY <2>1 DEF IsUpdated
  <2>3. PairOf(o) \in MakerPairs
    BY <2>2 DEF MakerPairs, BotOrders
  <2> QED BY <2>2, <2>3 DEF BotInv
<1> QED BY <1>1, <1>2 DEF BotInv, OnlyEnabledPairsMove

\* Every step of the bot, the user and the market keeps it.
LEMMA BotNextInv == BotInv /\ [BotNext]_botVars => BotInv'
<1> SUFFICES ASSUME BotInv, [BotNext]_botVars PROVE BotInv'
  OBVIOUS
<1>1. ASSUME NEW o \in BotOrders, NEW r \in Rates \ {0}, PlaceMaker(o, r)
      PROVE  BotInv'
  <2>1. /\ o \notin DOMAIN placed /\ UNCHANGED <<pairSettings, updates, everOn>>
        /\ open' = [x \in DOMAIN open \cup {o} |-> IF x = o THEN r ELSE open[x]]
        /\ placed' = [x \in DOMAIN placed \cup {o} |-> IF x = o THEN r ELSE placed[x]]
    BY <1>1 DEF PlaceMaker
  <2>2. DOMAIN open' = DOMAIN open \cup {o} /\ DOMAIN placed' = DOMAIN placed \cup {o}
    BY <2>1
  <2>3. OnlyEnabledPairsMove'
    BY <2>1, <2>2 DEF BotInv, OnlyEnabledPairsMove
  <2> QED BY <2>1, <2>2, <2>3 DEF BotInv
<1>2. ASSUME NEW o \in BotOrders, OrderGoes(o)
      PROVE  BotInv'
  <2>1. /\ open' = [x \in DOMAIN open \ {o} |-> open[x]]
        /\ UNCHANGED <<placed, pairSettings, updates, everOn>>
    BY <1>2 DEF OrderGoes
  <2> QED BY <2>1 DEF BotInv, OnlyEnabledPairsMove
<1>3. ASSUME NEW p \in MakerPairs, NEW d \in BOOLEAN, NEW s \in Spreads, SetPairSettings(p, d, s)
      PROVE  BotInv'
  <2>1. /\ pairSettings' = [pairSettings EXCEPT ![p] = [disabled |-> d, spread |-> s]]
        /\ everOn' = IF d THEN everOn ELSE everOn \cup {p}
        /\ UNCHANGED <<open, placed, updates>>
    BY <1>3 DEF SetPairSettings
  <2>2. everOn \subseteq everOn' /\ DOMAIN pairSettings' = MakerPairs
    BY <2>1 DEF BotInv
  <2>3. ASSUME NEW q \in MakerPairs, ~pairSettings'[q].disabled
        PROVE  q \in everOn'
    <3>1. CASE q = p
      <4>1. pairSettings'[q].disabled = d
        BY <2>1, <3>1 DEF BotInv
      <4>2. d = FALSE
        BY <2>3, <4>1
      <4> QED BY <2>1, <3>1, <4>2
    <3>2. CASE q # p
      <4>1. pairSettings'[q] = pairSettings[q]
        BY <2>1, <3>2 DEF BotInv
      <4> QED BY <2>2, <2>3, <4>1 DEF BotInv
    <3> QED BY <3>1, <3>2
  <2> QED BY <2>1, <2>2, <2>3 DEF BotInv, OnlyEnabledPairsMove
<1>4. ASSUME NEW u \in updates, UpdateMet(u)
      PROVE  BotInv'
  <2>1. /\ updates' = updates \ {u} /\ UNCHANGED <<placed, pairSettings, everOn>>
        /\ open' = open \/ open' = [open EXCEPT ![u.order] = u.price]
    BY <1>4 DEF UpdateMet
  <2>2. /\ DOMAIN open' = DOMAIN open
        /\ \A o \in DOMAIN open : o # u.order => open'[o] = open[o]
    BY <2>1
  <2>3. u.order \notin TakerOrders /\ PairOf(u.order) \in everOn
    BY <1>4, MakerBotAssumption DEF BotInv
  <2>4. OnlyEnabledPairsMove'
    BY <2>1, <2>2, <2>3 DEF BotInv, OnlyEnabledPairsMove
  <2> QED BY <2>1, <2>2, <2>4 DEF BotInv
<1>5. ASSUME UNCHANGED <<open, placed, pairSettings, everOn>>, updates' \subseteq updates
      PROVE  BotInv'
  BY <1>5 DEF BotInv, OnlyEnabledPairsMove
<1>6. CASE BotTick \/ EnterDex
  BY <1>6, RequestsAreOfEnabledPairs DEF BotTick, EnterDex
<1>7. CASE (\E p \in MakerPairs, r \in Rates : RateMoves(p, r)) \/ UNCHANGED botVars
  BY <1>5, <1>7 DEF RateMoves, botVars
<1>8. CASE DaemonTurns \/ SnapshotAnswered \/ PageIsTurned \/ \E u \in updates : UpdateLost(u)
  BY <1>5, <1>8 DEF DaemonTurns, SnapshotAnswered, PageIsTurned, UpdateLost
<1> QED BY <1>1, <1>2, <1>3, <1>4, <1>6, <1>7, <1>8 DEF BotNext

\* The automatic update moves only what the user let it move: an order of a pair that
\* was never enabled, and every taker order, is at the price the user gave it, however
\* late a request meets the daemon and whatever changed since it was made
\* (auto_update_maker_order_service::update_order).
THEOREM OnlyEnabledPairsEverMove == BotInit /\ [][BotNext]_botVars => []OnlyEnabledPairsMove
<1>1. BotInit => BotInv
  BY DEF BotInit, BotInv, OnlyEnabledPairsMove, Untouched
<1>2. BotInv => OnlyEnabledPairsMove
  BY DEF BotInv
<1> QED BY <1>1, <1>2, BotNextInv, PTL

-----------------------------------------------------------------------------
(* The watchers of the world outside.                                      *)

\* The types, and a check that threw holds back every later one.
WatchersInv == WatchersTypeOK /\ (updateLost => fetching)

\* A question sent or answered leaves a number of questions there may be.
LEMMA PingsStayCounted ==
  ASSUME WatchersInv, NEW o \in Outcomes,
         fetch_internet_connection(o) \/ generic_treat_answer(o)
  PROVE  pings' \in [Outcomes -> 0..MaxPings]
<1>1. pings \in [Outcomes -> 0..MaxPings] /\ MaxPings \in Nat
  BY WatchersAssumption DEF WatchersInv, WatchersTypeOK
<1>2. CASE fetch_internet_connection(o)
  <2>1. pings[o] + 1 \in 0..MaxPings /\ pings' = [pings EXCEPT ![o] = pings[o] + 1]
    BY <1>1, <1>2 DEF fetch_internet_connection
  <2> QED BY <1>1, <2>1
<1>3. CASE generic_treat_answer(o)
  <2>1. pings[o] - 1 \in 0..MaxPings /\ pings' = [pings EXCEPT ![o] = pings[o] - 1]
    BY <1>1, <1>3 DEF generic_treat_answer
  <2> QED BY <1>1, <2>1
<1> QED BY <1>2, <1>3

\* Every step of the watchers keeps them.
LEMMA WatchersNextInv == WatchersInv /\ [WatchersNext]_watcherVars => WatchersInv'
<1> SUFFICES ASSUME WatchersInv, [WatchersNext]_watcherVars PROVE WatchersInv'
  OBVIOUS
<1> USE DEF WatchersInv, WatchersTypeOK, internetVars, updateVars, timeVars
<1>0. MaxPings \in Nat /\ MaxTurns \in Nat
  BY WatchersAssumption
<1>1. CASE SessionChanges \/ on_default_coins_enabled \/ DaemonChanges
  <2>1. turns' \in 0..MaxTurns
    BY <1>0, <1>1 DEF SessionChanges, on_default_coins_enabled, DaemonChanges, Turn
  <2>2. kdfRunning' \in BOOLEAN /\ daemonAnswers' \in BOOLEAN /\ coinsReady' \in BOOLEAN
    BY <1>1 DEF SessionChanges, on_default_coins_enabled, DaemonChanges
  <2>3. UNCHANGED <<alive, pings, updateVars, timeVars>>
    BY <1>1 DEF SessionChanges, on_default_coins_enabled, DaemonChanges
  <2> QED BY <2>1, <2>2, <2>3
<1>2. ASSUME NEW o \in Outcomes, fetch_internet_connection(o)
      PROVE  WatchersInv'
  <2>1. pings' \in [Outcomes -> 0..MaxPings]
    BY <1>2, PingsStayCounted
  <2> QED BY <1>2, <2>1 DEF fetch_internet_connection
<1>3. ASSUME NEW o \in Outcomes, generic_treat_answer(o)
      PROVE  WatchersInv'
  <2>1. pings' \in [Outcomes -> 0..MaxPings]
    BY <1>3, PingsStayCounted
  <2>2. alive' \in BOOLEAN
    BY <1>3 DEF generic_treat_answer, Outcomes
  <2>3. UNCHANGED <<coinsReady, kdfRunning, daemonAnswers, updateVars, timeVars, turns>>
    BY <1>3 DEF generic_treat_answer
  <2> QED BY <2>1, <2>2, <2>3
<1>4. ASSUME NEW o \in Outcomes, UpdateAnswered(o)
      PROVE  WatchersInv'
  BY <1>4 DEF UpdateAnswered
<1>5. ASSUME NEW o \in Outcomes, TimeAnswered(o)
      PROVE  WatchersInv'
  <2>1. timeAsked' \in 0..MaxPings
    BY <1>0, <1>5 DEF TimeAnswered
  <2>2. inSync' \in BOOLEAN
    BY <1>5 DEF TimeAnswered, Outcomes
  <2> QED BY <1>5, <2>1, <2>2 DEF TimeAnswered
<1>6. CASE fetch_update_info
  BY <1>6 DEF fetch_update_info
<1>7. CASE ClockChanges
  BY <1>0, <1>7 DEF ClockChanges, Turn
<1>8. CASE fetch_timesync_status
  BY <1>0, <1>8 DEF fetch_timesync_status
<1>9. CASE UNCHANGED watcherVars
  BY <1>9 DEF watcherVars
<1> QED BY <1>1, <1>2, <1>3, <1>4, <1>5, <1>6, <1>7, <1>8, <1>9 DEF WatchersNext

\* The watchers' state is well-formed, and a check of the update that threw is the
\* last: is_fetching stays up, so fetch_update_info asks no more
\* (update_checker_service::fetch_update_info).
THEOREM LostCheckIsTheLast == WatchersSpec => [](WatchersTypeOK /\ (updateLost => fetching))
<1>1. WatchersInit => WatchersInv
  <2> SUFFICES ASSUME WatchersInit PROVE WatchersInv
    OBVIOUS
  <2>1. pings \in [Outcomes -> 0..MaxPings] /\ timeAsked \in 0..MaxPings /\ turns \in 0..MaxTurns
    BY WatchersAssumption DEF WatchersInit
  <2>2. /\ {alive, coinsReady, kdfRunning, daemonAnswers, fetching, updateLost,
             clockRight, inSync} \subseteq BOOLEAN
        /\ updateInfo \in {"empty", "unreachable", "version"} /\ (updateLost => fetching)
    BY DEF WatchersInit
  <2> QED BY <2>1, <2>2 DEF WatchersInv, WatchersTypeOK
<1> QED BY <1>1, WatchersNextInv, PTL DEF WatchersSpec, WatchersInv

-----------------------------------------------------------------------------
(* The coins that wait for the Zcash parameters.                           *)

\* The types, every shielded coin is in one of the places it can be, and each coin that
\* waits, is tried or is up stands for a shielded coin or for an enabling by hand: the
\* list holds a coin twice only when it was enabled by hand while it waited.
ListIsPaidFor ==
  Len(wait) + Cardinality(tried) + Cardinality(up) <= Cardinality(WaitingCoins) + byHand
DownloadsInv == DownloadsTypeOK /\ NoCoinIsForgotten /\ ListIsPaidFor

\* Sets of shielded coins are finite.
LEMMA ShieldedAreFinite ==
  ASSUME NEW S \in SUBSET WaitingCoins
  PROVE  IsFiniteSet(S) /\ Cardinality(S) \in Nat
<1>1. IsFiniteSet(S)
  BY FS_Subset, DownloadsAssumption
<1> QED BY <1>1, FS_CardinalityType

\* A union of two of them has no more coins than both together.
LEMMA UnionAtMost ==
  ASSUME NEW S \in SUBSET WaitingCoins, NEW T \in SUBSET WaitingCoins
  PROVE  Cardinality(S \cup T) <= Cardinality(S) + Cardinality(T)
<1>1. /\ IsFiniteSet(S) /\ IsFiniteSet(T) /\ IsFiniteSet(S \cap T)
      /\ Cardinality(S) \in Nat /\ Cardinality(T) \in Nat /\ Cardinality(S \cap T) \in Nat
  BY ShieldedAreFinite
<1>2. Cardinality(S \cup T) = Cardinality(S) + Cardinality(T) - Cardinality(S \cap T)
  BY <1>1, FS_Union
<1> QED BY <1>1, <1>2

\* A list has no more coins than places.
LEMMA ListedAtMost ==
  ASSUME NEW s \in Seq(WaitingCoins)
  PROVE  /\ ToSet(s) \in SUBSET WaitingCoins
         /\ Cardinality(ToSet(s)) <= Len(s)
<1>1. DOMAIN s = 1..Len(s) /\ Len(s) \in Nat /\ \A i \in 1..Len(s) : s[i] \in WaitingCoins
  OBVIOUS
<1>2. ToSet(s) = {s[i] : i \in 1..Len(s)}
  BY <1>1 DEF ToSet
<1>3. IsFiniteSet(1..Len(s)) /\ Cardinality(1..Len(s)) = Len(s)
  <2>1. 1 \in Int /\ Len(s) \in Int /\ Len(s) \in Nat
    BY <1>1
  <2>2. /\ IsFiniteSet(1..Len(s))
        /\ Cardinality(1..Len(s)) = IF 1 > Len(s) THEN 0 ELSE Len(s) - 1 + 1
    BY <2>1, FS_Interval
  <2> QED BY <2>1, <2>2
<1>4. \A i \in 1..Len(s) : s[i] \in ToSet(s)
  BY <1>2
<1>5. [i \in 1..Len(s) |-> s[i]] \in Surjection(1..Len(s), ToSet(s))
  BY <1>2, <1>4 DEF Surjection
<1>6. Cardinality(ToSet(s)) <= Cardinality(1..Len(s))
  BY <1>3, <1>5, FS_Surjection
<1> QED BY <1>1, <1>2, <1>3, <1>6

\* A coin put at the end of a list is in it, with those that were.
LEMMA AppendedIsListed ==
  ASSUME NEW s \in Seq(WaitingCoins), NEW c \in WaitingCoins
  PROVE  /\ Append(s, c) \in Seq(WaitingCoins) /\ Len(Append(s, c)) = Len(s) + 1
         /\ ToSet(Append(s, c)) = ToSet(s) \cup {c}
<1>1. /\ Append(s, c) \in Seq(WaitingCoins) /\ Len(Append(s, c)) = Len(s) + 1
      /\ Len(s) \in Nat /\ DOMAIN s = 1..Len(s) /\ DOMAIN Append(s, c) = 1..(Len(s) + 1)
      /\ \A i \in 1..Len(s) : Append(s, c)[i] = s[i]
      /\ Append(s, c)[Len(s) + 1] = c
  OBVIOUS
<1>2. ToSet(s) = {s[i] : i \in 1..Len(s)}
  BY <1>1 DEF ToSet
<1>3. ToSet(Append(s, c)) = {Append(s, c)[i] : i \in 1..(Len(s) + 1)}
  BY <1>1 DEF ToSet
<1>4. ToSet(Append(s, c)) \subseteq ToSet(s) \cup {c}
  <2> SUFFICES ASSUME NEW i \in 1..(Len(s) + 1) PROVE Append(s, c)[i] \in ToSet(s) \cup {c}
    BY <1>3
  <2>1. CASE i = Len(s) + 1
    BY <2>1, <1>1
  <2>2. CASE i \in 1..Len(s)
    BY <2>2, <1>1, <1>2
  <2> QED BY <2>1, <2>2, <1>1
<1>5. ToSet(s) \cup {c} \subseteq ToSet(Append(s, c))
  <2>1. ASSUME NEW i \in 1..Len(s) PROVE s[i] \in ToSet(Append(s, c))
    BY <1>1, <1>3
  <2>2. c \in ToSet(Append(s, c))
    BY <1>1, <1>3
  <2> QED BY <2>1, <2>2, <1>2
<1> QED BY <1>1, <1>4, <1>5

\* Taking a coin out of a set, and putting one in that was not there.
LEMMA OneCoin ==
  ASSUME NEW S \in SUBSET WaitingCoins, NEW c \in WaitingCoins
  PROVE  /\ c \in S => Cardinality(S \ {c}) = Cardinality(S) - 1
         /\ Cardinality(S \cup {c}) <= Cardinality(S) + 1
         /\ Cardinality(S) \in Nat
<1>1. IsFiniteSet(S) /\ Cardinality(S) \in Nat
  BY ShieldedAreFinite
<1>2. c \in S => Cardinality(S \ {c}) = Cardinality(S) - 1
  BY <1>1, FS_RemoveElement
<1>3. Cardinality({c}) = 1
  BY FS_Singleton
<1>4. Cardinality(S \cup {c}) <= Cardinality(S) + 1
  BY <1>3, UnionAtMost
<1> QED BY <1>1, <1>2, <1>4

\* Only the counts of coins matter to what is paid for: a step that leaves the coins and
\* their limit alone, and types what else it writes, keeps all.
LEMMA CoinsLeftAlone ==
  ASSUME DownloadsInv, DownloadsTypeOK', UNCHANGED <<places, crowd>>
  PROVE  DownloadsInv'
BY DEF DownloadsInv, NoCoinIsForgotten, ListIsPaidFor, places, crowd

\* What a press of the button puts on its way is typed, and moves no coin.
LEMMA PressForgetsNone ==
  ASSUME DownloadsInv, NEW press \in 0..MaxAgain, download_zcash_params(press),
         again' \in 0..MaxAgain
  PROVE  DownloadsInv'
<1>1. {[press |-> press, file |-> f, at |-> "begun"] : f \in ParamFiles}
        \subseteq [press : 0..MaxAgain, file : ParamFiles, at : {"begun", "done"}]
  OBVIOUS
<1>2. /\ loads' \subseteq [press : 0..MaxAgain, file : ParamFiles, at : {"begun", "done"}]
      /\ isDownloading' \in BOOLEAN /\ UNCHANGED <<places, crowd, onDisk, progress, fails>>
  BY <1>1 DEF download_zcash_params, DownloadsInv, DownloadsTypeOK
<1>3. DownloadsTypeOK'
  BY <1>2 DEF DownloadsInv, DownloadsTypeOK, places, crowd
<1> QED BY <1>2, <1>3, CoinsLeftAlone

\* A verdict on an activation: the coin comes up, or is put at the end of the list.
LEMMA VerdictForgetsNone ==
  ASSUME DownloadsInv, NEW c \in WaitingCoins, Activated(c)
  PROVE  DownloadsInv'
<1>1. /\ wait \in Seq(WaitingCoins) /\ tried \in SUBSET WaitingCoins /\ up \in SUBSET WaitingCoins
      /\ byHand \in Nat /\ c \in tried /\ tried' = tried \ {c} /\ Len(wait) \in Nat
      /\ UNCHANGED <<forgotten, byHand, crowd, onDisk, progress, loads, isDownloading, fails, again>>
  BY DownloadsAssumption DEF DownloadsInv, DownloadsTypeOK, Activated
<1>2. /\ Cardinality(tried') = Cardinality(tried) - 1 /\ Cardinality(tried) \in Nat
      /\ Cardinality(up) \in Nat /\ Cardinality(up \cup {c}) <= Cardinality(up) + 1
      /\ Cardinality(up \cup {c}) \in Nat
      /\ Cardinality(WaitingCoins) \in Nat
  BY <1>1, OneCoin, ShieldedAreFinite
<1>3. CASE up' = up \cup {c} /\ wait' = wait
  <2>1. DownloadsTypeOK'
    BY <1>1, <1>3 DEF DownloadsInv, DownloadsTypeOK, crowd
  <2>2. NoCoinIsForgotten'
    BY <1>1, <1>3 DEF DownloadsInv, NoCoinIsForgotten, crowd
  <2>3. ListIsPaidFor'
    BY <1>1, <1>2, <1>3 DEF DownloadsInv, ListIsPaidFor
  <2> QED BY <2>1, <2>2, <2>3 DEF DownloadsInv
<1>4. CASE wait' = Append(wait, c) /\ up' = up
  <2>0. /\ wait' \in Seq(WaitingCoins) /\ Len(wait') = Len(wait) + 1
        /\ ToSet(wait') = ToSet(wait) \cup {c}
    BY <1>1, <1>4, AppendedIsListed
  <2>1. DownloadsTypeOK'
    BY <2>0, <1>1, <1>4 DEF DownloadsInv, DownloadsTypeOK, crowd
  <2>2. NoCoinIsForgotten'
    BY <2>0, <1>1, <1>4 DEF DownloadsInv, NoCoinIsForgotten, crowd
  <2>3. ListIsPaidFor'
    BY <2>0, <1>1, <1>2, <1>4 DEF DownloadsInv, ListIsPaidFor
  <2> QED BY <2>1, <2>2, <2>3 DEF DownloadsInv
<1> QED BY <1>3, <1>4 DEF Activated

\* A coin enabled by hand is tried, and pays for one more.
LEMMA ByHandForgetsNone ==
  ASSUME DownloadsInv, NEW c \in WaitingCoins, EnableByHand(c)
  PROVE  DownloadsInv'
<1>1. /\ wait \in Seq(WaitingCoins) /\ tried \in SUBSET WaitingCoins /\ up \in SUBSET WaitingCoins
      /\ byHand \in Nat /\ byHand' \in 0..MaxByHand /\ byHand' = byHand + 1 /\ Len(wait) \in Nat
      /\ tried' = tried \cup {c} /\ forgotten' = forgotten \ {c}
      /\ UNCHANGED <<wait, up, crowd, onDisk, progress, loads, isDownloading, fails, again>>
  BY DownloadsAssumption DEF DownloadsInv, DownloadsTypeOK, EnableByHand
<1>2. /\ Cardinality(tried') <= Cardinality(tried) + 1 /\ Cardinality(tried) \in Nat
      /\ Cardinality(tried \cup {c}) \in Nat
      /\ Cardinality(up) \in Nat /\ Cardinality(WaitingCoins) \in Nat
  BY <1>1, OneCoin, ShieldedAreFinite
<1>3. DownloadsTypeOK'
  BY <1>1 DEF DownloadsInv, DownloadsTypeOK, crowd
<1>4. NoCoinIsForgotten'
  <2>1. mostOthers \in Nat /\ CoinLimit \in Nat
    BY DownloadsAssumption DEF DownloadsInv, DownloadsTypeOK
  <2> QED BY <2>1, <1>1, <1>2 DEF DownloadsInv, NoCoinIsForgotten, crowd
<1>5. ListIsPaidFor'
  BY <1>1, <1>2 DEF DownloadsInv, ListIsPaidFor
<1> QED BY <1>3, <1>4, <1>5 DEF DownloadsInv

\* Other coins come and go: the most there were only grows.
LEMMA OthersForgetNone ==
  ASSUME DownloadsInv, OthersChange
  PROVE  DownloadsInv'
<1>1. /\ otherCoins \in Nat /\ mostOthers \in Nat /\ otherCoins' \in Nat /\ CoinLimit \in Nat
      /\ otherCoins' \in OtherCounts /\ mostOthers' \in OtherCounts
      /\ mostOthers <= mostOthers' /\ otherCoins' <= mostOthers'
      /\ UNCHANGED <<places, onDisk, progress, loads, isDownloading, fails, again>>
  BY DownloadsAssumption DEF DownloadsInv, DownloadsTypeOK, OthersChange
<1>2. DownloadsTypeOK'
  BY <1>1 DEF DownloadsInv, DownloadsTypeOK, places
<1>3. Cardinality(WaitingCoins) \in Nat /\ byHand \in Nat
  BY ShieldedAreFinite, DownloadsAssumption DEF DownloadsInv, DownloadsTypeOK
<1>4. NoCoinIsForgotten'
  BY <1>1, <1>3 DEF DownloadsInv, NoCoinIsForgotten, places
<1>5. ListIsPaidFor'
  BY <1>1 DEF DownloadsInv, ListIsPaidFor, places
<1> QED BY <1>2, <1>4, <1>5 DEF DownloadsInv

\* enable_coins tries all that wait, or refuses all: a refusal says that the limit is
\* passed by the others and by what the list, which is paid for, and the coins up count.
LEMMA EnablingForgetsFew ==
  ASSUME DownloadsInv, EnableWaiting, UNCHANGED crowd
  PROVE  /\ wait' \in Seq(WaitingCoins) /\ tried' \subseteq WaitingCoins
         /\ forgotten' \subseteq WaitingCoins /\ UNCHANGED <<up, byHand>>
         /\ NoCoinIsForgotten' /\ ListIsPaidFor'
<1>1. /\ wait \in Seq(WaitingCoins) /\ tried \in SUBSET WaitingCoins /\ up \in SUBSET WaitingCoins
      /\ forgotten \in SUBSET WaitingCoins /\ byHand \in Nat /\ Len(wait) \in Nat
      /\ otherCoins \in Nat /\ mostOthers \in Nat /\ CoinLimit \in Nat /\ otherCoins <= mostOthers
  BY DownloadsAssumption DEF DownloadsInv, DownloadsTypeOK
<1>2. /\ wait' = <<>> /\ up' = up /\ byHand' = byHand
      /\ otherCoins' = otherCoins /\ mostOthers' = mostOthers
      /\ wait' \in Seq(WaitingCoins) /\ Len(wait') = 0 /\ ToSet(wait') = {}
  BY DEF EnableWaiting, crowd, ToSet
<1>3. /\ ToSet(wait) \in SUBSET WaitingCoins /\ Cardinality(ToSet(wait)) <= Len(wait)
      /\ Cardinality(ToSet(wait)) \in Nat /\ Cardinality(ToSet(wait) \ up) \in Nat
      /\ Cardinality(tried) \in Nat /\ Cardinality(up) \in Nat /\ Cardinality(WaitingCoins) \in Nat
  BY <1>1, ListedAtMost, ShieldedAreFinite
<1>4. CASE tried' = tried \cup (ToSet(wait) \ up) /\ forgotten' = forgotten
  <2>1. Cardinality(ToSet(wait) \ up) <= Cardinality(ToSet(wait))
    <3>1. IsFiniteSet(ToSet(wait)) /\ ToSet(wait) \ up \in SUBSET ToSet(wait)
      BY <1>3, ShieldedAreFinite
    <3> QED BY <3>1, FS_Subset
  <2>2. /\ Cardinality(tried') <= Cardinality(tried) + Cardinality(ToSet(wait) \ up)
        /\ Cardinality(tried') \in Nat
    BY <1>1, <1>3, <1>4, UnionAtMost, ShieldedAreFinite
  <2>3. ListIsPaidFor'
    BY <2>1, <2>2, <1>1, <1>2, <1>3 DEF DownloadsInv, ListIsPaidFor
  <2>4. NoCoinIsForgotten'
    BY <1>1, <1>2, <1>3, <1>4 DEF DownloadsInv, NoCoinIsForgotten
  <2> QED BY <2>3, <2>4, <1>1, <1>2, <1>3, <1>4
<1>5. CASE /\ ~Passes(Len(wait)) /\ tried' = tried
           /\ forgotten' = forgotten \cup (ToSet(wait) \ (tried \cup up))
  <2>1. Len(wait) + otherCoins + Cardinality(up) > CoinLimit
    BY <1>5, <1>1, <1>3 DEF Passes
  <2>2. Len(wait) + Cardinality(up) <= Cardinality(WaitingCoins) + byHand
    BY <1>1, <1>3 DEF DownloadsInv, ListIsPaidFor
  <2>3. mostOthers + Cardinality(WaitingCoins) + byHand > CoinLimit
    BY <2>1, <2>2, <1>1, <1>3
  <2>4. NoCoinIsForgotten'
    BY <2>3, <1>2, <1>3, <1>5 DEF DownloadsInv, NoCoinIsForgotten
  <2>5. ListIsPaidFor'
    BY <1>1, <1>2, <1>3, <1>5 DEF DownloadsInv, ListIsPaidFor
  <2> QED BY <2>4, <2>5, <1>1, <1>2, <1>3, <1>5
<1> QED BY <1>4, <1>5 DEF EnableWaiting

\* A report of a download: the status bar enables what waits, or moves no coin.
LEMMA ProgressForgetsFew ==
  ASSUME DownloadsInv, NEW d \in loads, NEW p \in {"begun", "done"}, download_progress(d, p)
  PROVE  DownloadsInv'
<1>1. d \in [press : 0..MaxAgain, file : ParamFiles, at : {"begun", "done"}]
  BY DEF DownloadsInv, DownloadsTypeOK
<1>2. [d EXCEPT !.at = p] \in [press : 0..MaxAgain, file : ParamFiles, at : {"begun", "done"}]
  BY <1>1
<1>3. /\ loads' \subseteq [press : 0..MaxAgain, file : ParamFiles, at : {"begun", "done"}]
      /\ progress' \in [ParamFiles -> {"absent", "begun", "done"}]
  BY <1>1, <1>2 DEF download_progress, DownloadsInv, DownloadsTypeOK
<1>4. isDownloading' \in BOOLEAN /\ UNCHANGED <<crowd, onDisk, fails, again>>
  BY DEF download_progress
<1>5. CASE EnableWaiting
  <2>1. /\ wait' \in Seq(WaitingCoins) /\ tried' \subseteq WaitingCoins
        /\ forgotten' \subseteq WaitingCoins /\ UNCHANGED <<up, byHand>>
        /\ NoCoinIsForgotten' /\ ListIsPaidFor'
    BY <1>4, <1>5, EnablingForgetsFew
  <2>2. DownloadsTypeOK'
    BY <2>1, <1>3, <1>4 DEF DownloadsInv, DownloadsTypeOK, crowd
  <2> QED BY <2>1, <2>2 DEF DownloadsInv
<1>6. CASE UNCHANGED places
  <2>1. DownloadsTypeOK'
    BY <1>6, <1>3, <1>4 DEF DownloadsInv, DownloadsTypeOK, crowd, places
  <2> QED BY <2>1, <1>4, <1>6, CoinsLeftAlone
<1> QED BY <1>5, <1>6 DEF download_progress

\* Every step of the downloads keeps all three.
LEMMA DownloadsNextInv == DownloadsInv /\ [DownloadsNext]_downloadVars => DownloadsInv'
<1> SUFFICES ASSUME DownloadsInv, [DownloadsNext]_downloadVars PROVE DownloadsInv'
  OBVIOUS
<1>3. CASE Download
  BY <1>3, PressForgetsNone, DownloadsAssumption DEF Download, DownloadsInv, DownloadsTypeOK
<1>4. CASE DownloadAgain
  <2>1. again' \in 0..MaxAgain
    BY <1>4, DownloadsAssumption DEF DownloadAgain, DownloadsInv, DownloadsTypeOK
  <2> QED BY <2>1, <1>4, PressForgetsNone DEF DownloadAgain
<1>5. ASSUME NEW d \in loads, download_finished(d)
      PROVE  DownloadsInv'
  <2>1. DownloadsTypeOK' /\ UNCHANGED <<places, crowd>>
    BY <1>5 DEF download_finished, DownloadsInv, DownloadsTypeOK, places, crowd
  <2> QED BY <2>1, CoinsLeftAlone
<1>6. ASSUME NEW d \in loads, DownloadFails(d)
      PROVE  DownloadsInv'
  <2>1. DownloadsTypeOK' /\ UNCHANGED <<places, crowd>>
    BY <1>6, DownloadsAssumption DEF DownloadFails, DownloadsInv, DownloadsTypeOK, places, crowd
  <2> QED BY <2>1, CoinsLeftAlone
<1>7. CASE UNCHANGED downloadVars
  <2>1. DownloadsTypeOK' /\ UNCHANGED <<places, crowd>>
    BY <1>7 DEF downloadVars, DownloadsInv, DownloadsTypeOK, places, crowd
  <2> QED BY <2>1, CoinsLeftAlone
<1> QED BY <1>3, <1>4, <1>5, <1>6, <1>7, VerdictForgetsNone, ByHandForgetsNone, OthersForgetNone,
           ProgressForgetsFew DEF DownloadsNext

\* A shielded coin that failed for want of the parameters is being activated, waits in
\* zcash_params_service or is up, also when two downloads report or complete in turns
\* (qt_downloader::download_progress, zcash_params_service::enable_after_download),
\* unless application::enable_coins refused a list of which it was one: and that only
\* happens when the most other coins there were, every shielded coin once and those
\* enabled by hand again are more than the limit.
THEOREM NoCoinIsEverForgotten == DownloadsSpec => [](DownloadsTypeOK /\ NoCoinIsForgotten)
<1>1. DownloadsInit => DownloadsInv
  <2> SUFFICES ASSUME DownloadsInit PROVE DownloadsInv
    OBVIOUS
  <2>1. /\ fails \in 0..MaxFails /\ again \in 0..MaxAgain /\ byHand \in 0..MaxByHand
        /\ otherCoins <= mostOthers
    BY DownloadsAssumption DEF DownloadsInit
  <2>2. isDownloading \in BOOLEAN /\ progress \in [ParamFiles -> {"absent", "begun", "done"}]
    BY DEF DownloadsInit
  <2>3. /\ wait \in Seq(WaitingCoins) /\ tried \subseteq WaitingCoins /\ up \subseteq WaitingCoins
        /\ forgotten \subseteq WaitingCoins /\ otherCoins \in OtherCounts /\ mostOthers \in OtherCounts
        /\ onDisk \subseteq ParamFiles /\ NoCoinIsForgotten
        /\ loads \subseteq [press : 0..MaxAgain, file : ParamFiles, at : {"begun", "done"}]
    BY DEF DownloadsInit, NoCoinIsForgotten
  <2>4. ListIsPaidFor
    <3>1. /\ Len(wait) = 0 /\ tried = WaitingCoins /\ up = {} /\ byHand = 0
          /\ Cardinality({}) = 0 /\ Cardinality(WaitingCoins) \in Nat
      BY FS_EmptySet, ShieldedAreFinite DEF DownloadsInit
    <3> QED BY <3>1 DEF ListIsPaidFor
  <2> QED BY <2>1, <2>2, <2>3, <2>4 DEF DownloadsInv, DownloadsTypeOK
<1> QED BY <1>1, DownloadsNextInv, PTL DEF DownloadsSpec, DownloadsInv
=============================================================================
