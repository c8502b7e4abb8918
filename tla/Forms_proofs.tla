---------------------------- MODULE Forms_proofs -----------------------------
(***************************************************************************)
(* Proofs about what stands between the user and a form, for any values    *)
(* and bounds: the files of custom tokens, the claim of rewards, the       *)
(* recipient of a sending, the numbers of the pair that is traded, the     *)
(* orders and swaps that the filter boxes list, and the form of the        *)
(* trading page.                                                           *)
(***************************************************************************)
EXTENDS CustomTokens, Claims, PairStats, Preferences, Recipient, HistoryFilter, TradingPage,
        FiniteSetTheorems, SequenceTheorems, TLAPS

-----------------------------------------------------------------------------
(* Custom tokens: the inductive invariant.                                 *)

Datas == [token : Tokens \cup {NoToken}, adex : BOOLEAN, kdf : BOOLEAN]
Writes == [op : {"none", "add", "remove", "reset"}, data : Datas,
           pc : {"idle", "custom", "open coins", "fill coins", "restart"}]
CoinsFiles == [state : {"absent", "cut", "whole"}, official : BOOLEAN, tokens : [Tokens -> Nat]]

TokenTypes ==
  /\ tokenFiles \in [TokenWallets -> SUBSET Tokens]
  /\ coinsFile \in CoinsFiles
  /\ wallet \in TokenWallets \cup {NoToken} /\ normalCfg \subseteq Tokens
  /\ rawCfg \in [official : BOOLEAN, tokens : SUBSET Tokens]
  /\ tokenAsked \in Tokens \cup {NoToken} /\ tokenBusy \in BOOLEAN /\ tokenLost \in BOOLEAN
  /\ tokenData \in Datas
  /\ tokenPage \in {"closed", "earlier", "address", "preview"}
  /\ tokenWrite \in Writes
  /\ orphaned \subseteq Tokens

TokenOnce == \A t \in Tokens : coinsFile.tokens[t] \in 0..1

\* What was found missing while this session lasts, and could be written.
FoundNow(data) == data.token \in Tokens /\ data = Missing(data.token) /\ ParentKnown(data)

\* The registries of a session are what the files say until coins.json is opened.
RegistriesFit ==
  wallet # NoToken /\ tokenWrite.pc \in {"idle", "custom", "open coins"} =>
    /\ coinsFile.state # "absent"
    /\ IF coinsFile.state = "whole"
       THEN rawCfg.official = coinsFile.official /\ rawCfg.tokens = {t \in Tokens : coinsFile.tokens[t] > 0}
       ELSE rawCfg.official = FALSE /\ rawCfg.tokens = {}
    /\ tokenWrite.op # "remove" => normalCfg \subseteq tokenFiles[wallet]

\* The form shows what is missing in this session.
PreviewFits ==
  tokenPage = "preview" /\ wallet # NoToken /\ tokenWrite.pc = "idle" /\ tokenData # NoData
    => FoundNow(tokenData)

\* The function that writes, and what it writes.
WriteFits ==
  /\ tokenWrite.pc # "idle" => wallet # NoToken
  /\ wallet = NoToken => tokenPage = "closed"
  /\ tokenWrite.pc = "idle" => tokenWrite.op = "none"
  /\ tokenWrite.pc \in {"custom", "open coins", "fill coins"} =>
       tokenWrite.op \in {"add", "remove"} /\ tokenWrite.data.token \in Tokens
  /\ tokenWrite.op = "add" /\ tokenWrite.pc \in {"custom", "open coins"} => FoundNow(tokenWrite.data)
  /\ tokenWrite.op = "add" /\ tokenWrite.pc \in {"open coins", "fill coins"} =>
       tokenWrite.data.token \in tokenFiles[wallet]
  /\ tokenWrite.pc = "open coins" =>
       IF tokenWrite.op = "add" THEN RawMissing(tokenWrite.data) ELSE tokenWrite.data.token \in rawCfg.tokens
  /\ tokenWrite.pc = "fill coins" =>
       /\ coinsFile.state = "cut" /\ coinsFile.official
       /\ coinsFile.tokens[tokenWrite.data.token] = (IF tokenWrite.op = "add" THEN 0 ELSE 1)

BeingWritten == IF tokenWrite.pc \in {"open coins", "fill coins"} THEN {tokenWrite.data.token} ELSE {}

\* A token that is kept is in coins.json, is being written, or is accounted for.
KeptOrOrphaned ==
  IF coinsFile.state = "whole" \/ tokenWrite.pc = "fill coins"
  THEN \A t \in Tokens : t \in Kept => t \in orphaned \cup BeingWritten \/ coinsFile.tokens[t] = 1
  ELSE Kept \subseteq orphaned

TokensInv ==
  /\ TokenTypes /\ TokenOnce /\ RegistriesFit /\ PreviewFits /\ WriteFits
  /\ OfficialCoinsAreKept /\ KeptOrOrphaned /\ BusyIsAsked

-----------------------------------------------------------------------------
(* What the steps do to the files and to what writes them.                 *)

LEMMA TokenValues ==
  /\ NoData \in Datas /\ NoData.token = NoToken
  /\ NoWrite \in Writes /\ NoWrite.op = "none" /\ NoWrite.pc = "idle"
  /\ Shipped \in CoinsFiles /\ Shipped.state = "whole" /\ Shipped.official
  /\ \A t \in Tokens : Shipped.tokens[t] = 0
  /\ [Shipped EXCEPT !.state = "absent"] \in CoinsFiles
  /\ [Shipped EXCEPT !.state = "absent"].state = "absent"
  /\ [Shipped EXCEPT !.state = "absent"].official
  /\ \A t \in Tokens : [Shipped EXCEPT !.state = "absent"].tokens[t] = 0
  /\ NoToken \notin Tokens /\ NoToken \notin TokenWallets
BY TokensAssumption DEF NoData, Datas, NoWrite, Writes, Shipped, CoinsFiles

LEMMA MissingFacts ==
  ASSUME NEW t \in Tokens
  PROVE  /\ Missing(t) \in Datas /\ Missing(t).token = t
         /\ Missing(t).adex <=> t \notin normalCfg
         /\ Missing(t).kdf <=> t \notin rawCfg.tokens
         /\ Missing(t) # NoData
<1>1. Missing(t).token = t
  BY DEF Missing
<1>2. Missing(t) # NoData
  BY <1>1, TokenValues
<1> QED BY <1>1, <1>2 DEF Missing, Datas

LEMMA KeptFacts ==
  ASSUME TokenTypes
  PROVE  Kept \subseteq Tokens /\ \A w \in TokenWallets : tokenFiles[w] \subseteq Kept
BY DEF Kept, TokenTypes

LEMMA OpenSessionEffects ==
  ASSUME TokenTypes, NEW w \in TokenWallets, OpenSession(w)
  PROVE  /\ wallet = NoToken /\ wallet' = w /\ normalCfg' = tokenFiles[w]
         /\ coinsFile' = (IF coinsFile.state = "absent" THEN Shipped ELSE coinsFile)
         /\ coinsFile' \in CoinsFiles /\ coinsFile'.state # "absent"
         /\ rawCfg' \in [official : BOOLEAN, tokens : SUBSET Tokens]
         /\ coinsFile'.state = "whole" =>
              rawCfg'.official = coinsFile'.official /\ rawCfg'.tokens = {t \in Tokens : coinsFile'.tokens[t] > 0}
         /\ coinsFile'.state # "whole" => rawCfg'.official = FALSE /\ rawCfg'.tokens = {}
         /\ UNCHANGED <<tokenFiles, formVars, tokenWrite, orphaned>>
<1> DEFINE file == IF coinsFile.state = "absent" THEN Shipped ELSE coinsFile
<1>1. coinsFile' = file /\ wallet = NoToken /\ wallet' = w /\ normalCfg' = tokenFiles[w]
      /\ UNCHANGED <<tokenFiles, formVars, tokenWrite, orphaned>>
  BY DEF OpenSession, parse_raw_kdf_coins_file
<1>2. file \in CoinsFiles /\ file.state \in {"cut", "whole"} /\ file.official \in BOOLEAN
  BY TokenValues DEF TokenTypes, CoinsFiles
<1>3. rawCfg' = [official |-> (file.state = "whole") /\ file.official,
                 tokens |-> IF file.state = "whole" THEN {t \in Tokens : file.tokens[t] > 0} ELSE {}]
  BY DEF OpenSession, parse_raw_kdf_coins_file
<1> HIDE DEF file
<1>4. CASE file.state = "whole"
  <2>1. rawCfg' = [official |-> file.official, tokens |-> {t \in Tokens : file.tokens[t] > 0}]
    BY <1>2, <1>3, <1>4
  <2> QED BY <1>1, <1>2, <1>4, <2>1 DEF file
<1>5. CASE file.state # "whole"
  <2>1. rawCfg' = [official |-> FALSE, tokens |-> {}]
    BY <1>2, <1>3, <1>5
  <2> QED BY <1>1, <1>2, <1>5, <2>1 DEF file
<1> QED BY <1>4, <1>5

LEMMA SubmitEffects ==
  ASSUME TokenTypes, Submit
  PROVE  /\ tokenWrite' \in Writes /\ tokenWrite'.op = "add" /\ tokenWrite'.data = tokenData
         /\ CustomMissing(tokenData) => tokenWrite'.pc = "custom"
         /\ ~CustomMissing(tokenData) /\ RawMissing(tokenData) => tokenWrite'.pc = "open coins"
         /\ ~CustomMissing(tokenData) /\ ~RawMissing(tokenData) => tokenWrite'.pc = "restart"
         /\ tokenData' = NoData /\ tokenPage' = "closed"
         /\ UNCHANGED <<diskVars, cfgVars, tokenAsked, tokenBusy, tokenLost, orphaned>>
         /\ wallet # NoToken /\ tokenWrite.pc = "idle" /\ tokenPage = "preview" /\ tokenData # NoData
<1>1. InSession /\ tokenPage = "preview" /\ tokenData # NoData /\ tokenData \in Datas
  BY DEF Submit, TokenTypes
<1>2. PICK pc \in {"custom", "open coins", "restart"} :
        /\ tokenWrite' = [op |-> "add", data |-> tokenData, pc |-> pc]
        /\ CustomMissing(tokenData) => pc = "custom"
        /\ ~CustomMissing(tokenData) /\ RawMissing(tokenData) => pc = "open coins"
        /\ ~CustomMissing(tokenData) /\ ~RawMissing(tokenData) => pc = "restart"
  <2>1. CASE CustomMissing(tokenData)
    BY <2>1 DEF Submit
  <2>2. CASE ~CustomMissing(tokenData) /\ RawMissing(tokenData)
    BY <2>2 DEF Submit
  <2>3. CASE ~CustomMissing(tokenData) /\ ~RawMissing(tokenData)
    BY <2>3 DEF Submit
  <2> QED BY <2>1, <2>2, <2>3
<1>3. UNCHANGED <<diskVars, cfgVars, tokenAsked, tokenBusy, tokenLost, orphaned>>
      /\ tokenData' = NoData /\ tokenPage' = "closed"
  BY DEF Submit
<1> QED BY <1>1, <1>2, <1>3 DEF Writes, InSession

LEMMA WriteCustomEffects ==
  ASSUME TokenTypes, WriteFits, WriteCustom
  PROVE  /\ tokenWrite' \in Writes /\ tokenWrite'.op = tokenWrite.op /\ tokenWrite'.data = tokenWrite.data
         /\ tokenWrite'.pc = (IF CoinsToWrite THEN "open coins" ELSE "restart")
         /\ tokenFiles' \in [TokenWallets -> SUBSET Tokens]
         /\ \A w \in TokenWallets : w # wallet => tokenFiles'[w] = tokenFiles[w]
         /\ tokenWrite.op = "add" => tokenFiles'[wallet] = tokenFiles[wallet] \cup {tokenWrite.data.token}
         /\ tokenWrite.op # "add" => tokenFiles'[wallet] = tokenFiles[wallet] \ {tokenWrite.data.token}
         /\ tokenWrite.pc = "custom" /\ wallet \in TokenWallets
         /\ UNCHANGED <<coinsFile, cfgVars, formVars, orphaned>>
<1>1. wallet \in TokenWallets /\ tokenWrite.pc = "custom" /\ tokenWrite.data.token \in Tokens
  BY DEF WriteCustom, WriteFits, TokenTypes
<1>2. tokenWrite' = [tokenWrite EXCEPT !.pc = IF CoinsToWrite THEN "open coins" ELSE "restart"]
  BY DEF WriteCustom
<1>3. /\ tokenWrite' \in Writes /\ tokenWrite'.op = tokenWrite.op /\ tokenWrite'.data = tokenWrite.data
      /\ tokenWrite'.pc = (IF CoinsToWrite THEN "open coins" ELSE "restart")
  BY <1>2 DEF TokenTypes, Writes
<1> QED BY <1>1, <1>3 DEF WriteCustom, TokenTypes

LEMMA OpenCoinsEffects ==
  ASSUME TokenTypes, OpenCoins
  PROVE  /\ tokenWrite' \in Writes /\ tokenWrite'.op = tokenWrite.op /\ tokenWrite'.data = tokenWrite.data
         /\ tokenWrite'.pc = "fill coins" /\ tokenWrite.pc = "open coins"
         /\ tokenWrite.op = "remove" => coinsFile.state = "whole"
         /\ coinsFile' \in CoinsFiles /\ coinsFile'.state = "cut"
         /\ coinsFile.state = "whole" => coinsFile'.official = coinsFile.official
         /\ coinsFile'.tokens = coinsFile.tokens
         /\ UNCHANGED <<tokenFiles, cfgVars, formVars, orphaned>>
BY DEF OpenCoins, TokenTypes, Writes, CoinsFiles

LEMMA FillCoinsEffects ==
  ASSUME TokenTypes, WriteFits, FillCoins
  PROVE  /\ tokenWrite' \in Writes /\ tokenWrite'.op = tokenWrite.op /\ tokenWrite'.data = tokenWrite.data
         /\ tokenWrite'.pc = "restart" /\ tokenWrite.pc = "fill coins"
         /\ coinsFile' \in CoinsFiles /\ coinsFile'.state = "whole" /\ coinsFile'.official = coinsFile.official
         /\ tokenWrite.op = "add" => coinsFile'.tokens[tokenWrite.data.token] = 1
         /\ tokenWrite.op # "add" => coinsFile'.tokens[tokenWrite.data.token] = 0
         /\ \A t \in Tokens : t # tokenWrite.data.token => coinsFile'.tokens[t] = coinsFile.tokens[t]
         /\ tokenWrite.op = "add" => orphaned' = orphaned \ {tokenWrite.data.token}
         /\ tokenWrite.op # "add" => orphaned' = orphaned \cup (Kept \cap {tokenWrite.data.token})
         /\ UNCHANGED <<tokenFiles, cfgVars, formVars>>
<1> DEFINE t == tokenWrite.data.token
           n == IF tokenWrite.op = "add" THEN 1 ELSE 0
<1>1. t \in Tokens /\ tokenWrite.pc = "fill coins" /\ coinsFile.tokens \in [Tokens -> Nat]
      /\ coinsFile.tokens[t] = (IF tokenWrite.op = "add" THEN 0 ELSE 1)
  BY DEF FillCoins, WriteFits, TokenTypes, CoinsFiles
<1>2. coinsFile' = [coinsFile EXCEPT !.state = "whole", !.tokens = [coinsFile.tokens EXCEPT ![t] = n]]
  <2> DEFINE more == [coinsFile.tokens EXCEPT ![t] = coinsFile.tokens[t] + 1]
             less == [coinsFile.tokens EXCEPT ![t] = coinsFile.tokens[t] - 1]
  <2>1. coinsFile' = [coinsFile EXCEPT !.state = "whole",
                        !.tokens = IF tokenWrite.op = "add" THEN more ELSE less]
    BY Zenon DEF FillCoins, Erased
  <2>2. tokenWrite.op = "add" => coinsFile.tokens[t] = 0 /\ n = 1
    BY <1>1
  <2>3. tokenWrite.op # "add" => coinsFile.tokens[t] = 1 /\ n = 0
    BY <1>1
  <2>4. 0 + 1 = 1 /\ 1 - 1 = 0
    OBVIOUS
  <2> HIDE DEF t, n
  <2>5. tokenWrite.op = "add" => more = [coinsFile.tokens EXCEPT ![t] = n]
    BY <2>2, <2>4
  <2>6. tokenWrite.op # "add" => less = [coinsFile.tokens EXCEPT ![t] = n]
    BY <2>3, <2>4
  <2> HIDE DEF more, less
  <2> QED BY <2>1, <2>5, <2>6
<1>3. n \in Nat
  OBVIOUS
<1> HIDE DEF n
<1>4. /\ coinsFile' \in CoinsFiles /\ coinsFile'.state = "whole" /\ coinsFile'.official = coinsFile.official
      /\ coinsFile'.tokens[t] = n
      /\ \A u \in Tokens : u # t => coinsFile'.tokens[u] = coinsFile.tokens[u]
  BY <1>1, <1>2, <1>3 DEF TokenTypes, CoinsFiles
<1>5. /\ tokenWrite' \in Writes /\ tokenWrite'.op = tokenWrite.op /\ tokenWrite'.data = tokenWrite.data
      /\ tokenWrite'.pc = "restart"
  BY DEF FillCoins, TokenTypes, Writes
<1> QED BY <1>1, <1>4, <1>5 DEF n, FillCoins

-----------------------------------------------------------------------------
(* Every step keeps the invariant.                                         *)

LEMMA OpenSessionKeeps ==
  ASSUME TokensInv, NEW w \in TokenWallets, OpenSession(w)
  PROVE  TokensInv'
<1> USE DEF TokensInv
<1>1. /\ wallet = NoToken /\ wallet' = w /\ normalCfg' = tokenFiles[w]
      /\ coinsFile' = (IF coinsFile.state = "absent" THEN Shipped ELSE coinsFile)
      /\ coinsFile' \in CoinsFiles /\ coinsFile'.state # "absent"
      /\ rawCfg' \in [official : BOOLEAN, tokens : SUBSET Tokens]
      /\ coinsFile'.state = "whole" =>
           rawCfg'.official = coinsFile'.official /\ rawCfg'.tokens = {t \in Tokens : coinsFile'.tokens[t] > 0}
      /\ coinsFile'.state # "whole" => rawCfg'.official = FALSE /\ rawCfg'.tokens = {}
      /\ UNCHANGED <<tokenFiles, formVars, tokenWrite, orphaned>>
  BY OpenSessionEffects
<1>2. tokenWrite.pc = "idle" /\ tokenWrite.op = "none" /\ tokenPage = "closed"
  BY <1>1 DEF WriteFits, TokenTypes, Writes
<1>3. \A t \in Tokens : coinsFile'.tokens[t] \in 0..1
      /\ (coinsFile'.tokens[t] = coinsFile.tokens[t] \/ coinsFile.state = "absent")
  BY <1>1, TokenValues DEF TokenOnce
<1>4. coinsFile'.state = "whole" => coinsFile'.official
  BY <1>1, TokenValues DEF OfficialCoinsAreKept
<1>5. TokenTypes'
  BY <1>1 DEF TokenTypes, formVars
<1>6. RegistriesFit'
  BY <1>1, <1>2 DEF RegistriesFit
<1>7. PreviewFits' /\ BusyIsAsked'
  BY <1>1, <1>2 DEF PreviewFits, BusyIsAsked, formVars
<1>8. WriteFits'
  BY <1>1, <1>2, TokenValues DEF WriteFits, formVars
<1>9. Kept' = Kept /\ orphaned' = orphaned
  BY <1>1 DEF Kept
<1>10. KeptOrOrphaned'
  <2>1. BeingWritten = {} /\ tokenWrite'.pc # "fill coins" /\ Kept \subseteq Tokens
    BY <1>1, <1>2, KeptFacts DEF BeingWritten
  <2>2. coinsFile.state = "whole" => \A t \in Tokens : t \in Kept => t \in orphaned \/ coinsFile.tokens[t] = 1
    BY <2>1 DEF KeptOrOrphaned
  <2>3. coinsFile.state # "whole" => Kept \subseteq orphaned
    BY <1>2 DEF KeptOrOrphaned
  <2>4. coinsFile'.state = "whole" =>
          \A t \in Tokens : t \in Kept' => t \in orphaned' \/ coinsFile'.tokens[t] = 1
    BY <1>1, <1>9, <2>2, <2>3
  <2>5. coinsFile'.state # "whole" => Kept' \subseteq orphaned'
    BY <1>1, <1>9, <2>3, TokenValues
  <2> QED BY <2>1, <2>4, <2>5 DEF KeptOrOrphaned
<1> QED BY <1>3, <1>4, <1>5, <1>6, <1>7, <1>8, <1>10 DEF TokenOnce, OfficialCoinsAreKept

FormFits ==
  /\ tokenAsked \in Tokens \cup {NoToken} /\ tokenBusy \in BOOLEAN /\ tokenLost \in BOOLEAN
  /\ tokenData \in Datas
  /\ tokenPage \in {"closed", "earlier", "address", "preview"}
  /\ wallet = NoToken => tokenPage = "closed"

\* What a step that leaves the files and the registries alone keeps.
LEMMA FilesStay ==
  ASSUME TokensInv, UNCHANGED <<diskVars, normalCfg, rawCfg, tokenWrite, orphaned>>,
         FormFits', PreviewFits', BusyIsAsked',
         wallet' = wallet \/ (wallet' = NoToken /\ tokenWrite.pc = "idle")
  PROVE  TokensInv'
<1> USE DEF TokensInv, diskVars
<1>1. TokenTypes' /\ TokenOnce' /\ OfficialCoinsAreKept'
  BY DEF TokenTypes, FormFits, TokenOnce, OfficialCoinsAreKept
<1>2. RegistriesFit'
  BY DEF RegistriesFit
<1>3. WriteFits'
  BY DEF WriteFits, FormFits, FoundNow, Missing, ParentKnown, RawMissing
<1>4. KeptOrOrphaned'
  BY DEF KeptOrOrphaned, Kept, BeingWritten
<1> QED BY <1>1, <1>2, <1>3, <1>4

LEMMA CloseSessionKeeps == ASSUME TokensInv, CloseSession PROVE TokensInv'
<1>1. PreviewFits' /\ BusyIsAsked'
  BY DEF CloseSession, PreviewFits, BusyIsAsked, TokensInv
<1>2. UNCHANGED <<diskVars, normalCfg, rawCfg, tokenWrite, orphaned>> /\ wallet' = NoToken /\ tokenWrite.pc = "idle"
  BY DEF CloseSession, InSession
<1>3. FormFits'
  BY DEF CloseSession, TokensInv, TokenTypes, WriteFits, FormFits
<1> QED BY <1>1, <1>2, <1>3, FilesStay

LEMMA TurnPageKeeps ==
  ASSUME TokensInv, NEW to \in {"closed", "earlier", "address"}, TurnPage(to)
  PROVE  TokensInv'
<1>1. PreviewFits' /\ BusyIsAsked'
  BY DEF TurnPage, PreviewFits, BusyIsAsked, TokensInv
<1>2. wallet # NoToken
  BY DEF TurnPage, InSession
<1>3. UNCHANGED <<diskVars, normalCfg, rawCfg, tokenWrite, orphaned>> /\ wallet' = wallet
  BY DEF TurnPage, cfgVars
<1>4. FormFits'
  BY <1>2 DEF TurnPage, cfgVars, TokensInv, TokenTypes, WriteFits, FormFits
<1> QED BY <1>1, <1>3, <1>4, FilesStay

LEMMA process_token_addKeeps ==
  ASSUME TokensInv, NEW t \in Tokens, process_token_add(t)
  PROVE  TokensInv'
<1>1. PreviewFits' /\ BusyIsAsked'
  BY TokenValues DEF process_token_add, PreviewFits, BusyIsAsked, TokensInv
<1>2. UNCHANGED <<diskVars, normalCfg, rawCfg, tokenWrite, orphaned>> /\ wallet' = wallet
  BY DEF process_token_add, cfgVars
<1>3. FormFits'
  BY DEF process_token_add, InSession, cfgVars, TokensInv, TokenTypes, WriteFits, FormFits
<1> QED BY <1>1, <1>2, <1>3, FilesStay

\* An answer shows what is missing while its session lasts.
LEMMA TokenAnsweredKeeps == ASSUME TokensInv, TokenAnswered PROVE TokensInv'
<1>1. tokenAsked \in Tokens
  BY DEF TokensInv, TokenTypes, TokenAnswered
<1>2. Missing(tokenAsked) \in Datas /\ Missing(tokenAsked).token = tokenAsked
  BY <1>1, MissingFacts
<1>3. FoundNow(tokenData)'
  BY <1>1, <1>2 DEF TokenAnswered, FoundNow, Missing, ParentKnown, cfgVars
<1>4. PreviewFits' /\ BusyIsAsked'
  BY <1>3 DEF TokenAnswered, PreviewFits, BusyIsAsked
<1>5. tokenPage' \in {"closed", "earlier", "address", "preview"}
  BY DEF TokensInv, TokenTypes, TokenAnswered, NextPage
<1>6. UNCHANGED <<diskVars, normalCfg, rawCfg, tokenWrite, orphaned>> /\ wallet' = wallet
  BY DEF TokenAnswered, cfgVars
<1>7. FormFits'
  BY <1>2, <1>5 DEF TokenAnswered, InSession, cfgVars, TokensInv, TokenTypes, WriteFits, FormFits
<1> QED BY <1>4, <1>6, <1>7, FilesStay

LEMMA TokenRefusedKeeps == ASSUME TokensInv, TokenRefused PROVE TokensInv'
<1>1. PreviewFits' /\ BusyIsAsked'
  BY DEF TokenRefused, PreviewFits, BusyIsAsked
<1>2. tokenPage' \in {"closed", "earlier", "address", "preview"}
  BY DEF TokensInv, TokenTypes, TokenRefused, NextPage
<1>3. UNCHANGED <<diskVars, normalCfg, rawCfg, tokenWrite, orphaned>> /\ wallet' = wallet
  BY DEF TokenRefused, cfgVars
<1>4. FormFits'
  BY <1>2, TokenValues DEF TokenRefused, InSession, cfgVars, TokensInv, TokenTypes, WriteFits, FormFits
<1> QED BY <1>1, <1>3, <1>4, FilesStay

LEMMA TokenLostKeeps == ASSUME TokensInv, TokenLost PROVE TokensInv'
<1>1. PreviewFits' /\ BusyIsAsked'
  BY DEF TokenLost, PreviewFits, BusyIsAsked, TokensInv, FoundNow, Missing, ParentKnown, cfgVars
<1>2. UNCHANGED <<diskVars, normalCfg, rawCfg, tokenWrite, orphaned>> /\ wallet' = wallet
  BY DEF TokenLost, cfgVars
<1>3. FormFits'
  BY DEF TokenLost, InSession, cfgVars, TokensInv, TokenTypes, WriteFits, FormFits
<1> QED BY <1>1, <1>2, <1>3, FilesStay

LEMMA ProcessEndsKeeps == ASSUME TokensInv, ProcessEnds PROVE TokensInv'
<1> USE DEF TokensInv, diskVars
<1>1. TokenTypes'
  BY TokenValues DEF ProcessEnds, TokenTypes, CutShort
<1>2. TokenOnce' /\ RegistriesFit' /\ PreviewFits' /\ OfficialCoinsAreKept' /\ BusyIsAsked'
  BY TokenValues DEF ProcessEnds, TokenOnce, RegistriesFit, PreviewFits, OfficialCoinsAreKept, BusyIsAsked
<1>3. WriteFits'
  BY TokenValues DEF ProcessEnds, WriteFits
<1>4. BeingWritten \cap Kept \subseteq orphaned'
  BY KeptFacts DEF ProcessEnds, BeingWritten, CutShort
<1>5. tokenWrite.pc = "fill coins" => Kept \subseteq orphaned'
  BY KeptFacts DEF ProcessEnds, CutShort, WriteFits
<1>6. KeptOrOrphaned'
  <2>1. coinsFile' = coinsFile /\ Kept' = Kept /\ orphaned \subseteq orphaned' /\ tokenWrite'.pc = "idle"
    BY TokenValues DEF ProcessEnds, Kept
  <2>2. CASE tokenWrite.pc = "fill coins"
    BY <1>5, <2>1, <2>2 DEF KeptOrOrphaned, WriteFits
  <2>3. CASE tokenWrite.pc # "fill coins"
    BY <1>4, <2>1, <2>3 DEF KeptOrOrphaned
  <2> QED BY <2>2, <2>3
<1> QED BY <1>1, <1>2, <1>3, <1>6

\* Without coins.json everything that is kept is accounted for.
LEMMA NewVersionKeeps == ASSUME TokensInv, NewVersion PROVE TokensInv'
<1> USE DEF TokensInv
<1>1. TokenTypes'
  BY TokenValues, KeptFacts DEF NewVersion, TokenTypes, cfgVars, formVars
<1>2. TokenOnce' /\ RegistriesFit' /\ PreviewFits' /\ OfficialCoinsAreKept' /\ BusyIsAsked'
  BY TokenValues DEF NewVersion, TokenOnce, RegistriesFit, PreviewFits, OfficialCoinsAreKept, BusyIsAsked,
     cfgVars, formVars
<1>3. WriteFits'
  BY TokenValues DEF NewVersion, WriteFits, cfgVars, formVars
<1>4. KeptOrOrphaned'
  BY <1>3, TokenValues DEF NewVersion, KeptOrOrphaned, Kept, WriteFits, cfgVars
<1> QED BY <1>1, <1>2, <1>3, <1>4

LEMMA reset_coin_cfgKeeps == ASSUME TokensInv, reset_coin_cfg PROVE TokensInv'
<1> USE DEF TokensInv
<1>1. tokenWrite' \in Writes /\ tokenWrite'.op = "reset" /\ tokenWrite'.pc = "restart"
  BY TokenValues DEF reset_coin_cfg, Writes
<1>2. wallet' = wallet /\ wallet # NoToken
  BY DEF reset_coin_cfg, InSession, cfgVars
<1>3. TokenTypes'
  BY <1>1, TokenValues, KeptFacts DEF reset_coin_cfg, TokenTypes, cfgVars, formVars
<1>4. PreviewFits' /\ BusyIsAsked' /\ RegistriesFit'
  BY <1>1 DEF reset_coin_cfg, PreviewFits, BusyIsAsked, RegistriesFit, formVars
<1>8. TokenOnce' /\ OfficialCoinsAreKept'
  BY TokenValues DEF reset_coin_cfg, TokenOnce, OfficialCoinsAreKept
<1>5. WriteFits'
  BY <1>1, <1>2 DEF WriteFits
<1>6. KeptOrOrphaned'
  BY <1>1, TokenValues DEF reset_coin_cfg, KeptOrOrphaned, Kept
<1> QED BY <1>3, <1>4, <1>5, <1>6, <1>8

LEMMA remove_custom_coinKeeps ==
  ASSUME TokensInv, NEW t \in Tokens, remove_custom_coin(t)
  PROVE  TokensInv'
<1> USE DEF TokensInv
<1>1. /\ tokenWrite' \in Writes /\ tokenWrite'.op = "remove" /\ tokenWrite'.pc = "custom"
      /\ tokenWrite'.data.token = t
  BY TokenValues DEF remove_custom_coin, Writes, Datas
<1>2. wallet' = wallet /\ wallet # NoToken /\ tokenWrite.pc = "idle" /\ tokenWrite.op = "none"
  BY DEF remove_custom_coin, InSession, WriteFits
<1>3. TokenTypes'
  BY <1>1 DEF remove_custom_coin, TokenTypes, diskVars, formVars
<1>4. TokenOnce' /\ PreviewFits' /\ OfficialCoinsAreKept' /\ BusyIsAsked'
  BY <1>1 DEF remove_custom_coin, TokenOnce, PreviewFits, OfficialCoinsAreKept, BusyIsAsked, diskVars, formVars
<1>5. RegistriesFit'
  BY <1>1, <1>2 DEF remove_custom_coin, RegistriesFit, diskVars
<1>6. WriteFits'
  BY <1>1, <1>2 DEF WriteFits
<1>7. KeptOrOrphaned'
  BY <1>1, <1>2 DEF remove_custom_coin, KeptOrOrphaned, Kept, BeingWritten, diskVars
<1> QED BY <1>3, <1>4, <1>5, <1>6, <1>7

LEMMA SubmitKeeps == ASSUME TokensInv, Submit PROVE TokensInv'
<1> USE DEF TokensInv
<1>1. /\ tokenWrite' \in Writes /\ tokenWrite'.op = "add" /\ tokenWrite'.data = tokenData
      /\ CustomMissing(tokenData) => tokenWrite'.pc = "custom"
      /\ ~CustomMissing(tokenData) /\ RawMissing(tokenData) => tokenWrite'.pc = "open coins"
      /\ ~CustomMissing(tokenData) /\ ~RawMissing(tokenData) => tokenWrite'.pc = "restart"
      /\ tokenData' = NoData /\ tokenPage' = "closed"
      /\ UNCHANGED <<diskVars, cfgVars, tokenAsked, tokenBusy, tokenLost, orphaned>>
      /\ wallet # NoToken /\ tokenWrite.pc = "idle" /\ tokenPage = "preview" /\ tokenData # NoData
  BY SubmitEffects
<1>2. FoundNow(tokenData)
  BY <1>1 DEF PreviewFits
<1>3. ~CustomMissing(tokenData) => tokenData.token \in tokenFiles[wallet]
  BY <1>1, <1>2, MissingFacts DEF CustomMissing, FoundNow, RegistriesFit, WriteFits
<1>4. FoundNow(tokenWrite.data)'
  BY <1>1, <1>2 DEF FoundNow, Missing, ParentKnown, cfgVars
<1>5. tokenWrite'.pc = "open coins" => RawMissing(tokenWrite.data)'
  BY <1>1 DEF RawMissing, cfgVars
<1>6. TokenTypes'
  BY <1>1, TokenValues DEF TokenTypes, diskVars, cfgVars
<1>7. TokenOnce' /\ PreviewFits' /\ OfficialCoinsAreKept' /\ BusyIsAsked'
  BY <1>1 DEF TokenOnce, PreviewFits, OfficialCoinsAreKept, BusyIsAsked, diskVars
<1>8. RegistriesFit'
  BY <1>1 DEF RegistriesFit, WriteFits, diskVars, cfgVars
<1>9. WriteFits'
  <2>1. tokenWrite'.pc \in {"custom", "open coins", "restart"} /\ wallet' = wallet /\ tokenFiles' = tokenFiles
    BY <1>1 DEF diskVars, cfgVars
  <2>2. tokenWrite'.pc = "open coins" => ~CustomMissing(tokenData)
    BY <1>1
  <2>3. tokenWrite'.data.token \in Tokens
    BY <1>1, <1>2 DEF FoundNow
  <2> QED BY <1>1, <1>3, <1>4, <1>5, <2>1, <2>2, <2>3 DEF WriteFits
<1>10. KeptOrOrphaned'
  <2>1. Kept' = Kept /\ coinsFile' = coinsFile /\ orphaned' = orphaned /\ BeingWritten = {}
        /\ tokenWrite'.pc # "fill coins"
    BY <1>1 DEF Kept, diskVars, BeingWritten
  <2> QED BY <1>1, <2>1 DEF KeptOrOrphaned
<1> QED BY <1>6, <1>7, <1>8, <1>9, <1>10

LEMMA ZeroOrOne == \A n \in 0..1 : (n > 0 => n = 1) /\ (~(n > 0) => n = 0)
OBVIOUS

\* A token that both registries name is in both files: nothing needs to be written.
LEMMA KnownIsKept ==
  ASSUME TokensInv, wallet # NoToken, tokenWrite.pc \in {"idle", "custom", "open coins"},
         NEW d \in Datas, FoundNow(d)
  PROVE  /\ ~RawMissing(d) => coinsFile.state = "whole" /\ coinsFile.tokens[d.token] = 1
         /\ RawMissing(d) => coinsFile.state = "whole" /\ coinsFile.tokens[d.token] = 0
<1> USE DEF TokensInv
<1>1. d.token \in Tokens /\ d = Missing(d.token) /\ ParentKnown(d)
  BY DEF FoundNow
<1>2. (d.adex <=> d.token \notin normalCfg) /\ (d.kdf <=> d.token \notin rawCfg.tokens)
  BY <1>1, MissingFacts
<1>3. (RawMissing(d) <=> d.token \notin rawCfg.tokens) /\ (d.adex \/ d.kdf => rawCfg.official)
  BY <1>1, <1>2 DEF RawMissing, ParentKnown
<1>4. coinsFile.state # "whole" => rawCfg.official = FALSE /\ rawCfg.tokens = {}
  BY DEF RegistriesFit
<1>5. coinsFile.state = "whole" => (d.token \in rawCfg.tokens <=> coinsFile.tokens[d.token] > 0)
  BY <1>1 DEF RegistriesFit
<1>6. coinsFile.tokens[d.token] \in 0..1
  BY <1>1 DEF TokenOnce
<1> HIDE DEF TokensInv
<1>7. coinsFile.state = "whole" /\ d.token \in rawCfg.tokens => coinsFile.tokens[d.token] = 1
  BY <1>5, <1>6, ZeroOrOne, Zenon
<1>8. coinsFile.state = "whole" /\ d.token \notin rawCfg.tokens => coinsFile.tokens[d.token] = 0
  BY <1>5, <1>6, ZeroOrOne, Zenon
<1>9. coinsFile.state # "whole" => FALSE
  BY <1>2, <1>3, <1>4
<1>10. coinsFile.state = "whole"
  BY <1>9
<1> QED BY <1>3, <1>7, <1>8, <1>10

LEMMA WriteCustomKeeps == ASSUME TokensInv, WriteCustom PROVE TokensInv'
<1> USE DEF TokensInv
<1> DEFINE t == tokenWrite.data.token
<1>1. /\ tokenWrite' \in Writes /\ tokenWrite'.op = tokenWrite.op /\ tokenWrite'.data = tokenWrite.data
      /\ tokenWrite'.pc = (IF CoinsToWrite THEN "open coins" ELSE "restart")
      /\ tokenFiles' \in [TokenWallets -> SUBSET Tokens]
      /\ \A w \in TokenWallets : w # wallet => tokenFiles'[w] = tokenFiles[w]
      /\ tokenWrite.op = "add" => tokenFiles'[wallet] = tokenFiles[wallet] \cup {t}
      /\ tokenWrite.op # "add" => tokenFiles'[wallet] = tokenFiles[wallet] \ {t}
      /\ tokenWrite.pc = "custom" /\ wallet \in TokenWallets
      /\ UNCHANGED <<coinsFile, cfgVars, formVars, orphaned>>
  BY WriteCustomEffects
<1>2. t \in Tokens /\ tokenWrite.op \in {"add", "remove"} /\ wallet # NoToken
      /\ (tokenWrite.op = "add" => FoundNow(tokenWrite.data))
  BY <1>1 DEF WriteFits
<1>3. /\ tokenWrite.op = "add" => (CoinsToWrite <=> RawMissing(tokenWrite.data))
      /\ tokenWrite.op # "add" => (CoinsToWrite <=> t \in rawCfg.tokens)
  BY DEF CoinsToWrite
<1>4. TokenTypes'
  BY <1>1 DEF TokenTypes, cfgVars, formVars
<1>5. TokenOnce' /\ OfficialCoinsAreKept' /\ BusyIsAsked'
  BY <1>1 DEF TokenOnce, OfficialCoinsAreKept, BusyIsAsked, formVars
<1>6. PreviewFits'
  BY <1>1 DEF PreviewFits
<1>7. RegistriesFit'
  <2>1. tokenWrite.op # "remove" => normalCfg \subseteq tokenFiles'[wallet]
    BY <1>1, <1>2 DEF RegistriesFit
  <2> QED BY <1>1, <1>2, <2>1 DEF RegistriesFit, cfgVars
<1>8. WriteFits'
  <2>1. tokenWrite.op = "add" => FoundNow(tokenWrite.data)'
    BY <1>1, <1>2 DEF FoundNow, Missing, ParentKnown, cfgVars
  <2>2. tokenWrite'.pc = "open coins" =>
          IF tokenWrite'.op = "add" THEN RawMissing(tokenWrite.data)' ELSE tokenWrite'.data.token \in rawCfg'.tokens
    BY <1>1, <1>3 DEF RawMissing, cfgVars
  <2>3. tokenWrite.op = "add" => tokenWrite'.data.token \in tokenFiles'[wallet']
    BY <1>1 DEF cfgVars
  <2> HIDE DEF t
  <2>4. tokenWrite'.pc \in {"open coins", "restart"} /\ wallet' = wallet
    BY <1>1 DEF cfgVars
  <2> QED BY <1>1, <1>2, <2>1, <2>2, <2>3, <2>4 DEF WriteFits, t
<1>9. KeptOrOrphaned'
  <2>1. CASE tokenWrite.op = "add"
    <3>1. Kept' \subseteq Kept \cup {t}
      <4>1. \A w \in TokenWallets : tokenFiles'[w] \subseteq tokenFiles[w] \cup {t}
        BY <1>1, <2>1
      <4> QED BY <4>1 DEF Kept
    <3>2. coinsFile.state = "whole"
      BY <1>1, <1>2, <2>1, KnownIsKept DEF TokenTypes, Writes
    <3>3. t \in BeingWritten' \/ coinsFile'.tokens[t] = 1
      BY <1>1, <1>2, <1>3, <2>1, KnownIsKept DEF TokenTypes, Writes, BeingWritten
    <3>4. BeingWritten = {} /\ orphaned' = orphaned /\ coinsFile' = coinsFile
      BY <1>1 DEF BeingWritten
    <3>5. \A u \in Tokens : u \in Kept => u \in orphaned \/ coinsFile.tokens[u] = 1
      BY <3>2, <3>4 DEF KeptOrOrphaned
    <3> QED BY <3>1, <3>2, <3>3, <3>4, <3>5 DEF KeptOrOrphaned
  <2>2. CASE tokenWrite.op # "add"
    <3>1. Kept' \subseteq Kept
      <4>1. \A w \in TokenWallets : tokenFiles'[w] \subseteq tokenFiles[w]
        BY <1>1, <2>2
      <4> QED BY <4>1 DEF Kept
    <3>2. BeingWritten = {} /\ orphaned' = orphaned /\ coinsFile' = coinsFile
          /\ tokenWrite'.pc # "fill coins" /\ tokenWrite.pc # "fill coins"
      BY <1>1 DEF BeingWritten
    <3> QED BY <3>1, <3>2 DEF KeptOrOrphaned
  <2> QED BY <2>1, <2>2
<1> QED BY <1>4, <1>5, <1>6, <1>7, <1>8, <1>9

LEMMA OpenCoinsKeeps == ASSUME TokensInv, OpenCoins PROVE TokensInv'
<1> USE DEF TokensInv
<1> DEFINE t == tokenWrite.data.token
<1>1. /\ tokenWrite' \in Writes /\ tokenWrite'.op = tokenWrite.op /\ tokenWrite'.data = tokenWrite.data
      /\ tokenWrite'.pc = "fill coins" /\ tokenWrite.pc = "open coins"
      /\ tokenWrite.op = "remove" => coinsFile.state = "whole"
      /\ coinsFile' \in CoinsFiles /\ coinsFile'.state = "cut"
      /\ coinsFile.state = "whole" => coinsFile'.official = coinsFile.official
      /\ coinsFile'.tokens = coinsFile.tokens
      /\ UNCHANGED <<tokenFiles, cfgVars, formVars, orphaned>>
  BY OpenCoinsEffects
<1>2. t \in Tokens /\ tokenWrite.op \in {"add", "remove"} /\ wallet # NoToken /\ tokenWrite.data \in Datas
  BY <1>1 DEF WriteFits, TokenTypes, Writes
<1>3. tokenWrite.op = "add" => coinsFile.state = "whole" /\ coinsFile.tokens[t] = 0
  BY <1>1, <1>2, KnownIsKept DEF WriteFits
<1>4. tokenWrite.op # "add" => coinsFile.state = "whole" /\ coinsFile.tokens[t] = 1
  <2>1. tokenWrite.op # "add" => coinsFile.state = "whole" /\ coinsFile.tokens[t] > 0
    BY <1>1, <1>2 DEF WriteFits, RegistriesFit
  <2>2. coinsFile.tokens[t] \in 0..1
    BY <1>2 DEF TokenOnce
  <2> QED BY <2>1, <2>2
<1>5. coinsFile.state = "whole" /\ coinsFile'.official
  BY <1>1, <1>2, <1>3, <1>4 DEF OfficialCoinsAreKept
<1>6. TokenTypes'
  BY <1>1 DEF TokenTypes, cfgVars, formVars
<1>7. TokenOnce' /\ RegistriesFit' /\ PreviewFits' /\ OfficialCoinsAreKept' /\ BusyIsAsked'
  BY <1>1 DEF TokenOnce, RegistriesFit, PreviewFits, OfficialCoinsAreKept, BusyIsAsked, formVars
<1>8. WriteFits'
  BY <1>1, <1>2, <1>3, <1>4, <1>5 DEF WriteFits, cfgVars
<1>9. KeptOrOrphaned'
  BY <1>1, <1>5 DEF KeptOrOrphaned, Kept, BeingWritten
<1> QED BY <1>6, <1>7, <1>8, <1>9

LEMMA FillCoinsKeeps == ASSUME TokensInv, FillCoins PROVE TokensInv'
<1> USE DEF TokensInv
<1> DEFINE t == tokenWrite.data.token
<1>1. /\ tokenWrite' \in Writes /\ tokenWrite'.op = tokenWrite.op /\ tokenWrite'.data = tokenWrite.data
      /\ tokenWrite'.pc = "restart" /\ tokenWrite.pc = "fill coins"
      /\ coinsFile' \in CoinsFiles /\ coinsFile'.state = "whole" /\ coinsFile'.official = coinsFile.official
      /\ tokenWrite.op = "add" => coinsFile'.tokens[t] = 1
      /\ tokenWrite.op # "add" => coinsFile'.tokens[t] = 0
      /\ \A u \in Tokens : u # t => coinsFile'.tokens[u] = coinsFile.tokens[u]
      /\ tokenWrite.op = "add" => orphaned' = orphaned \ {t}
      /\ tokenWrite.op # "add" => orphaned' = orphaned \cup (Kept \cap {t})
      /\ UNCHANGED <<tokenFiles, cfgVars, formVars>>
  BY FillCoinsEffects
<1>2. wallet # NoToken /\ coinsFile.official /\ t \in Tokens
  BY <1>1 DEF WriteFits
<1>3. orphaned' \subseteq Tokens
  BY <1>1, KeptFacts DEF TokenTypes
<1>4. TokenTypes'
  BY <1>1, <1>3 DEF TokenTypes, cfgVars, formVars
<1>5. TokenOnce'
  <2>1. \A u \in Tokens : coinsFile'.tokens[u] \in {0, 1} \cup 0..1
    BY <1>1 DEF TokenOnce
  <2> QED BY <2>1 DEF TokenOnce
<1>6. RegistriesFit' /\ PreviewFits' /\ OfficialCoinsAreKept' /\ BusyIsAsked'
  BY <1>1, <1>2 DEF RegistriesFit, PreviewFits, OfficialCoinsAreKept, BusyIsAsked, formVars
<1>7. WriteFits'
  BY <1>1, <1>2 DEF WriteFits, cfgVars
<1>8. KeptOrOrphaned'
  <2>1. \A u \in Tokens : u \in Kept => u \in orphaned \cup {t} \/ coinsFile.tokens[u] = 1
    BY <1>1 DEF KeptOrOrphaned, BeingWritten
  <2>2. Kept' = Kept
    BY <1>1 DEF Kept
  <2>3. \A u \in Tokens : u \in Kept => u \in orphaned' \/ coinsFile'.tokens[u] = 1
    BY <1>1, <2>1
  <2> QED BY <1>1, <2>2, <2>3 DEF KeptOrOrphaned
<1> QED BY <1>4, <1>5, <1>6, <1>7, <1>8

-----------------------------------------------------------------------------
(* Custom tokens: the theorems.                                            *)

LEMMA TokensInitially == TokensInit => TokensInv
<1> SUFFICES ASSUME TokensInit PROVE TokensInv
  OBVIOUS
<1>1. Kept = {}
  BY DEF TokensInit, Kept
<1>2. TokenTypes
  BY TokenValues DEF TokensInit, TokenTypes
<1>3. TokenOnce /\ RegistriesFit /\ PreviewFits /\ OfficialCoinsAreKept /\ BusyIsAsked
  BY TokenValues DEF TokensInit, TokenOnce, RegistriesFit, PreviewFits, OfficialCoinsAreKept, BusyIsAsked
<1>4. WriteFits
  BY TokenValues DEF TokensInit, WriteFits
<1>5. KeptOrOrphaned
  BY <1>1 DEF KeptOrOrphaned
<1> QED BY <1>2, <1>3, <1>4, <1>5 DEF TokensInv

LEMMA TokensInvStep == TokensInv /\ [TokensNext]_tokenVars => TokensInv'
<1> SUFFICES ASSUME TokensInv, [TokensNext]_tokenVars PROVE TokensInv'
  OBVIOUS
<1>1. CASE UNCHANGED tokenVars
  <2> USE <1>1 DEF tokenVars, diskVars, cfgVars, formVars, TokensInv
  <2>1. TokenTypes' /\ TokenOnce' /\ RegistriesFit' /\ OfficialCoinsAreKept' /\ BusyIsAsked'
    BY DEF TokenTypes, TokenOnce, RegistriesFit, OfficialCoinsAreKept, BusyIsAsked
  <2>2. PreviewFits'
    BY DEF PreviewFits, FoundNow, Missing, ParentKnown
  <2>3. WriteFits'
    BY DEF WriteFits, FoundNow, Missing, ParentKnown, RawMissing
  <2>4. KeptOrOrphaned'
    BY DEF KeptOrOrphaned, Kept, BeingWritten
  <2> QED BY <2>1, <2>2, <2>3, <2>4
<1>2. CASE TokensNext
  BY <1>2, OpenSessionKeeps, CloseSessionKeeps, ProcessEndsKeeps, NewVersionKeeps, TurnPageKeeps,
     process_token_addKeeps, remove_custom_coinKeeps, TokenAnsweredKeeps, TokenRefusedKeeps,
     TokenLostKeeps, SubmitKeeps, reset_coin_cfgKeeps, WriteCustomKeeps, OpenCoinsKeeps, FillCoinsKeeps
     DEF TokensNext
<1> QED BY <1>1, <1>2

LEMMA TokensInvHolds == TokensInit /\ [][TokensNext]_tokenVars => []TokensInv
BY TokensInitially, TokensInvStep, PTL

\* A token that some wallet keeps is once in a coins.json that is whole, unless the file was
\* cut short, replaced or reset, another wallet removed the token, or the process ended
\* between the two writes (orphaned, until it is added again); no token is written over a
\* file that was cut short; and the dialog waits for answers that can come.
THEOREM TokensStayKept == TokensInit /\ [][TokensNext]_tokenVars => []TokensAreKept
<1>1. TokensInv => TokensAreKept
  <2> SUFFICES ASSUME TokensInv PROVE TokensAreKept
    OBVIOUS
  <2>1. KeptTokensAreKnown
    BY KeptFacts DEF TokensInv, KeptTokensAreKnown, KeptOrOrphaned, BeingWritten
  <2> QED BY <2>1 DEF TokensInv, TokensAreKept
<1> QED BY <1>1, TokensInvHolds, PTL

\* The registries that Submit trusts are as good as the files: whatever was lost before,
\* an addition that reaches its end leaves the token in the wallet's file and once in
\* coins.json.
THEOREM SubmitAlwaysRepairs == TokensInit /\ [][TokensNext]_tokenVars => SubmitRepairs
<1> DEFINE Repaired == tokenWrite'.op = "add" /\ tokenWrite'.pc = "restart" =>
                         /\ tokenWrite'.data.token \in tokenFiles'[wallet]
                         /\ coinsFile'.state = "whole" /\ coinsFile'.tokens[tokenWrite'.data.token] = 1
<1>1. TokensInv /\ [TokensNext]_tokenVars => [Repaired]_tokenVars
  <2> SUFFICES ASSUME TokensInv, TokensNext, tokenWrite'.op = "add", tokenWrite'.pc = "restart"
               PROVE  /\ tokenWrite'.data.token \in tokenFiles'[wallet]
                      /\ coinsFile'.state = "whole" /\ coinsFile'.tokens[tokenWrite'.data.token] = 1
    OBVIOUS
  <2> USE DEF TokensInv
  <2>1. wallet = NoToken => tokenWrite.pc = "idle"
    BY DEF WriteFits
  <2>2. Submit \/ WriteCustom \/ FillCoins
    <3>1. ASSUME InSession PROVE tokenWrite' # tokenWrite
      BY <3>1, TokenValues DEF InSession
    <3>2. ASSUME NEW w \in TokenWallets PROVE ~OpenSession(w)
      BY <2>1 DEF OpenSession
    <3>3. ~CloseSession /\ ~TokenAnswered /\ ~TokenRefused /\ ~TokenLost
      BY <3>1 DEF CloseSession, TokenAnswered, TokenRefused, TokenLost
    <3>4. ASSUME NEW to PROVE ~TurnPage(to)
      BY <3>1 DEF TurnPage
    <3>5. ASSUME NEW t \in Tokens PROVE ~process_token_add(t) /\ ~remove_custom_coin(t)
      BY <3>1 DEF process_token_add, remove_custom_coin
    <3>6. ~ProcessEnds /\ ~reset_coin_cfg
      BY TokenValues DEF ProcessEnds, reset_coin_cfg, NoWrite
    <3>7. ~NewVersion
      BY <2>1 DEF NewVersion
    <3>8. ~OpenCoins
      BY DEF OpenCoins, TokenTypes, Writes
    <3> QED BY <3>2, <3>3, <3>4, <3>5, <3>6, <3>7, <3>8 DEF TokensNext
  <2>3. CASE Submit
    <3>1. /\ tokenWrite'.data = tokenData /\ UNCHANGED diskVars
          /\ ~CustomMissing(tokenData) /\ ~RawMissing(tokenData)
          /\ wallet # NoToken /\ tokenWrite.pc = "idle" /\ tokenPage = "preview" /\ tokenData # NoData
      BY <2>3, SubmitEffects
    <3>2. FoundNow(tokenData) /\ tokenData \in Datas
      BY <3>1 DEF PreviewFits, TokenTypes
    <3>3. tokenData.token \in tokenFiles[wallet]
      BY <3>1, <3>2, MissingFacts DEF CustomMissing, FoundNow, RegistriesFit, WriteFits
    <3>4. coinsFile.state = "whole" /\ coinsFile.tokens[tokenData.token] = 1
      BY <3>1, <3>2, KnownIsKept
    <3> QED BY <3>1, <3>3, <3>4 DEF diskVars
  <2>4. CASE WriteCustom
    <3>1. /\ tokenWrite.op = "add" /\ tokenWrite.pc = "custom" /\ wallet \in TokenWallets
          /\ tokenWrite'.data = tokenWrite.data /\ coinsFile' = coinsFile
          /\ tokenFiles'[wallet] = tokenFiles[wallet] \cup {tokenWrite.data.token}
          /\ ~CoinsToWrite
      BY <2>4, WriteCustomEffects
    <3>2. FoundNow(tokenWrite.data) /\ wallet # NoToken /\ tokenWrite.data \in Datas
          /\ ~RawMissing(tokenWrite.data)
      BY <3>1 DEF WriteFits, CoinsToWrite, TokenTypes, Writes
    <3>3. coinsFile.state = "whole" /\ coinsFile.tokens[tokenWrite.data.token] = 1
      BY <3>1, <3>2, KnownIsKept
    <3> QED BY <3>1, <3>3
  <2>5. CASE FillCoins
    <3>1. /\ tokenWrite.op = "add" /\ tokenWrite.pc = "fill coins"
          /\ tokenWrite'.data = tokenWrite.data /\ tokenFiles' = tokenFiles
          /\ coinsFile'.state = "whole" /\ coinsFile'.tokens[tokenWrite.data.token] = 1
      BY <2>5, FillCoinsEffects
    <3> QED BY <3>1 DEF WriteFits
  <2> QED BY <2>2, <2>3, <2>4, <2>5
<1> QED BY <1>1, TokensInvHolds, PTL DEF SubmitRepairs

-----------------------------------------------------------------------------
(* The numbers of the pair: types, and what the form's operators make.     *)

Entries == [volume : Nat, trades : Nat]
Sheets == [mode : {"Sell", "Buy"}, view : {"Pro", "Simple"}, price : Nat, cex : Nat,
           trades : Int, volume : Int]
Labels == [cex : Nat, diff : Int \X Int, trades : Int, volume : Int]
Pairs == TradedCoins \X TradedCoins

StatTypes ==
  /\ stats \in 0..Len(Answers)
  /\ statCalls \in [StatSlots -> [stage : {"idle", "asked", "answered", "sleeping"}, at : 0..Len(Answers)]]
  /\ world \in [answer : 1..Len(Answers), rates : 1..Len(Rates), events : Nat]
  /\ pair \in Pairs /\ sheet \in Sheets /\ label \in Labels
  /\ reading \in [on : BOOLEAN, trades : Int]
  /\ known \in [answers : SUBSET (0..Len(Answers)), rates : SUBSET (1..Len(Rates))]

\* The answer and the rates in force are among those since the pair was chosen.
KnownFits == pairChosen => stats \in known.answers /\ world.rates \in known.rates

\* The numbers of the form are those shown, unless the form was cleared since.
SheetFits ==
  /\ sheet.cex = label.cex
  /\ sheet.volume # Cleared => label.volume = sheet.volume /\ label.trades = sheet.trades

\* Between its two reads the page has the trades of an answer for the pair it has.
ReadingFits == reading.on => \E n \in known.answers : reading.trades = Reading(n, pair).trades

StatsInv ==
  /\ StatTypes /\ KnownFits /\ SheetFits /\ ReadingFits
  /\ NumbersAreOfThePair /\ RateIsOfThePair /\ DifferenceIsOfTheForm

LEMMA ReadingFacts ==
  ASSUME NEW n \in 0..Len(Answers), NEW p
  PROVE  /\ Reading(n, p) \in Entries
         /\ p = pair => Reading(n, p) \in OfTheTwo(n)
<1> DEFINE a == MainTicker(p[1])
           b == MainTicker(p[2])
<1>1. None \in Entries
  BY DEF None, Entries
<1>2. CASE n = 0 \/ a = b
  <2>1. Reading(n, p) = None
    BY <1>2 DEF Reading
  <2> QED BY <1>1, <1>2, <2>1 DEF OfTheTwo
<1>3. CASE n # 0 /\ a # b
  <2>1. n \in 1..Len(Answers)
    BY <1>3, PairStatsAssumption
  <2>2. Reading(n, p) = (IF <<a, b>> \in DOMAIN Answers[n] THEN Answers[n][<<a, b>>]
                         ELSE IF <<b, a>> \in DOMAIN Answers[n] THEN Answers[n][<<b, a>>] ELSE None)
    BY <1>3 DEF Reading
  <2> DEFINE keys == {<<a, b>>, <<b, a>>} \cap DOMAIN Answers[n]
  <2>3. p = pair => OfTheTwo(n) = IF keys = {} THEN {None} ELSE {Answers[n][key] : key \in keys}
    BY <1>3, Zenon DEF OfTheTwo
  <2>4. CASE <<a, b>> \in DOMAIN Answers[n]
    <3>1. Reading(n, p) = Answers[n][<<a, b>>] /\ <<a, b>> \in keys
      BY <2>2, <2>4
    <3>2. Answers[n][<<a, b>>] \in Entries
      BY <2>1, <2>4, PairStatsAssumption DEF Entries
    <3>3. p = pair => OfTheTwo(n) = {Answers[n][key] : key \in keys}
      BY <2>3, <3>1
    <3> HIDE DEF keys
    <3>4. p = pair => Reading(n, p) \in OfTheTwo(n)
      BY <3>1, <3>3
    <3> QED BY <3>1, <3>2, <3>4
  <2>5. CASE <<a, b>> \notin DOMAIN Answers[n] /\ <<b, a>> \in DOMAIN Answers[n]
    <3>1. Reading(n, p) = Answers[n][<<b, a>>] /\ <<b, a>> \in keys
      BY <2>2, <2>5
    <3>2. Answers[n][<<b, a>>] \in Entries
      BY <2>1, <2>5, PairStatsAssumption DEF Entries
    <3>3. p = pair => OfTheTwo(n) = {Answers[n][key] : key \in keys}
      BY <2>3, <3>1
    <3> HIDE DEF keys
    <3>4. p = pair => Reading(n, p) \in OfTheTwo(n)
      BY <3>1, <3>3
    <3> QED BY <3>1, <3>2, <3>4
  <2>6. CASE <<a, b>> \notin DOMAIN Answers[n] /\ <<b, a>> \notin DOMAIN Answers[n]
    <3>1. Reading(n, p) = None /\ keys = {}
      BY <2>2, <2>6
    <3> QED BY <1>1, <2>3, <3>1
  <2> QED BY <2>4, <2>5, <2>6
<1> QED BY <1>2, <1>3

LEMMA CexRateType ==
  ASSUME StatTypes, NEW p \in Pairs
  PROVE  CexRate(p, Rates[world.rates]) \in Nat
<1>1. PICK rates \in [TradedCoins -> Nat] : rates = Rates[world.rates]
  <2>1. world.rates \in 1..Len(Rates) /\ Rates \in Seq([TradedCoins -> Nat])
    BY PairStatsAssumption DEF StatTypes
  <2> QED BY <2>1, ElementOfSeq
<1>2. PICK x \in Nat, y \in Nat : x = rates[p[1]] /\ y = rates[p[2]]
  BY DEF Pairs
<1>3. y # 0 => (2 * x) \div y \in Nat
  OBVIOUS
<1>4. CexRate(p, rates) = IF x = 0 \/ y = 0 THEN 0 ELSE (2 * x) \div y
  BY <1>2 DEF CexRate
<1>5. CexRate(p, rates) \in Nat
  BY <1>3, <1>4
<1> QED BY <1>1, <1>5

LEMMA CexPriceDiffType == ASSUME NEW f \in Sheets PROVE CexPriceDiff(f) \in Int \X Int
BY DEF CexPriceDiff, Sheets

\* What every operator of the form leaves alone: the labels of volume and trades, and
\* the mode and the view.
Untouched(st, r) ==
  /\ r.l.volume = st.l.volume /\ r.l.trades = st.l.trades
  /\ r.f.view = st.f.view
States == [f : Sheets, l : Labels]
\* What every reading of the rates leaves: the rate in force, and the difference.
Rated(r, p) ==
  /\ r.f.cex = CexRate(p, Rates[world.rates]) /\ r.l.cex = r.f.cex
  /\ r.l.diff = CexPriceDiff(r.f)

LEMMA DetermineCexRatesFacts ==
  ASSUME StatTypes, NEW st \in States, NEW p \in Pairs
  PROVE  LET r == DetermineCexRates(st, p) IN
         /\ r \in States /\ Rated(r, p) /\ Untouched(st, r) /\ r.f.mode = st.f.mode
         /\ r.f.volume = st.f.volume /\ r.f.trades = st.f.trades /\ r.f.price = st.f.price
<1>1. PICK rate \in Nat : rate = CexRate(p, Rates[world.rates])
  BY CexRateType
<1> DEFINE f == [st.f EXCEPT !.cex = rate]
           diff == CexPriceDiff(f)
           l == [st.l EXCEPT !.cex = f.cex, !.diff = diff]
<1>2. st.f \in Sheets /\ st.l \in Labels
  BY DEF States
<1>3. /\ f \in Sheets
      /\ f.cex = rate /\ f.mode = st.f.mode /\ f.view = st.f.view
      /\ f.volume = st.f.volume /\ f.trades = st.f.trades /\ f.price = st.f.price
  BY <1>2 DEF Sheets
<1>4. diff \in Int \X Int
  BY <1>3, CexPriceDiffType
<1>5. DetermineCexRates(st, p) = [f |-> f, l |-> l]
  BY <1>1 DEF DetermineCexRates
<1> HIDE DEF f
<1>6. f.cex \in Nat
  BY <1>3
<1> HIDE DEF diff
<1>7. l \in Labels /\ l.cex = f.cex /\ l.diff = diff /\ l.volume = st.l.volume /\ l.trades = st.l.trades
  BY <1>2, <1>4, <1>6 DEF Labels
<1> HIDE DEF l
<1>8. [f |-> f, l |-> l] \in States /\ [f |-> f, l |-> l].f = f /\ [f |-> f, l |-> l].l = l
  BY <1>3, <1>7 DEF States
<1> QED BY <1>1, <1>3, <1>5, <1>7, <1>8 DEF Rated, Untouched, diff

\* What the form and the labels may become while the pair stays: the volume and the
\* trades that are shown stay, and the form has them or is cleared.
Shaped(st) ==
  /\ st \in States
  /\ st.l.volume = label.volume /\ st.l.trades = label.trades
  /\ st.f.volume = Cleared \/ (st.f.volume = sheet.volume /\ st.f.trades = sheet.trades)

Agrees(st) ==
  /\ Shaped(st) /\ st.f.cex = st.l.cex /\ st.l.diff = CexPriceDiff(st.f)
  /\ st.l.cex \in {label.cex, CexRate(pair, Rates[world.rates])}

LEMMA StAgrees == ASSUME StatsInv PROVE Agrees(St)
<1>1. St.f = sheet /\ St.l = label /\ St \in States
  BY DEF St, StatsInv, StatTypes, States
<1> QED BY <1>1 DEF Agrees, Shaped, StatsInv, SheetFits, DifferenceIsOfTheForm

LEMMA RatesRead ==
  ASSUME StatTypes, NEW st, Shaped(st), NEW p \in Pairs
  PROVE  LET r == DetermineCexRates(st, p) IN
         Shaped(r) /\ Rated(r, p) /\ r.f.mode = st.f.mode /\ r.f.view = st.f.view
BY DetermineCexRatesFacts DEF Shaped, Untouched

\* The form with other values in its boxes has the shape, with the labels it had.
LEMMA FormEdited ==
  ASSUME NEW st, Shaped(st), NEW f \in Sheets,
         f.volume = Cleared \/ (f.volume = st.f.volume /\ f.trades = st.f.trades)
  PROVE  Shaped([st EXCEPT !.f = f]) /\ [st EXCEPT !.f = f].f = f /\ [st EXCEPT !.f = f].l = st.l
<1> DEFINE r == [st EXCEPT !.f = f]
<1>1. r \in States /\ r.f = f /\ r.l = st.l
  BY DEF Shaped, States
<1> HIDE DEF r
<1>2. Shaped(r)
  BY <1>1 DEF Shaped
<1> QED BY <1>1, <1>2 DEF r

LEMMA SetFormPriceFacts ==
  ASSUME StatTypes, NEW st, Shaped(st), NEW price \in Nat, NEW p \in Pairs
  PROVE  LET r == SetFormPrice(st, price, p) IN
         Shaped(r) /\ (r = st \/ Rated(r, p)) /\ r.f.mode = st.f.mode /\ r.f.view = st.f.view
<1> DEFINE f == [st.f EXCEPT !.price = price]
           e == [st EXCEPT !.f = f]
<1>1. st.f \in Sheets
  BY DEF Shaped, States
<1>2. f \in Sheets /\ f.volume = st.f.volume /\ f.trades = st.f.trades
      /\ f.mode = st.f.mode /\ f.view = st.f.view
  BY <1>1 DEF Sheets
<1>3. [st EXCEPT !.f.price = price] = e
  OBVIOUS
<1> HIDE DEF f
<1>4. Shaped(e) /\ e.f = f /\ e.l = st.l
  BY <1>2, FormEdited
<1> HIDE DEF e
<1>5. SetFormPrice(st, price, p) = IF st.f.price = price THEN st ELSE DetermineCexRates(e, p)
  BY <1>3 DEF SetFormPrice
<1> QED BY <1>2, <1>4, <1>5, RatesRead

LEMMA ClearNumbersFacts ==
  ASSUME StatTypes, NEW st, Shaped(st), NEW p \in Pairs
  PROVE  LET r == ClearNumbers(st, p) IN
         Shaped(r) /\ Rated(r, p) /\ r.f.mode = st.f.mode /\ r.f.view = st.f.view
<1> DEFINE priced == SetFormPrice(st, 0, p)
           f == [priced.f EXCEPT !.cex = 0, !.trades = Cleared, !.volume = Cleared]
           e == [priced EXCEPT !.f = f]
<1>1. Shaped(priced) /\ priced.f.mode = st.f.mode /\ priced.f.view = st.f.view
  BY SetFormPriceFacts
<1>2. ClearNumbers(st, p) = DetermineCexRates(e, p)
  BY DEF ClearNumbers
<1> HIDE DEF priced
<1>3. priced.f \in Sheets /\ Cleared \in Int
  BY <1>1 DEF Shaped, States, Cleared
<1>4. f \in Sheets /\ f.volume = Cleared /\ f.mode = priced.f.mode /\ f.view = priced.f.view
  BY <1>3 DEF Sheets
<1> HIDE DEF f
<1>5. Shaped(e) /\ e.f = f
  BY <1>1, <1>4, FormEdited
<1> HIDE DEF e
<1> QED BY <1>1, <1>2, <1>4, <1>5, RatesRead

LEMMA ModeSetFacts ==
  ASSUME StatTypes, NEW st, Agrees(st), NEW mode \in {"Sell", "Buy"}
  PROVE  Agrees(ModeSet(st, mode))
<1> DEFINE f == [st.f EXCEPT !.mode = mode]
           e == [st EXCEPT !.f = f]
<1>1. Shaped(st) /\ st.f \in Sheets /\ pair \in Pairs
  BY DEF Agrees, Shaped, States, StatTypes
<1>2. f \in Sheets /\ f.volume = st.f.volume /\ f.trades = st.f.trades
  BY <1>1 DEF Sheets
<1>3. ModeSet(st, mode) = IF st.f.mode = mode THEN st ELSE ClearNumbers(e, pair)
  BY DEF ModeSet
<1> HIDE DEF f
<1>4. Shaped(e)
  BY <1>1, <1>2, FormEdited
<1> HIDE DEF e
<1>5. Shaped(ClearNumbers(e, pair)) /\ Rated(ClearNumbers(e, pair), pair)
  BY <1>1, <1>4, ClearNumbersFacts
<1> QED BY <1>3, <1>5 DEF Agrees, Rated

-----------------------------------------------------------------------------
(* Every step keeps the invariant.                                         *)

LEMMA FormChangesKeeps ==
  ASSUME StatsInv, NEW st, Agrees(st), FormChanges(st)
  PROVE  StatsInv'
<1> USE DEF StatsInv
<1>1. /\ sheet' = st.f /\ label' = st.l /\ ~reading.on /\ ~reading'.on
      /\ UNCHANGED <<stats, statCalls, world, pair, reading, known, pairChosen, astray>>
  BY DEF FormChanges, Show
<1>2. /\ sheet' \in Sheets /\ label' \in Labels /\ sheet'.cex = label'.cex
      /\ label'.diff = CexPriceDiff(sheet')
      /\ label'.volume = label.volume /\ label'.trades = label.trades
      /\ sheet'.volume = Cleared \/ (sheet'.volume = sheet.volume /\ sheet'.trades = sheet.trades)
      /\ label'.cex \in {label.cex, CexRate(pair, Rates[world.rates])}
  BY <1>1 DEF Agrees, Shaped, States
<1>3. StatTypes' /\ KnownFits' /\ ReadingFits'
  BY <1>1, <1>2 DEF StatTypes, KnownFits, ReadingFits
<1>4. SheetFits' /\ DifferenceIsOfTheForm'
  BY <1>2 DEF SheetFits, DifferenceIsOfTheForm
<1>5. NumbersAreOfThePair'
  BY <1>1, <1>2 DEF NumbersAreOfThePair, OfTheTwo
<1>6. RateIsOfThePair'
  BY <1>1, <1>2 DEF RateIsOfThePair, KnownFits
<1> QED BY <1>3, <1>4, <1>5, <1>6

LEMMA TypeFormPriceKeeps ==
  ASSUME StatsInv, NEW price \in Prices, TypeFormPrice(price)
  PROVE  StatsInv'
<1>1. price \in Nat /\ StatTypes /\ pair \in Pairs /\ Agrees(St) /\ Shaped(St)
  BY PairStatsAssumption, StAgrees DEF StatsInv, StatTypes, Agrees
<1>2. Agrees(SetFormPrice(St, price, pair))
  BY <1>1, SetFormPriceFacts DEF Agrees, Rated
<1> QED BY <1>2, FormChangesKeeps DEF TypeFormPrice

LEMMA ClearedAgrees == ASSUME StatsInv PROVE Agrees(ClearNumbers(St, pair))
<1>1. StatTypes /\ pair \in Pairs /\ Shaped(St)
  BY StAgrees DEF StatsInv, StatTypes, Agrees
<1> QED BY <1>1, ClearNumbersFacts DEF Agrees, Rated

LEMMA ClearFormKeeps == ASSUME StatsInv, ClearForm PROVE StatsInv'
BY ClearedAgrees, FormChangesKeeps DEF ClearForm

LEMMA ChooseModeKeeps ==
  ASSUME StatsInv, NEW mode \in {"Sell", "Buy"}, ChooseMode(mode)
  PROVE  StatsInv'
<1>1. Agrees(ModeSet(St, mode))
  BY StAgrees, ModeSetFacts DEF StatsInv
<1> QED BY <1>1, FormChangesKeeps DEF ChooseMode

LEMMA ChooseTradingViewKeeps ==
  ASSUME StatsInv, NEW view \in {"Pro", "Simple"}, ChooseTradingView(view)
  PROVE  StatsInv'
<1> DEFINE st == ModeSet(ClearNumbers(St, pair), "Sell")
           f == [st.f EXCEPT !.view = view]
           e == [st EXCEPT !.f = f]
<1>1. Agrees(st)
  BY ClearedAgrees, ModeSetFacts DEF StatsInv
<1>2. FormChanges(e)
  BY DEF ChooseTradingView
<1> HIDE DEF st
<1>3. st.f \in Sheets
  BY <1>1 DEF Agrees, Shaped, States
<1>4. /\ f \in Sheets /\ f.volume = st.f.volume /\ f.trades = st.f.trades /\ f.cex = st.f.cex
      /\ CexPriceDiff(f) = CexPriceDiff(st.f)
  BY <1>3 DEF Sheets, CexPriceDiff
<1> HIDE DEF f
<1>5. Shaped(e) /\ e.f = f /\ e.l = st.l
  BY <1>1, <1>4, FormEdited DEF Agrees
<1> HIDE DEF e
<1>6. Agrees(e)
  BY <1>1, <1>4, <1>5 DEF Agrees
<1> QED BY <1>2, <1>6, FormChangesKeeps

LEMMA ChoosePairKeeps ==
  ASSUME StatsInv, NEW is_left \in BOOLEAN, NEW coin \in TradedCoins, ChoosePair(is_left, coin)
  PROVE  StatsInv'
<1> USE DEF StatsInv
<1>1. PICK p : p = PairAsked(is_left, coin)
  OBVIOUS
<1>2. p \in Pairs
  BY <1>1 DEF PairAsked, StatTypes, Pairs
<1>3. PICK st : st = PairTaken(St, p)
  OBVIOUS
<1>4. Shaped(st)
  BY <1>2, <1>3, StAgrees, ClearNumbersFacts DEF PairTaken, Agrees
<1>5. PICK r : r = DetermineCexRates(st, p)
  OBVIOUS
<1>6. Shaped(r) /\ Rated(r, p)
  BY <1>2, <1>4, <1>5, RatesRead
<1>7. /\ pair' = p /\ sheet' = r.f /\ label' = r.l
      /\ reading' = [on |-> TRUE, trades |-> Reading(stats, p).trades]
      /\ known' = [answers |-> {stats}, rates |-> {world.rates}]
      /\ pairChosen' = TRUE /\ UNCHANGED <<stats, statCalls, world>>
  BY <1>1, <1>3, <1>5 DEF ChoosePair, Show
<1>8. Reading(stats, p).trades \in Int
  BY ReadingFacts DEF StatTypes, Entries
<1>9. sheet' \in Sheets /\ label' \in Labels
  BY <1>6, <1>7 DEF Shaped, States
<1>10. StatTypes'
  BY <1>2, <1>7, <1>8, <1>9 DEF StatTypes
<1>11. KnownFits' /\ ReadingFits'
  BY <1>7 DEF KnownFits, ReadingFits, Reading
<1>12. SheetFits' /\ DifferenceIsOfTheForm'
  BY <1>6, <1>7 DEF SheetFits, DifferenceIsOfTheForm, Shaped, Rated
<1>13. NumbersAreOfThePair'
  BY <1>7 DEF NumbersAreOfThePair
<1>14. RateIsOfThePair'
  BY <1>6, <1>7 DEF RateIsOfThePair, Rated
<1> QED BY <1>10, <1>11, <1>12, <1>13, <1>14

LEMMA ReadVolumeKeeps == ASSUME StatsInv, ReadVolume PROVE StatsInv'
<1> USE DEF StatsInv
<1>1. PICK entry \in Entries : entry = Reading(stats, pair) /\ entry \in OfTheTwo(stats)
  BY ReadingFacts DEF StatTypes
<1>2. PICK r : r = NumbersRead(St, reading.trades, entry.volume)
  OBVIOUS
<1>3. /\ sheet' = r.f /\ label' = r.l /\ reading.on /\ reading' = NotReading
      /\ astray' = IF entry.volume = sheet.volume /\ reading.trades # sheet.trades
                   THEN astray \cup {"same_volume"} ELSE astray
      /\ UNCHANGED <<stats, statCalls, world, pair, known, pairChosen>>
  BY <1>1, <1>2 DEF ReadVolume, Show
<1>4. entry.volume \in Nat /\ entry.volume # Cleared /\ reading.trades \in Int
  <2>1. \A n \in Nat : n # -1
    OBVIOUS
  <2> QED BY <1>1, <2>1 DEF Entries, Cleared, StatTypes
<1>5. /\ sheet' \in Sheets /\ label' \in Labels
      /\ sheet'.cex = sheet.cex /\ label'.cex = label.cex /\ label'.diff = label.diff
      /\ sheet'.price = sheet.price /\ sheet'.mode = sheet.mode
      /\ label'.volume = entry.volume /\ sheet'.volume = entry.volume
      /\ label'.trades = sheet'.trades
      /\ sheet'.trades = reading.trades \/ (entry.volume = sheet.volume /\ sheet'.trades = sheet.trades)
  <2>1. St.f = sheet /\ St.l = label /\ sheet \in Sheets /\ label \in Labels
    BY DEF St, StatTypes
  <2>2. CASE entry.volume = sheet.volume
    <3>1. r = St
      BY <1>2, <2>1, <2>2 DEF NumbersRead
    <3> QED BY <1>3, <1>4, <2>1, <2>2, <3>1 DEF SheetFits
  <2>3. CASE entry.volume # sheet.volume
    <3>1. /\ r.f = [sheet EXCEPT !.trades = reading.trades, !.volume = entry.volume]
          /\ r.l = [label EXCEPT !.trades = reading.trades, !.volume = entry.volume]
      BY <1>2, <2>1, <2>3 DEF NumbersRead
    <3>2. reading.trades \in Int /\ entry.volume \in Int
      BY <1>4
    <3>3. /\ r.f \in Sheets /\ r.f.cex = sheet.cex /\ r.f.price = sheet.price /\ r.f.mode = sheet.mode
          /\ r.f.volume = entry.volume /\ r.f.trades = reading.trades
      BY <2>1, <3>1, <3>2 DEF Sheets
    <3>4. /\ r.l \in Labels /\ r.l.cex = label.cex /\ r.l.diff = label.diff
          /\ r.l.volume = entry.volume /\ r.l.trades = reading.trades
      BY <2>1, <3>1, <3>2 DEF Labels
    <3> QED BY <1>3, <3>3, <3>4
  <2> QED BY <2>2, <2>3
<1>6. StatTypes'
  BY <1>3, <1>5 DEF StatTypes, NotReading
<1>7. KnownFits' /\ ReadingFits' /\ SheetFits'
  BY <1>3, <1>5 DEF KnownFits, ReadingFits, SheetFits, NotReading
<1>8. DifferenceIsOfTheForm'
  BY <1>5 DEF DifferenceIsOfTheForm, CexPriceDiff
<1>9. "coin_left" \notin astray' => "coin_left" \notin astray
  BY <1>3
<1>10. RateIsOfThePair'
  BY <1>3, <1>5, <1>9 DEF RateIsOfThePair
<1>11. NumbersAreOfThePair'
  <2> SUFFICES ASSUME pairChosen'
               PROVE  /\ \E n \in known'.answers : \E e \in OfTheTwo(n)' : label'.volume = e.volume
                      /\ "same_volume" \notin astray' =>
                           \E n \in known'.answers : \E e \in OfTheTwo(n)' : label'.trades = e.trades
    BY Zenon DEF NumbersAreOfThePair
  <2>1. stats \in known.answers /\ \A n : OfTheTwo(n)' = OfTheTwo(n)
    <3>1. pairChosen
      BY <1>3
    <3> QED BY <1>3, <3>1 DEF KnownFits, OfTheTwo
  <2>2. \E n \in known'.answers : \E e \in OfTheTwo(n)' : label'.volume = e.volume
    BY <1>1, <1>3, <1>5, <2>1
  <2>3. PICK n \in known.answers : reading.trades = Reading(n, pair).trades
    BY <1>3 DEF ReadingFits
  <2>4. Reading(n, pair) \in OfTheTwo(n)
    BY ReadingFacts DEF StatTypes
  <2>5. "same_volume" \notin astray' => label'.trades = reading.trades
    BY <1>3, <1>5
  <2>6. "same_volume" \notin astray' =>
          \E m \in known'.answers : \E e \in OfTheTwo(m)' : label'.trades = e.trades
    BY <1>3, <2>1, <2>3, <2>4, <2>5
  <2> QED BY <2>2, <2>6
<1> QED BY <1>6, <1>7, <1>8, <1>10, <1>11

LEMMA CoinLeavesKeeps ==
  ASSUME StatsInv, NEW coin \in TradedCoins, CoinLeaves(coin)
  PROVE  StatsInv'
<1> USE DEF StatsInv
<1>1. StatTypes'
  BY PairStatsAssumption DEF CoinLeaves, StatTypes, Pairs
<1>2. KnownFits' /\ SheetFits' /\ ReadingFits' /\ DifferenceIsOfTheForm'
  BY DEF CoinLeaves, KnownFits, SheetFits, ReadingFits, DifferenceIsOfTheForm
<1>3. "coin_left" \in astray'
  BY DEF CoinLeaves
<1> QED BY <1>1, <1>2, <1>3 DEF NumbersAreOfThePair, RateIsOfThePair

\* The service and the world add to what is known, and leave the form alone.
LEMMA ServiceKeeps ==
  ASSUME StatsInv, ServiceStep, StatTypes', KnownFits',
         known.answers \subseteq known'.answers, known.rates \subseteq known'.rates
  PROVE  StatsInv'
<1> USE DEF StatsInv, ServiceStep
<1>1. SheetFits' /\ DifferenceIsOfTheForm'
  BY DEF SheetFits, DifferenceIsOfTheForm
<1>2. ReadingFits'
  BY DEF ReadingFits, Reading
<1>3. NumbersAreOfThePair'
  BY DEF NumbersAreOfThePair, OfTheTwo
<1>4. RateIsOfThePair'
  BY DEF RateIsOfThePair
<1> QED BY <1>1, <1>2, <1>3, <1>4

LEMMA StatCallsKeep ==
  ASSUME StatsInv, NEW q \in StatSlots,
         AskStats(q) \/ StatsAnswer(q) \/ StatsRefused(q) \/ StatsLost(q) \/ AskStatsAgain(q) \/ StatsStored(q)
  PROVE  StatsInv'
<1> USE DEF StatsInv
<1> DEFINE Places == 0..Len(Answers)
           Calls == [stage : {"idle", "asked", "answered", "sleeping"}, at : Places]
<1>1. world \in [answer : 1..Len(Answers), rates : 1..Len(Rates), events : Nat]
      /\ statCalls \in [StatSlots -> Calls] /\ statCalls[q] \in Calls /\ world.answer \in Places /\ 0 \in Places
  BY PairStatsAssumption DEF StatTypes
<1>2. ServiceStep
  BY DEF AskStats, StatsAnswer, StatsRefused, StatsLost, AskStatsAgain, StatsStored
<1>3. Asked \in Calls /\ Idle \in Calls /\ [stage |-> "sleeping", at |-> 0] \in Calls
      /\ \A n \in Places : [stage |-> "answered", at |-> n] \in Calls
  BY <1>1 DEF Asked, Idle
<1>4. statCalls' \in [StatSlots -> Calls]
  <2>1. PICK c \in Calls : statCalls' = [statCalls EXCEPT ![q] = c]
    BY <1>1, <1>3 DEF AskStats, StatsAnswer, StatsRefused, StatsLost, AskStatsAgain, StatsStored
  <2> QED BY <1>1, <2>1
<1>5. world' \in [answer : 1..Len(Answers), rates : 1..Len(Rates), events : Nat] /\ world'.rates = world.rates
  <2>1. CASE world' = world
    BY <1>1, <2>1
  <2>2. CASE Happens
    <3>1. world.events + 1 \in Nat
      BY <1>1
    <3> QED BY <1>1, <2>2, <3>1 DEF Happens
  <2> QED BY <2>1, <2>2 DEF AskStats, StatsAnswer, StatsRefused, StatsLost, AskStatsAgain, StatsStored
<1>6. CASE StatsStored(q)
  <2>1. stats' = statCalls[q].at /\ known' = [known EXCEPT !.answers = @ \cup {stats'}]
        /\ world' = world
    BY <1>6 DEF StatsStored
  <2>2. stats' \in Places /\ known \in [answers : SUBSET Places, rates : SUBSET (1..Len(Rates))]
    BY <1>1, <2>1 DEF StatTypes
  <2>3. /\ known' \in [answers : SUBSET Places, rates : SUBSET (1..Len(Rates))]
        /\ known'.answers = known.answers \cup {stats'} /\ known'.rates = known.rates
    BY <2>1, <2>2
  <2>4. StatTypes'
    BY <1>2, <1>4, <1>5, <2>2, <2>3 DEF StatTypes, ServiceStep
  <2>5. KnownFits'
    BY <1>2, <2>1, <2>3 DEF KnownFits, ServiceStep
  <2> QED BY <1>2, <2>3, <2>4, <2>5, ServiceKeeps
<1>7. CASE UNCHANGED <<stats, known>>
  <2>1. StatTypes' /\ KnownFits'
    BY <1>2, <1>4, <1>5, <1>7 DEF StatTypes, KnownFits, ServiceStep
  <2> QED BY <1>2, <1>7, <2>1, ServiceKeeps
<1> QED BY <1>6, <1>7 DEF AskStats, StatsAnswer, StatsRefused, StatsLost, AskStatsAgain

LEMMA WorldKeeps == ASSUME StatsInv, MarketTrades \/ RatesMove PROVE StatsInv'
<1> USE DEF StatsInv
<1>1. /\ world \in [answer : 1..Len(Answers), rates : 1..Len(Rates), events : Nat]
      /\ known \in [answers : SUBSET (0..Len(Answers)), rates : SUBSET (1..Len(Rates))]
      /\ Len(Answers) \in Nat /\ Len(Rates) \in Nat
  BY PairStatsAssumption, LenProperties DEF StatTypes
<1>2. world.events + 1 \in Nat
  BY <1>1
<1>3. CASE MarketTrades
  <2>1. world.answer + 1 \in 1..Len(Answers)
    BY <1>1, <1>3 DEF MarketTrades
  <2>2. world' = [world EXCEPT !.answer = world.answer + 1, !.events = world.events + 1]
        /\ UNCHANGED <<stats, statCalls, known>> /\ ServiceStep
    BY <1>3 DEF MarketTrades
  <2>3. world' \in [answer : 1..Len(Answers), rates : 1..Len(Rates), events : Nat] /\ world'.rates = world.rates
    BY <1>1, <1>2, <2>1, <2>2
  <2>4. StatTypes' /\ KnownFits'
    BY <2>2, <2>3 DEF StatTypes, KnownFits, ServiceStep
  <2> QED BY <2>2, <2>4, ServiceKeeps
<1>4. CASE RatesMove
  <2>1. world.rates + 1 \in 1..Len(Rates)
    BY <1>1, <1>4 DEF RatesMove
  <2>2. world' = [world EXCEPT !.rates = world.rates + 1, !.events = world.events + 1]
        /\ known' = [known EXCEPT !.rates = @ \cup {world'.rates}]
        /\ UNCHANGED <<stats, statCalls>> /\ ServiceStep
    BY <1>4 DEF RatesMove
  <2>3. world' \in [answer : 1..Len(Answers), rates : 1..Len(Rates), events : Nat]
    BY <1>1, <1>2, <2>1, <2>2
  <2>4. /\ known' \in [answers : SUBSET (0..Len(Answers)), rates : SUBSET (1..Len(Rates))]
        /\ known'.rates = known.rates \cup {world'.rates} /\ known'.answers = known.answers
    BY <1>1, <2>2, <2>3
  <2>5. StatTypes' /\ KnownFits'
    BY <2>2, <2>3, <2>4 DEF StatTypes, KnownFits, ServiceStep
  <2> QED BY <2>2, <2>4, <2>5, ServiceKeeps
<1> QED BY <1>3, <1>4

LEMMA StatsInitially == StatsInit => StatsInv
<1> SUFFICES ASSUME StatsInit PROVE StatsInv
  OBVIOUS
<1> DEFINE Calls == [stage : {"idle", "asked", "answered", "sleeping"}, at : 0..Len(Answers)]
<1>1. 1 \in 1..Len(Answers) /\ 1 \in 1..Len(Rates) /\ 0 \in 0..Len(Answers)
  <2>1. Len(Rates) \in Nat \ {0} /\ Len(Answers) \in Nat \ {0}
    BY PairStatsAssumption, EmptySeq
  <2> QED BY <2>1
<1>2. Asked \in Calls /\ Idle \in Calls
  BY <1>1 DEF Asked, Idle
<1>3. sheet \in Sheets /\ label \in Labels
  BY DEF StatsInit, Sheets, Labels, Cleared
<1>4. statCalls \in [StatSlots -> Calls]
  BY <1>2 DEF StatsInit
<1>5. StatTypes
  BY <1>1, <1>3, <1>4, PairStatsAssumption DEF StatsInit, StatTypes, Pairs, NotReading
<1>6. KnownFits /\ SheetFits /\ ReadingFits
  BY DEF StatsInit, KnownFits, SheetFits, ReadingFits, NotReading
<1>7. NumbersAreOfThePair /\ RateIsOfThePair /\ DifferenceIsOfTheForm
  BY DEF StatsInit, NumbersAreOfThePair, RateIsOfThePair, DifferenceIsOfTheForm, CexPriceDiff
<1> QED BY <1>5, <1>6, <1>7 DEF StatsInv

LEMMA StatsInvStep == StatsInv /\ [StatsNext]_statVars => StatsInv'
<1> SUFFICES ASSUME StatsInv, [StatsNext]_statVars PROVE StatsInv'
  OBVIOUS
<1>1. CASE UNCHANGED statVars
  <2>1. ServiceStep /\ StatTypes' /\ KnownFits' /\ known' = known
    BY <1>1 DEF statVars, ServiceStep, StatsInv, StatTypes, KnownFits
  <2> QED BY <2>1, ServiceKeeps
<1>2. CASE StatsNext
  BY <1>2, ChoosePairKeeps, ReadVolumeKeeps, TypeFormPriceKeeps, ClearFormKeeps, ChooseModeKeeps,
     ChooseTradingViewKeeps, CoinLeavesKeeps, StatCallsKeep, WorldKeeps DEF StatsNext
<1> QED BY <1>1, <1>2

\* The volume, the trades, the rate and the difference that the trading page shows are those
\* of its pair and of what is in its form: for any answers and rates, any number of requests
\* and failures, whatever is typed, chosen and cleared in any order.
THEOREM NumbersAreAlwaysOfThePair == StatsSpec => []FormShowsThePair
<1>1. StatsInv => FormShowsThePair
  BY DEF StatsInv, FormShowsThePair
<1> QED BY <1>1, StatsInitially, StatsInvStep, PTL DEF StatsSpec

-----------------------------------------------------------------------------
(* Rewards: the inductive invariant.  A form that may confirm has not been  *)
(* open while the daemon took a broadcast, since the answer to a broadcast  *)
(* turns its page before it may confirm again; so a claim that was asked    *)
(* while it is open is fresh.                                               *)

Txs == [made : Nat, at : {"none", "tx"}]
Forms == [open : BOOLEAN, page : {0, 1}, shown : Txs, busy : BOOLEAN, sendBusy : BOOLEAN]

ClaimTypes ==
  /\ claimData \in Txs /\ claimBusy \in BOOLEAN /\ sendBusy \in BOOLEAN /\ sendData \in BOOLEAN
  /\ claim \in [made : Nat, at : {"idle", "asked", "made", "stored"}]
  /\ sending \in [made : Nat, at : {"idle", "asked", "taken", "stored"}]
  /\ form \in Forms /\ signals \in Seq({"claimData", "claimBusy", "sendData", "sendBusy"})
  /\ late \in Nat /\ taken \in Nat /\ openedBusy \in BOOLEAN

Posted == 1..Len(signals)
Pending(s) == \E i \in Posted : signals[i] = s

BusyFits ==
  /\ claimBusy <=> claim.at # "idle"
  /\ sendBusy <=> sending.at # "idle"
  /\ form.open /\ claim.at # "idle" => form.busy

\* The signals of a broadcast: its result, then its flag, and no others.
SendSignalsFit ==
  /\ sending.at \in {"asked", "taken"} => ~Pending("sendData") /\ ~Pending("sendBusy")
  /\ sending.at = "stored" => ~Pending("sendBusy")
  /\ Pending("sendData") => sendData
  /\ \A i, j \in Posted : signals[i] = "sendData" /\ signals[j] = "sendBusy" => i < j
  /\ \A i, j \in Posted : signals[i] = "sendBusy" /\ signals[j] = "sendBusy" => i = j

\* A form that does not wait for a broadcast knows of all, but for signals that were
\* there when it was opened.
SendsAreHeard ==
  form.open /\ form.page = 0 /\ ~form.sendBusy =>
    /\ sending.at = "idle"
    /\ \A i \in Posted : i > late => signals[i] \notin {"sendData", "sendBusy"}
    /\ ~openedBusy => ~Pending("sendData")

\* The form in front can still confirm without having turned its page.
MayConfirm ==
  form.open /\ form.page = 0 /\ sending.at \notin {"asked", "taken"} /\ ~Pending("sendData")

Fresh(tx) == tx.at = "tx" => tx.made = taken
ClaimFits == (claim.at = "made" => claim.made = taken) /\ (claim.at = "stored" => Fresh(claimData))

\* What comes to a form that was reset is fresh.
ClaimComesFresh ==
  MayConfirm /\ ~openedBusy =>
    ClaimFits /\ (Pending("claimData") => Fresh(claimData)) /\ Fresh(form.shown)

\* So is what still comes when it may ask again.
RefreshIsFresh == MayConfirm /\ ~form.busy /\ Pending("claimData") => Fresh(claimData)

\* A claim that was asked before the flag of the one before it was heard is that of
\* the form in front, which no event of the user has left since.
AskedEarly ==
  \A j \in Posted : signals[j] = "claimBusy" =>
    /\ claim.at # "idle" => j <= late /\ form.open /\ (MayConfirm => ClaimFits)
    /\ \A i \in Posted : i > j /\ signals[i] = "claimData" =>
         j <= late /\ form.open /\ (MayConfirm => Fresh(claimData))

ClaimsInv ==
  /\ ClaimTypes /\ BusyFits /\ SendSignalsFit /\ SendsAreHeard
  /\ ClaimComesFresh /\ RefreshIsFresh /\ AskedEarly

-----------------------------------------------------------------------------
(* Signals that are posted and taken.                                      *)

Signals == {"claimData", "claimBusy", "sendData", "sendBusy"}

LEMMA SignalPosted ==
  ASSUME ClaimTypes, NEW s \in Signals, signals' = Append(signals, s)
  PROVE  LET n == Len(signals) + 1 IN
         /\ signals' \in Seq(Signals) /\ n \in Posted' /\ n \notin Posted /\ n \in Nat
         /\ Posted' = Posted \cup {n} /\ signals'[n] = s
         /\ \A i \in Posted : signals'[i] = signals[i] /\ i < n /\ i \in Nat
         /\ \A t : Pending(t)' <=> Pending(t) \/ t = s
<1> DEFINE n == Len(signals) + 1
<1>1. signals \in Seq(Signals)
  BY DEF ClaimTypes, Signals
<1>2. /\ signals' \in Seq(Signals) /\ Len(signals') = n /\ signals'[n] = s
      /\ \A i \in 1..Len(signals) : signals'[i] = signals[i]
  BY <1>1, AppendProperties
<1>3. Len(signals) \in Nat
  BY <1>1, LenProperties
<1>4. /\ n \in 1..n /\ n \notin 1..Len(signals) /\ n \in Nat /\ 1..n = (1..Len(signals)) \cup {n}
      /\ \A i \in 1..Len(signals) : i < n /\ i \in Nat
  BY <1>3
<1>5. Posted' = 1..n
  BY <1>2 DEF Posted
<1> HIDE DEF n
<1>6. /\ Posted' = Posted \cup {n} /\ n \in Posted' /\ n \notin Posted /\ n \in Nat
      /\ \A i \in Posted : signals'[i] = signals[i] /\ i < n /\ i \in Nat
  BY <1>2, <1>4, <1>5 DEF Posted
<1>7. ASSUME NEW t PROVE Pending(t)' <=> Pending(t) \/ t = s
  BY <1>2, <1>6 DEF Pending
<1> QED BY <1>2, <1>6, <1>7 DEF n

LEMMA SignalTaken ==
  ASSUME ClaimTypes, signals # <<>>, signals' = Tail(signals)
  PROVE  /\ signals' \in Seq(Signals) /\ 1 \in Posted /\ Head(signals) = signals[1] /\ Head(signals) \in Signals
         /\ \A i \in Posted' : i \in Nat /\ i >= 1 /\ i + 1 \in Posted /\ signals'[i] = signals[i + 1]
         /\ \A i \in Posted : i = 1 \/ (i - 1 \in Posted' /\ signals'[i - 1] = signals[i])
         /\ \A t : Pending(t)' => Pending(t)
         /\ \A t : Pending(t) /\ t # Head(signals) => Pending(t)'
<1>1. signals \in Seq(Signals) /\ Signals # {}
  BY DEF ClaimTypes, Signals
<1>2. /\ Head(signals) \in Signals /\ Tail(signals) \in Seq(Signals)
      /\ Len(Tail(signals)) = Len(signals) - 1
      /\ \A i \in 1..Len(Tail(signals)) : Tail(signals)[i] = signals[i + 1]
  BY <1>1, HeadTailProperties
<1>3. Len(signals) \in Nat /\ Len(signals) # 0
  BY <1>1, EmptySeq, LenProperties
<1>4. Head(signals) = signals[1]
  BY <1>1
<1>5. PICK n \in Nat : n = Len(signals) /\ n # 0
  BY <1>3
<1>6. Posted = 1..n /\ Posted' = 1..(n - 1)
  BY <1>2, <1>5 DEF Posted
<1>7. /\ 1 \in 1..n
      /\ \A i \in 1..(n - 1) : i \in Nat /\ i >= 1 /\ i + 1 \in 1..n
      /\ \A i \in 1..n : i = 1 \/ (i - 1 \in 1..(n - 1) /\ (i - 1) + 1 = i)
  BY <1>5
<1>8. \A i \in Posted' : signals'[i] = signals[i + 1]
  BY <1>2 DEF Posted
<1>9. \A i \in Posted : i = 1 \/ (i - 1 \in Posted' /\ signals'[i - 1] = signals[i])
  BY <1>6, <1>7, <1>8
<1>10. \A t : Pending(t)' => Pending(t)
  BY <1>6, <1>7, <1>8 DEF Pending
<1>11. \A t : Pending(t) /\ t # Head(signals) => Pending(t)'
  BY <1>4, <1>9 DEF Pending
<1> QED BY <1>2, <1>4, <1>6, <1>7, <1>8, <1>9, <1>10, <1>11

LEMMA ClaimValues ==
  /\ Nothing \in Txs /\ Nothing.at = "none" /\ \A n \in Nat : Made(n) \in Txs /\ Made(n).made = n
  /\ NoCall.at = "idle" /\ NoCall \in [made : Nat, at : {"idle", "asked", "made", "stored"}]
  /\ NoCall \in [made : Nat, at : {"idle", "asked", "taken", "stored"}]
  /\ Unloaded \in Forms /\ ~Unloaded.open
BY DEF Nothing, Txs, Made, NoCall, Unloaded, Forms

\* An event of the user finds no claim that was asked early, and no broadcast unheard.
LEMMA AtAnAct ==
  ASSUME ClaimsInv, ClaimActs
  PROVE  /\ late' = Len(signals) /\ late' \in Nat /\ \A i \in Posted : ~(i > late')
         /\ Pending("claimBusy") => claim.at = "idle"
         /\ \A i, j \in Posted : signals[j] = "claimBusy" /\ signals[i] = "claimData" => ~(i > j)
         /\ form.open /\ form.page = 0 /\ ~form.sendBusy =>
              sending.at = "idle" /\ ~Pending("sendData") /\ ~Pending("sendBusy")
<1>1. late = 0 /\ late' = Len(signals) /\ Len(signals) \in Nat
  BY LenProperties DEF ClaimActs, ClaimsInv, ClaimTypes
<1>2. \A i \in Posted : i > late /\ ~(i <= late) /\ ~(i > late')
  BY <1>1 DEF Posted
<1> QED BY <1>1, <1>2 DEF ClaimsInv, AskedEarly, SendsAreHeard, Pending

-----------------------------------------------------------------------------
(* Every step keeps the invariant.                                         *)

LEMMA OpenFormKeeps == ASSUME ClaimsInv, OpenForm PROVE ClaimsInv'
<1> USE DEF ClaimsInv
<1>1. ClaimActs /\ ~form.open /\ UNCHANGED <<claimData, sending, sendBusy, sendData, signals, taken>>
  BY DEF OpenForm
<1>2. PICK shown \in {claimData, Nothing} :
        IF claimBusy
        THEN form' = Loaded(shown) /\ openedBusy' = TRUE /\ UNCHANGED <<claim, claimBusy, claims>>
        ELSE AskClaim /\ form' = Prepared(Loaded(shown)) /\ openedBusy' = (signals # <<>>)
  BY DEF OpenForm
<1>3. shown \in Txs /\ Loaded(shown) \in Forms
  BY ClaimValues DEF ClaimTypes, Loaded, Forms
<1>4. /\ form' \in Forms /\ form'.open /\ form'.page = 0 /\ form'.sendBusy = sendBusy /\ form'.busy
      /\ openedBusy' \in BOOLEAN
      /\ ~openedBusy' => signals = <<>> /\ claim'.at = "asked" /\ form'.shown = Nothing
      /\ claim' = claim \/ claim' = [made |-> 0, at |-> "asked"]
      /\ claim'.at # "idle" /\ claimBusy' = TRUE
      /\ Pending("claimBusy") => claim'.at = "asked"
  <2>1. CASE claimBusy
    <3>1. form' = Loaded(shown) /\ openedBusy' = TRUE /\ UNCHANGED <<claim, claimBusy>>
      BY <1>2, <2>1
    <3>2. /\ Loaded(shown).open /\ Loaded(shown).page = 0 /\ Loaded(shown).sendBusy = sendBusy
          /\ Loaded(shown).busy = claimBusy
      BY DEF Loaded
    <3>3. claim.at # "idle" /\ ~Pending("claimBusy") /\ claimBusy = TRUE
      BY <1>1, <2>1, AtAnAct DEF BusyFits, ClaimTypes
    <3> QED BY <1>3, <3>1, <3>2, <3>3
  <2>2. CASE ~claimBusy
    <3>1. form' = Prepared(Loaded(shown)) /\ AskClaim /\ openedBusy' = (signals # <<>>)
      BY <1>2, <2>2
    <3>2. form' = [Loaded(shown) EXCEPT !.page = 0, !.shown = Nothing, !.busy = TRUE]
      BY <3>1 DEF Prepared
    <3>3. Loaded(shown).open /\ Loaded(shown).sendBusy = sendBusy
      BY DEF Loaded
    <3>4. /\ form' \in Forms /\ form'.open /\ form'.page = 0 /\ form'.sendBusy = sendBusy /\ form'.busy
          /\ form'.shown = Nothing
      BY <1>3, <3>2, <3>3, ClaimValues DEF Forms
    <3>5. claim' = [made |-> 0, at |-> "asked"] /\ claimBusy' = TRUE
      BY <3>1 DEF AskClaim
    <3> QED BY <3>1, <3>4, <3>5
  <2> QED BY <2>1, <2>2 DEF ClaimTypes
<1>5. Posted' = Posted /\ (\A t : Pending(t)' <=> Pending(t)) /\ (signals = <<>> => Posted = {})
  BY <1>1, EmptySeq DEF Posted, Pending
<1>6. ClaimTypes'
  BY <1>1, <1>4, AtAnAct DEF ClaimTypes
<1>7. BusyFits' /\ SendSignalsFit'
  BY <1>1, <1>4, <1>5 DEF BusyFits, SendSignalsFit
<1>8. SendsAreHeard'
  BY <1>1, <1>4, <1>5, AtAnAct DEF SendsAreHeard, BusyFits, Pending
<1>9. ClaimComesFresh'
  <2>1. ~openedBusy' => ~Pending("claimData")
    BY <1>4, <1>5 DEF Pending
  <2> QED BY <1>4, <1>5, <2>1, ClaimValues DEF ClaimComesFresh, ClaimFits, Fresh
<1>10. RefreshIsFresh'
  BY <1>4 DEF RefreshIsFresh
<1>11. AskedEarly'
  <2>1. \A j \in Posted : signals[j] = "claimBusy" => j <= late'
    BY <1>1, AtAnAct DEF Posted
  <2>2. Pending("claimBusy") => ClaimFits'
    BY <1>4 DEF ClaimFits
  <2>3. \A i, j \in Posted : signals[j] = "claimBusy" /\ signals[i] = "claimData" => ~(i > j)
    BY <1>1, AtAnAct
  <2> QED BY <1>1, <1>4, <1>5, <2>1, <2>2, <2>3 DEF AskedEarly, Pending
<1> QED BY <1>6, <1>7, <1>8, <1>9, <1>10, <1>11

LEMMA RefreshKeeps == ASSUME ClaimsInv, Refresh PROVE ClaimsInv'
<1> USE DEF ClaimsInv
<1>1. /\ ClaimActs /\ form.open /\ form.page = 0 /\ ~form.busy /\ ~claimBusy
      /\ form' = [form EXCEPT !.page = 0, !.shown = Nothing, !.busy = TRUE] /\ openedBusy' = FALSE
      /\ claim' = [made |-> 0, at |-> "asked"] /\ claimBusy' = TRUE
      /\ UNCHANGED <<claimData, sending, sendBusy, sendData, signals, taken>>
  BY DEF Refresh, AskClaim, Prepared
<1>2. /\ form' \in Forms /\ form'.open /\ form'.page = 0 /\ form'.busy /\ form'.shown = Nothing
      /\ form'.sendBusy = form.sendBusy
  BY <1>1, ClaimValues DEF ClaimTypes, Forms
<1>3. Posted' = Posted /\ \A t : Pending(t)' <=> Pending(t)
  BY <1>1 DEF Posted, Pending
<1>4. ClaimTypes'
  BY <1>1, <1>2, AtAnAct DEF ClaimTypes
<1>5. BusyFits' /\ SendSignalsFit'
  BY <1>1, <1>2, <1>3 DEF BusyFits, SendSignalsFit
<1>6. SendsAreHeard'
  BY <1>1, <1>2, <1>3, AtAnAct DEF SendsAreHeard, Pending
<1>7. MayConfirm' <=> MayConfirm
  BY <1>1, <1>2, <1>3 DEF MayConfirm
<1>8. ClaimComesFresh'
  BY <1>1, <1>2, <1>3, <1>7, ClaimValues DEF ClaimComesFresh, RefreshIsFresh, ClaimFits, Fresh
<1>9. RefreshIsFresh'
  BY <1>2 DEF RefreshIsFresh
<1>10. AskedEarly'
  <2>1. \A j \in Posted : signals[j] = "claimBusy" => j <= late'
    BY <1>1, AtAnAct DEF Posted
  <2>2. ClaimFits'
    BY <1>1 DEF ClaimFits
  <2>3. \A i, j \in Posted : signals[j] = "claimBusy" /\ signals[i] = "claimData" => ~(i > j)
    BY <1>1, AtAnAct
  <2> QED BY <1>1, <1>2, <1>3, <2>1, <2>2, <2>3 DEF AskedEarly
<1> QED BY <1>4, <1>5, <1>6, <1>8, <1>9, <1>10

LEMMA CloseFormKeeps == ASSUME ClaimsInv, CloseForm PROVE ClaimsInv'
<1> USE DEF ClaimsInv
<1>1. /\ ClaimActs /\ form' = Unloaded
      /\ UNCHANGED <<claimData, claimBusy, claim, sending, sendBusy, sendData, signals, taken, openedBusy>>
  BY DEF CloseForm
<1>2. form' \in Forms /\ ~form'.open /\ ~MayConfirm'
  BY <1>1, ClaimValues DEF MayConfirm
<1>3. Posted' = Posted /\ \A t : Pending(t)' <=> Pending(t)
  BY <1>1 DEF Posted, Pending
<1>4. ClaimTypes'
  BY <1>1, <1>2, AtAnAct DEF ClaimTypes
<1>5. BusyFits' /\ SendSignalsFit' /\ SendsAreHeard' /\ ClaimComesFresh' /\ RefreshIsFresh'
  BY <1>1, <1>2, <1>3 DEF BusyFits, SendSignalsFit, SendsAreHeard, ClaimComesFresh, RefreshIsFresh
<1>6. AskedEarly'
  BY <1>1, <1>3, AtAnAct DEF AskedEarly, Pending
<1> QED BY <1>4, <1>5, <1>6

LEMMA DaemonPreparesKeeps == ASSUME ClaimsInv, DaemonPrepares PROVE ClaimsInv'
<1> USE DEF ClaimsInv
<1>1. /\ claim.at = "asked" /\ claim' = [made |-> taken, at |-> "made"]
      /\ UNCHANGED <<late, claimData, claimBusy, sending, sendBusy, sendData, form, signals, taken, openedBusy>>
  BY DEF DaemonPrepares
<1>2. (Posted' = Posted /\ \A t : Pending(t)' <=> Pending(t)) /\ (MayConfirm' <=> MayConfirm)
  BY <1>1 DEF Posted, Pending, MayConfirm
<1>3. ClaimTypes' /\ BusyFits' /\ SendSignalsFit' /\ SendsAreHeard'
  BY <1>1, <1>2 DEF ClaimTypes, BusyFits, SendSignalsFit, SendsAreHeard
<1>4. ClaimFits' /\ Fresh(claimData)' = Fresh(claimData) /\ Fresh(form.shown)' = Fresh(form.shown)
  BY <1>1 DEF ClaimFits, Fresh
<1>5. ClaimComesFresh' /\ RefreshIsFresh'
  BY <1>1, <1>2, <1>4 DEF ClaimComesFresh, RefreshIsFresh
<1>6. AskedEarly'
  BY <1>1, <1>2, <1>4 DEF AskedEarly
<1> QED BY <1>3, <1>5, <1>6

LEMMA OtherPosted ==
  ASSUME ClaimTypes, SendSignalsFit, UNCHANGED <<sending, sendData>>,
         NEW s \in {"claimData", "claimBusy"}, signals' = Append(signals, s)
  PROVE  SendSignalsFit'
<1>1. \A t : Pending(t)' <=> Pending(t) \/ t = s
  BY SignalPosted DEF Signals
<1>2. \A i \in Posted' : signals'[i] # s => i \in Posted /\ signals[i] = signals'[i]
  BY SignalPosted DEF Signals
<1>3. s # "sendData" /\ s # "sendBusy"
  OBVIOUS
<1>4. \A i, j \in Posted' : signals'[i] = "sendData" /\ signals'[j] = "sendBusy" => i < j
  BY <1>2, <1>3 DEF SendSignalsFit
<1>5. \A i, j \in Posted' : signals'[i] = "sendBusy" /\ signals'[j] = "sendBusy" => i = j
  BY <1>2, <1>3 DEF SendSignalsFit
<1> QED BY <1>1, <1>3, <1>4, <1>5 DEF SendSignalsFit

LEMMA ClaimStoredKeeps == ASSUME ClaimsInv, ClaimStored PROVE ClaimsInv'
<1> USE DEF ClaimsInv
<1>1. /\ claim.at \in {"asked", "made"} /\ claim' = [claim EXCEPT !.at = "stored"]
      /\ claimData' = Nothing \/ (claim.at = "made" /\ claimData' = Made(claim.made))
      /\ signals' = Append(signals, "claimData")
      /\ UNCHANGED <<late, claimBusy, sending, sendBusy, sendData, form, taken, openedBusy>>
  BY DEF ClaimStored
<1> DEFINE n == Len(signals) + 1
<1>2. /\ signals' \in Seq(Signals) /\ n \in Posted' /\ n \notin Posted /\ n \in Nat
      /\ Posted' = Posted \cup {n} /\ signals'[n] = "claimData"
      /\ \A i \in Posted : signals'[i] = signals[i] /\ i < n /\ i \in Nat
      /\ \A t : Pending(t)' <=> Pending(t) \/ t = "claimData"
  BY <1>1, SignalPosted DEF Signals
<1> HIDE DEF n
<1>3. claimData' \in Txs /\ claim'.at = "stored" /\ claim' \in [made : Nat, at : {"idle", "asked", "made", "stored"}]
  BY <1>1, ClaimValues DEF ClaimTypes
<1>4. ClaimFits => ClaimFits' /\ Fresh(claimData)'
  BY <1>1, <1>3, ClaimValues DEF ClaimFits, Fresh, Nothing, Made
<1>5. ClaimTypes'
  BY <1>1, <1>2, <1>3 DEF ClaimTypes, Signals
<1>6. BusyFits'
  BY <1>1, <1>3 DEF BusyFits
<1>7. SendSignalsFit'
  BY <1>1, OtherPosted
<1>8. SendsAreHeard'
  BY <1>1, <1>2 DEF SendsAreHeard
<1>9. (MayConfirm' <=> MayConfirm) /\ Fresh(form.shown)' = Fresh(form.shown)
  BY <1>1, <1>2 DEF MayConfirm, Fresh
<1>10. ClaimComesFresh'
  BY <1>1, <1>4, <1>9 DEF ClaimComesFresh
<1>11. RefreshIsFresh'
  BY <1>1 DEF RefreshIsFresh, BusyFits, MayConfirm
<1>12. AskedEarly'
  <2> SUFFICES ASSUME NEW j \in Posted', signals'[j] = "claimBusy"
               PROVE  j <= late' /\ form'.open /\ (MayConfirm' => ClaimFits' /\ Fresh(claimData)')
    BY DEF AskedEarly
  <2>1. j \in Posted /\ signals[j] = "claimBusy"
    BY <1>2
  <2>2. j <= late /\ form.open /\ (MayConfirm => ClaimFits)
    BY <1>1, <2>1 DEF AskedEarly
  <2> QED BY <1>1, <1>4, <1>9, <2>2
<1> QED BY <1>5, <1>6, <1>7, <1>8, <1>10, <1>11, <1>12

LEMMA ClaimEndsKeeps == ASSUME ClaimsInv, ClaimEnds PROVE ClaimsInv'
<1> USE DEF ClaimsInv
<1>1. /\ claim.at = "stored" /\ claim' = NoCall /\ claimBusy' = FALSE
      /\ signals' = Append(signals, "claimBusy")
      /\ UNCHANGED <<late, claimData, sending, sendBusy, sendData, form, taken, openedBusy>>
  BY DEF ClaimEnds
<1> DEFINE n == Len(signals) + 1
<1>2. /\ signals' \in Seq(Signals) /\ n \in Posted' /\ n \notin Posted /\ n \in Nat
      /\ Posted' = Posted \cup {n} /\ signals'[n] = "claimBusy"
      /\ \A i \in Posted : signals'[i] = signals[i] /\ i < n /\ i \in Nat
      /\ \A t : Pending(t)' <=> Pending(t) \/ t = "claimBusy"
  BY <1>1, SignalPosted DEF Signals
<1> HIDE DEF n
<1>3. ClaimTypes'
  BY <1>1, <1>2, ClaimValues DEF ClaimTypes, Signals
<1>4. BusyFits'
  BY <1>1, ClaimValues DEF BusyFits
<1>5. SendSignalsFit'
  BY <1>1, OtherPosted
<1>6. SendsAreHeard'
  BY <1>1, <1>2 DEF SendsAreHeard
<1>7. /\ MayConfirm' <=> MayConfirm
      /\ Fresh(form.shown)' = Fresh(form.shown) /\ Fresh(claimData)' = Fresh(claimData)
      /\ ClaimFits'
  BY <1>1, <1>2, ClaimValues DEF MayConfirm, Fresh, ClaimFits
<1>8. ClaimComesFresh'
  BY <1>1, <1>2, <1>7 DEF ClaimComesFresh
<1>9. RefreshIsFresh'
  BY <1>1, <1>2, <1>7 DEF RefreshIsFresh
<1>10. AskedEarly'
  <2> SUFFICES ASSUME NEW j \in Posted', signals'[j] = "claimBusy", NEW i \in Posted', i > j,
                      signals'[i] = "claimData"
               PROVE  j <= late' /\ form'.open /\ (MayConfirm' => Fresh(claimData)')
    BY <1>1, ClaimValues DEF AskedEarly
  <2>1. i \in Posted /\ signals[i] = "claimData"
    BY <1>2
  <2>2. j \in Posted /\ signals[j] = "claimBusy"
    <3>1. i < n /\ i \in Nat /\ n \in Nat
      BY <1>2, <2>1
    <3>2. j # n
      BY <3>1
    <3> QED BY <1>2, <3>2
  <2>3. j <= late /\ form.open /\ (MayConfirm => Fresh(claimData))
    BY <2>1, <2>2 DEF AskedEarly
  <2> QED BY <1>1, <1>7, <2>3
<1> QED BY <1>3, <1>4, <1>5, <1>6, <1>8, <1>9, <1>10

LEMMA claimRewardsKeeps == ASSUME ClaimsInv, claimRewards PROVE ClaimsInv'
<1> USE DEF ClaimsInv
<1>1. /\ ClaimActs /\ CanConfirm /\ sending.at = "idle"
      /\ sending' = [made |-> form.shown.made, at |-> "asked"]
      /\ sendBusy' = TRUE /\ sendData' = FALSE /\ form' = [form EXCEPT !.sendBusy = TRUE]
      /\ UNCHANGED <<claimData, claimBusy, claim, signals, taken, openedBusy>>
  BY DEF claimRewards
<1>2. form \in Forms /\ form.shown \in Txs
  BY DEF ClaimTypes, Forms
<1>3. /\ form' \in Forms /\ form'.open = form.open /\ form'.page = form.page /\ form'.sendBusy
      /\ form'.busy = form.busy /\ form'.shown = form.shown
      /\ sending' \in [made : Nat, at : {"idle", "asked", "taken", "stored"}] /\ sending'.at = "asked"
  BY <1>1, <1>2 DEF Forms, Txs
<1>4. ~Pending("sendData") /\ ~Pending("sendBusy")
  BY <1>1, AtAnAct DEF CanConfirm
<1>5. Posted' = Posted /\ \A t : Pending(t)' <=> Pending(t)
  BY <1>1 DEF Posted, Pending
<1>6. ClaimTypes'
  BY <1>1, <1>3, AtAnAct DEF ClaimTypes
<1>7. BusyFits' /\ SendsAreHeard'
  BY <1>1, <1>3 DEF BusyFits, SendsAreHeard
<1>8. SendSignalsFit'
  BY <1>1, <1>3, <1>4, <1>5 DEF SendSignalsFit, Pending
<1>9. ~MayConfirm'
  BY <1>3 DEF MayConfirm
<1>10. ClaimComesFresh' /\ RefreshIsFresh'
  BY <1>9 DEF ClaimComesFresh, RefreshIsFresh
<1>11. AskedEarly'
  BY <1>1, <1>5, AtAnAct DEF AskedEarly, Pending
<1> QED BY <1>6, <1>7, <1>8, <1>10, <1>11

\* What the daemon takes, it takes while no form may confirm.
LEMMA DaemonTakesKeeps == ASSUME ClaimsInv, DaemonTakes PROVE ClaimsInv'
<1> USE DEF ClaimsInv
<1>1. /\ sending.at = "asked" /\ sending' = [sending EXCEPT !.at = "taken"]
      /\ taken' = taken \/ taken' = taken + 1
      /\ UNCHANGED <<late, claimData, claimBusy, claim, sendBusy, sendData, form, signals, openedBusy>>
  BY DEF DaemonTakes
<1>2. sending' \in [made : Nat, at : {"idle", "asked", "taken", "stored"}] /\ sending'.at = "taken"
      /\ taken' \in Nat
  BY <1>1 DEF ClaimTypes
<1>3. ~MayConfirm'
  BY <1>2 DEF MayConfirm
<1>4. Posted' = Posted /\ \A t : Pending(t)' <=> Pending(t)
  BY <1>1 DEF Posted, Pending
<1>5. ClaimTypes'
  BY <1>1, <1>2 DEF ClaimTypes
<1>6. BusyFits' /\ SendSignalsFit' /\ SendsAreHeard' /\ ClaimComesFresh' /\ RefreshIsFresh'
  BY <1>1, <1>2, <1>3, <1>4 DEF BusyFits, SendSignalsFit, SendsAreHeard, ClaimComesFresh, RefreshIsFresh
<1>7. AskedEarly'
  BY <1>1, <1>3, <1>4 DEF AskedEarly
<1> QED BY <1>5, <1>6, <1>7

LEMMA SendStoredKeeps == ASSUME ClaimsInv, SendStored PROVE ClaimsInv'
<1> USE DEF ClaimsInv
<1>1. /\ sending.at \in {"asked", "taken"} /\ sending' = [sending EXCEPT !.at = "stored"]
      /\ sendData' = TRUE /\ signals' = Append(signals, "sendData")
      /\ UNCHANGED <<late, claimData, claimBusy, claim, sendBusy, form, taken, openedBusy>>
  BY DEF SendStored
<1> DEFINE n == Len(signals) + 1
<1>2. /\ signals' \in Seq(Signals) /\ n \in Posted' /\ n \notin Posted /\ n \in Nat
      /\ Posted' = Posted \cup {n} /\ signals'[n] = "sendData"
      /\ \A i \in Posted : signals'[i] = signals[i] /\ i < n /\ i \in Nat
      /\ \A t : Pending(t)' <=> Pending(t) \/ t = "sendData"
  BY <1>1, SignalPosted DEF Signals
<1> HIDE DEF n
<1>3. sending' \in [made : Nat, at : {"idle", "asked", "taken", "stored"}] /\ sending'.at = "stored"
  BY <1>1 DEF ClaimTypes
<1>4. ClaimTypes'
  BY <1>1, <1>2, <1>3 DEF ClaimTypes, Signals
<1>5. BusyFits' /\ SendsAreHeard'
  BY <1>1, <1>3 DEF BusyFits, SendsAreHeard
<1>6. SendSignalsFit'
  <2>1. ~Pending("sendBusy")'
    BY <1>1, <1>2 DEF SendSignalsFit
  <2>2. \A i \in Posted' : signals'[i] # "sendBusy"
    BY <2>1 DEF Pending
  <2> QED BY <1>1, <1>3, <2>1, <2>2 DEF SendSignalsFit
<1>7. ~MayConfirm'
  BY <1>2 DEF MayConfirm
<1>8. ClaimComesFresh' /\ RefreshIsFresh'
  BY <1>7 DEF ClaimComesFresh, RefreshIsFresh
<1>9. AskedEarly'
  <2>1. \A i \in Posted' : signals'[i] # "sendData" => i \in Posted /\ signals[i] = signals'[i]
    BY <1>2
  <2> QED BY <1>1, <1>7, <2>1 DEF AskedEarly
<1> QED BY <1>4, <1>5, <1>6, <1>8, <1>9

LEMMA SendEndsKeeps == ASSUME ClaimsInv, SendEnds PROVE ClaimsInv'
<1> USE DEF ClaimsInv
<1>1. /\ sending.at = "stored" /\ sending' = NoCall
      /\ sendBusy' = FALSE /\ signals' = Append(signals, "sendBusy")
      /\ UNCHANGED <<late, claimData, claimBusy, claim, sendData, form, taken, openedBusy>>
  BY DEF SendEnds
<1> DEFINE n == Len(signals) + 1
<1>2. /\ signals' \in Seq(Signals) /\ n \in Posted' /\ n \notin Posted /\ n \in Nat
      /\ Posted' = Posted \cup {n} /\ signals'[n] = "sendBusy"
      /\ \A i \in Posted : signals'[i] = signals[i] /\ i < n /\ i \in Nat
      /\ \A t : Pending(t)' <=> Pending(t) \/ t = "sendBusy"
  BY <1>1, SignalPosted DEF Signals
<1> HIDE DEF n
<1>3. ClaimTypes'
  BY <1>1, <1>2, ClaimValues DEF ClaimTypes, Signals
<1>4. BusyFits' /\ SendsAreHeard'
  BY <1>1, ClaimValues DEF BusyFits, SendsAreHeard
<1>5. SendSignalsFit'
  <2>1. \A i \in Posted' : signals'[i] = "sendBusy" => i = n
    BY <1>1, <1>2 DEF SendSignalsFit, Pending
  <2>2. \A i \in Posted' : signals'[i] = "sendData" => i \in Posted
    BY <1>2
  <2>3. \A i, j \in Posted' : signals'[i] = "sendData" /\ signals'[j] = "sendBusy" => i < j
    BY <1>2, <2>1, <2>2
  <2>4. Pending("sendData")' => sendData'
    BY <1>1, <1>2 DEF SendSignalsFit
  <2> QED BY <1>1, <2>1, <2>3, <2>4, ClaimValues DEF SendSignalsFit
<1>6. (MayConfirm' <=> MayConfirm) /\ (\A t \in {"claimData"} : Pending(t)' <=> Pending(t))
      /\ ClaimFits' = ClaimFits /\ Fresh(claimData)' = Fresh(claimData) /\ Fresh(form.shown)' = Fresh(form.shown)
  BY <1>1, <1>2, ClaimValues DEF MayConfirm, ClaimFits, Fresh
<1>7. ClaimComesFresh' /\ RefreshIsFresh'
  BY <1>1, <1>6 DEF ClaimComesFresh, RefreshIsFresh
<1>8. AskedEarly'
  <2>1. \A i \in Posted' : signals'[i] # "sendBusy" => i \in Posted /\ signals[i] = signals'[i]
    BY <1>2
  <2> QED BY <1>1, <1>6, <2>1 DEF AskedEarly
<1> QED BY <1>3, <1>4, <1>5, <1>7, <1>8

LEMMA SeenFacts ==
  ASSUME ClaimTypes, SendSignalsFit, TakeSignal
  PROVE  LET s == Head(signals) IN
         /\ form' \in Forms /\ form'.open = form.open /\ s \in Signals
         /\ ~form.open => form' = form
         /\ form'.shown = form.shown \/ (s = "claimData" /\ form'.shown = claimData)
         /\ form.open => form'.busy = (IF s = "claimBusy" THEN claimBusy ELSE form.busy)
         /\ form.open => form'.sendBusy = (IF s = "sendBusy" THEN sendBusy ELSE form.sendBusy)
         /\ form.open /\ s # "sendData" => form'.page = form.page
         /\ form.open /\ s = "sendData" => form'.page = 1
         /\ late' = (IF late = 0 THEN 0 ELSE late - 1) /\ late' \in Nat
         /\ signals # <<>> /\ signals' = Tail(signals)
         /\ UNCHANGED <<claimData, claimBusy, claim, sending, sendBusy, sendData, taken, openedBusy>>
<1>1. /\ signals # <<>> /\ signals' = Tail(signals)
      /\ late' = (IF late = 0 THEN 0 ELSE late - 1) /\ late' \in Nat
      /\ form' = (IF form.open THEN Seen(form, Head(signals)) ELSE form)
      /\ UNCHANGED <<claimData, claimBusy, claim, sending, sendBusy, sendData, taken, openedBusy>>
  BY DEF TakeSignal, ClaimTypes
<1>2. PICK s \in Signals : s = Head(signals) /\ Pending(s)
  BY <1>1, SignalTaken DEF Pending
<1>3. form \in Forms /\ claimData \in Txs /\ claimBusy \in BOOLEAN /\ sendBusy \in BOOLEAN
  BY DEF ClaimTypes
<1>4. CASE ~form.open
  BY <1>1, <1>2, <1>3, <1>4
<1>5. CASE form.open /\ s = "claimData"
  <2>1. form' = [form EXCEPT !.shown = claimData]
    BY <1>1, <1>2, <1>5 DEF Seen
  <2> QED BY <1>1, <1>2, <1>3, <1>5, <2>1 DEF Forms
<1>6. CASE form.open /\ s = "claimBusy"
  <2>1. form' = [form EXCEPT !.busy = claimBusy]
    BY <1>1, <1>2, <1>6 DEF Seen
  <2> QED BY <1>1, <1>2, <1>3, <1>6, <2>1 DEF Forms
<1>7. CASE form.open /\ s = "sendData"
  <2>1. form' = [form EXCEPT !.page = 1]
    BY <1>1, <1>2, <1>7 DEF Seen, SendSignalsFit
  <2> QED BY <1>1, <1>2, <1>3, <1>7, <2>1 DEF Forms
<1>8. CASE form.open /\ s = "sendBusy"
  <2>1. form' = [form EXCEPT !.sendBusy = sendBusy]
    BY <1>1, <1>2, <1>8 DEF Seen
  <2> QED BY <1>1, <1>2, <1>3, <1>8, <2>1 DEF Forms
<1> QED BY <1>2, <1>4, <1>5, <1>6, <1>7, <1>8 DEF Signals

LEMMA TakeSignalKeeps == ASSUME ClaimsInv, TakeSignal PROVE ClaimsInv'
<1> USE DEF ClaimsInv
<1>1. PICK s \in Signals : s = Head(signals)
  BY SeenFacts
<1>2. /\ form' \in Forms /\ form'.open = form.open
      /\ form'.shown = form.shown \/ (s = "claimData" /\ form'.shown = claimData)
      /\ form.open => form'.busy = (IF s = "claimBusy" THEN claimBusy ELSE form.busy)
      /\ form.open => form'.sendBusy = (IF s = "sendBusy" THEN sendBusy ELSE form.sendBusy)
      /\ form.open /\ s # "sendData" => form'.page = form.page
      /\ form.open /\ s = "sendData" => form'.page = 1
      /\ late' = (IF late = 0 THEN 0 ELSE late - 1) /\ late' \in Nat /\ late \in Nat
      /\ signals # <<>> /\ signals' = Tail(signals)
      /\ UNCHANGED <<claimData, claimBusy, claim, sending, sendBusy, sendData, taken, openedBusy>>
  BY <1>1, SeenFacts DEF ClaimTypes
<1>3. /\ signals' \in Seq(Signals) /\ 1 \in Posted /\ signals[1] = s
      /\ \A i \in Posted' : i \in Nat /\ i >= 1 /\ i + 1 \in Posted /\ signals'[i] = signals[i + 1]
      /\ \A t : Pending(t)' => Pending(t)
      /\ \A t : Pending(t) /\ t # s => Pending(t)'
      /\ Pending(s)
  BY <1>1, <1>2, SignalTaken DEF Pending
<1>4. ClaimTypes'
  BY <1>2, <1>3 DEF ClaimTypes, Signals
<1>5. BusyFits'
  BY <1>2 DEF BusyFits
<1>6. SendSignalsFit'
  <2>1. \A i, j \in Posted' : signals'[i] = "sendData" /\ signals'[j] = "sendBusy" => i < j
    <3> SUFFICES ASSUME NEW i \in Posted', NEW j \in Posted', signals'[i] = "sendData", signals'[j] = "sendBusy"
                 PROVE  i < j
      OBVIOUS
    <3>1. i + 1 < j + 1 /\ i \in Nat /\ j \in Nat
      BY <1>3 DEF SendSignalsFit
    <3> QED BY <3>1
  <2>2. \A i, j \in Posted' : signals'[i] = "sendBusy" /\ signals'[j] = "sendBusy" => i = j
    <3> SUFFICES ASSUME NEW i \in Posted', NEW j \in Posted', signals'[i] = "sendBusy", signals'[j] = "sendBusy"
                 PROVE  i = j
      OBVIOUS
    <3>1. i + 1 = j + 1 /\ i \in Nat /\ j \in Nat
      BY <1>3 DEF SendSignalsFit
    <3> QED BY <3>1
  <2> QED BY <1>2, <1>3, <2>1, <2>2 DEF SendSignalsFit
<1>7. SendsAreHeard'
  <2> SUFFICES ASSUME form'.open, form'.page = 0, ~form'.sendBusy
               PROVE  /\ sending'.at = "idle"
                      /\ \A i \in Posted' : i > late' => signals'[i] \notin {"sendData", "sendBusy"}
                      /\ ~openedBusy' => ~Pending("sendData")'
    BY DEF SendsAreHeard
  <2>1. form.open /\ form.page = 0 /\ s # "sendData"
    BY <1>2
  <2>2. CASE s = "sendBusy"
    <3>1. sending.at = "idle"
      BY <1>2, <2>1, <2>2 DEF BusyFits
    <3>2. \A i \in Posted' : signals'[i] \notin {"sendData", "sendBusy"}
      <4> SUFFICES ASSUME NEW i \in Posted', signals'[i] \in {"sendData", "sendBusy"} PROVE FALSE
        OBVIOUS
      <4>1. i + 1 \in Posted /\ signals[i + 1] \in {"sendData", "sendBusy"} /\ i \in Nat /\ i >= 1
        BY <1>3
      <4>2. i + 1 < 1 \/ i + 1 = 1
        BY <1>3, <2>2, <4>1 DEF SendSignalsFit
      <4> QED BY <4>1, <4>2
    <3> QED BY <1>2, <3>1, <3>2 DEF Pending
  <2>3. CASE s # "sendBusy"
    <3>1. ~form.sendBusy
      BY <1>2, <2>1, <2>3
    <3>2. \A i \in Posted' : i > late' => i + 1 > late
      BY <1>2, <1>3
    <3> QED BY <1>2, <1>3, <2>1, <3>1, <3>2 DEF SendsAreHeard
  <2> QED BY <2>2, <2>3
<1>8. MayConfirm' => MayConfirm
  BY <1>2, <1>3 DEF MayConfirm
<1>9. ClaimFits' = ClaimFits /\ Fresh(claimData)' = Fresh(claimData)
  BY <1>2 DEF ClaimFits, Fresh
<1>10. ClaimComesFresh'
  <2> SUFFICES ASSUME MayConfirm', ~openedBusy'
               PROVE  ClaimFits' /\ (Pending("claimData")' => Fresh(claimData)') /\ Fresh(form.shown)'
    BY DEF ClaimComesFresh
  <2>1. ClaimFits /\ (Pending("claimData") => Fresh(claimData)) /\ Fresh(form.shown)
    BY <1>2, <1>8 DEF ClaimComesFresh
  <2>2. Fresh(form.shown)'
    BY <1>2, <1>3, <2>1 DEF Fresh
  <2> QED BY <1>3, <1>9, <2>1, <2>2
<1>11. RefreshIsFresh'
  <2> SUFFICES ASSUME MayConfirm', ~form'.busy, Pending("claimData")' PROVE Fresh(claimData)'
    BY DEF RefreshIsFresh
  <2>1. MayConfirm /\ form.open /\ Pending("claimData")
    BY <1>3, <1>8 DEF MayConfirm
  <2>2. CASE s # "claimBusy"
    BY <1>2, <1>9, <2>1, <2>2 DEF RefreshIsFresh
  <2>3. CASE s = "claimBusy"
    <3>1. PICK i \in Posted' : signals'[i] = "claimData"
      BY DEF Pending
    <3>2. i + 1 \in Posted /\ signals[i + 1] = "claimData" /\ i + 1 > 1
      BY <1>3, <3>1
    <3> QED BY <1>3, <1>9, <2>1, <2>3, <3>2 DEF AskedEarly
  <2> QED BY <2>2, <2>3
<1>12. AskedEarly'
  <2> SUFFICES ASSUME NEW j \in Posted', signals'[j] = "claimBusy"
               PROVE  /\ claim'.at # "idle" => j <= late' /\ form'.open /\ (MayConfirm' => ClaimFits')
                      /\ \A i \in Posted' : i > j /\ signals'[i] = "claimData" =>
                           j <= late' /\ form'.open /\ (MayConfirm' => Fresh(claimData)')
    BY DEF AskedEarly
  <2>1. j + 1 \in Posted /\ signals[j + 1] = "claimBusy" /\ j \in Nat
    BY <1>3
  <2>2. j + 1 <= late => j <= late'
    BY <1>2, <2>1
  <2>3. claim.at # "idle" => j + 1 <= late /\ form.open /\ (MayConfirm => ClaimFits)
    BY <2>1 DEF AskedEarly
  <2>4. ASSUME NEW i \in Posted', i > j, signals'[i] = "claimData"
        PROVE  j + 1 <= late /\ form.open /\ (MayConfirm => Fresh(claimData))
    <3>1. i + 1 \in Posted /\ signals[i + 1] = "claimData" /\ i + 1 > j + 1
      BY <1>3, <2>1, <2>4
    <3> QED BY <2>1, <3>1 DEF AskedEarly
  <2> QED BY <1>2, <1>8, <1>9, <2>2, <2>3, <2>4
<1> QED BY <1>4, <1>5, <1>6, <1>7, <1>10, <1>11, <1>12

LEMMA ClaimsInitially == ClaimsInit => ClaimsInv
<1> SUFFICES ASSUME ClaimsInit PROVE ClaimsInv
  OBVIOUS
<1>1. Posted = {} /\ signals \in Seq(Signals)
  BY EmptySeq DEF ClaimsInit, Posted
<1>2. \A t : ~Pending(t)
  BY <1>1 DEF Pending
<1>3. ClaimTypes
  BY <1>1, ClaimValues DEF ClaimsInit, ClaimTypes, Signals
<1>4. BusyFits /\ SendSignalsFit /\ SendsAreHeard
  BY <1>1, <1>2, ClaimValues DEF ClaimsInit, BusyFits, SendSignalsFit, SendsAreHeard
<1>5. ClaimComesFresh /\ RefreshIsFresh /\ AskedEarly
  BY <1>1, <1>2, ClaimValues DEF ClaimsInit, ClaimComesFresh, RefreshIsFresh, AskedEarly, MayConfirm
<1> QED BY <1>3, <1>4, <1>5 DEF ClaimsInv

LEMMA ClaimsInvStep == ClaimsInv /\ [ClaimsNext]_claimVars => ClaimsInv'
<1> SUFFICES ASSUME ClaimsInv, [ClaimsNext]_claimVars PROVE ClaimsInv'
  OBVIOUS
<1>1. CASE UNCHANGED claimVars
  <2> USE <1>1 DEF claimVars, ClaimsInv
  <2>1. Posted' = Posted /\ (\A t : Pending(t)' <=> Pending(t)) /\ (MayConfirm' <=> MayConfirm)
    BY DEF Posted, Pending, MayConfirm
  <2>2. ClaimFits' = ClaimFits /\ Fresh(claimData)' = Fresh(claimData) /\ Fresh(form.shown)' = Fresh(form.shown)
    BY DEF ClaimFits, Fresh
  <2>3. ClaimTypes' /\ BusyFits' /\ SendSignalsFit' /\ SendsAreHeard'
    BY <2>1 DEF ClaimTypes, BusyFits, SendSignalsFit, SendsAreHeard
  <2>4. ClaimComesFresh' /\ RefreshIsFresh' /\ AskedEarly'
    BY <2>1, <2>2 DEF ClaimComesFresh, RefreshIsFresh, AskedEarly
  <2> QED BY <2>3, <2>4
<1>2. CASE ClaimsNext
  BY <1>2, OpenFormKeeps, RefreshKeeps, CloseFormKeeps, DaemonPreparesKeeps, ClaimStoredKeeps,
     ClaimEndsKeeps, claimRewardsKeeps, DaemonTakesKeeps, SendStoredKeeps, SendEndsKeeps, TakeSignalKeeps
     DEF ClaimsNext
<1> QED BY <1>1, <1>2

\* Confirm never broadcasts a claim that was made before the daemon took the last one,
\* unless the form was opened into a claim under way: for any number of claims and
\* broadcasts, with the signals of the worker threads as late as they may be.
THEOREM ConfirmedClaimsAreFresh == ClaimsInit /\ [][ClaimsNext]_claimVars => []ClaimsAreFresh
<1>1. ClaimsInv => ClaimsAreFresh
  <2> SUFFICES ASSUME ClaimsInv, CanConfirm, ~openedBusy PROVE form.shown.made = taken
    BY DEF ClaimsAreFresh
  <2>1. MayConfirm /\ form.shown.at = "tx"
    BY DEF ClaimsInv, CanConfirm, SendsAreHeard, MayConfirm
  <2> QED BY <2>1 DEF ClaimsInv, ClaimComesFresh, Fresh
<1>2. ClaimsInit /\ [][ClaimsNext]_claimVars => []ClaimsInv
  BY ClaimsInitially, ClaimsInvStep, PTL
<1> QED BY <1>1, <1>2, PTL

-----------------------------------------------------------------------------
(* The height from which a shielded coin is scanned.                       *)

LEMMA Quotient ==
  ASSUME NEW a \in Nat, NEW b \in Nat, b # 0
  PROVE  a \div b \in Nat /\ (a \div b) * b <= a /\ a < (a \div b + 1) * b
OBVIOUS

\* The two roundings of get_pirate_sync_height, on either side of the checkpoint.
LEMMA RoundedDown ==
  ASSUME NEW a \in Nat, NEW b \in Nat, b # 0, NEW r \in Nat, r # 0
  PROVE  LET h == ((a \div b) \div r) * r IN h \in Nat /\ h * b <= a /\ (h + r) * b > a
<1> DEFINE q == a \div b
           k == q \div r
<1>1. q \in Nat /\ q * b <= a /\ a < (q + 1) * b
  BY Quotient
<1> HIDE DEF q
<1>2. k \in Nat /\ k * r <= q /\ q < (k + 1) * r
  BY <1>1, Quotient
<1> HIDE DEF k
<1>3. PICK h \in Nat : h = k * r
  BY <1>2
<1>4. h <= q /\ q + 1 <= h + r
  <2>1. (k + 1) * r = h + r
    BY <1>2, <1>3
  <2> QED BY <1>1, <1>2, <1>3, <2>1
<1>5. \A x, y \in Nat : x <= y => x * b <= y * b
  OBVIOUS
<1>6. h * b <= q * b /\ (q + 1) * b <= (h + r) * b
  BY <1>1, <1>4, <1>5
<1>7. h * b \in Nat /\ q * b \in Nat /\ (q + 1) * b \in Nat /\ (h + r) * b \in Nat
  BY <1>1
<1>8. h * b <= a /\ (h + r) * b > a
  BY <1>1, <1>6, <1>7
<1> QED BY <1>3, <1>8 DEF k, q

LEMMA DivTruncFacts ==
  ASSUME NEW b \in Nat, b # 0
  PROVE  /\ \A a \in Nat : DivTrunc(a, b) = a \div b
         /\ \A a \in Nat : DivTrunc(-a, b) = -(a \div b)
<1>1. ASSUME NEW a \in Nat PROVE DivTrunc(a, b) = a \div b
  BY DEF DivTrunc
<1>2. ASSUME NEW a \in Nat PROVE DivTrunc(-a, b) = -(a \div b)
  <2>1. CASE a = 0
    <3>1. 0 \div b = 0
      OBVIOUS
    <3> QED BY <2>1, <3>1 DEF DivTrunc
  <2>2. CASE a # 0
    <3>1. ~(-a >= 0) /\ -(-a) = a
      BY <2>2
    <3> QED BY <3>1 DEF DivTrunc
  <2> QED BY <2>1, <2>2
<1> QED BY <1>1, <1>2


\* get_pirate_sync_height is near the date, whatever the date and the checkpoint.
LEMMA HeightIsNear ==
  ASSUME NEW date \in Int, NEW cp \in Checkpoints, cp.height > 0
  PROVE  LET off == get_pirate_sync_height(date, cp) - cp.height
         IN  /\ off >= -cp.height
             /\ date >= cp.time => /\ off * BlockTime <= date - cp.time
                                   /\ (off + HeightRound) * BlockTime > date - cp.time
             /\ date < cp.time => /\ off <= 0
                                  /\ off # -cp.height => /\ off * BlockTime >= date - cp.time
                                                         /\ (off - HeightRound) * BlockTime < date - cp.time
<1> DEFINE off == get_pirate_sync_height(date, cp) - cp.height
           b == BlockTime
           r == HeightRound
           Down(a) == ((a \div b) \div r) * r
           AfterIt == /\ off * b <= date - cp.time
                      /\ (off + r) * b > date - cp.time
           BeforeIt == /\ off <= 0
                       /\ off # -cp.height => off * b >= date - cp.time
                       /\ off # -cp.height => (off - r) * b < date - cp.time
<1>1. cp.height \in Nat /\ cp.time \in Nat /\ b \in Nat /\ b # 0 /\ r \in Nat /\ r # 0
  BY PreferencesAssumption
<1>2. ASSUME NEW a \in Nat
      PROVE  /\ Down(a) \in Nat /\ Down(a) * b <= a /\ (Down(a) + r) * b > a
             /\ DivTrunc(DivTrunc(a, b), r) * r = Down(a)
             /\ DivTrunc(DivTrunc(-a, b), r) * r = -Down(a)
  <2> DEFINE q == a \div b
             k == q \div r
  <2>1. Down(a) \in Nat /\ Down(a) * b <= a /\ (Down(a) + r) * b > a
    BY <1>1, RoundedDown
  <2>2. q \in Nat /\ DivTrunc(a, b) = q /\ DivTrunc(-a, b) = -q
    BY <1>1, Quotient, DivTruncFacts
  <2> HIDE DEF q
  <2>3. k \in Nat /\ DivTrunc(q, r) = k /\ DivTrunc(-q, r) = -k
    BY <1>1, <2>2, Quotient, DivTruncFacts
  <2> HIDE DEF k
  <2>4. (-k) * r = -(k * r)
    BY <1>1, <2>3
  <2>5. k * r = Down(a)
    BY DEF k, q
  <2> QED BY <2>1, <2>2, <2>3, <2>4, <2>5
<1>3. ASSUME date >= cp.time PROVE off >= -cp.height /\ AfterIt
  <2> DEFINE a == date - cp.time
  <2>1. a \in Nat
    BY <1>1, <1>3
  <2>2. Down(a) \in Nat /\ Down(a) * b <= a /\ (Down(a) + r) * b > a
        /\ DivTrunc(DivTrunc(a, b), r) * r = Down(a)
    BY <1>2, <2>1
  <2> HIDE DEF Down
  <2>3. off = Down(a)
    <3>1. get_pirate_sync_height(date, cp) = cp.height + Down(a)
      BY <1>1, <2>2 DEF get_pirate_sync_height
    <3> QED BY <1>1, <2>2, <3>1
  <2> HIDE DEF off
  <2>4. Down(a) >= -cp.height
    BY <1>1, <2>2
  <2> QED BY <2>2, <2>3, <2>4
<1>4. ASSUME date < cp.time PROVE off >= -cp.height /\ BeforeIt
  <2> DEFINE a == cp.time - date
  <2>1. a \in Nat /\ -a = date - cp.time
    BY <1>1, <1>4
  <2>2. Down(a) \in Nat /\ Down(a) * b <= a /\ (Down(a) + r) * b > a
        /\ DivTrunc(DivTrunc(-a, b), r) * r = -Down(a)
    BY <1>2, <2>1
  <2> HIDE DEF Down
  <2> DEFINE d == Down(a)
  <2>3. off = IF cp.height - d < 0 THEN -cp.height ELSE -d
    <3>1. get_pirate_sync_height(date, cp) = IF cp.height - d < 0 THEN 0 ELSE cp.height - d
      BY <1>1, <2>1, <2>2 DEF get_pirate_sync_height
    <3> QED BY <1>1, <2>2, <3>1
  <2> HIDE DEF off
  <2>4. (-d) * b = -(d * b) /\ (-d - r) * b = -((d + r) * b)
    BY <1>1, <2>2
  <2>5. d * b \in Int /\ (d + r) * b \in Int
    BY <1>1, <2>2
  <2> HIDE DEF d
  <2>6. CASE cp.height - d < 0
    <3>1. d \in Nat /\ off = -cp.height
      BY <2>2, <2>3, <2>6 DEF d
    <3> QED BY <1>1, <3>1
  <2>7. CASE ~(cp.height - d < 0)
    <3>1. d \in Nat /\ d * b <= a /\ (d + r) * b > a
      BY <2>2 DEF d
    <3>2. off = -d /\ off >= -cp.height /\ off <= 0
      BY <1>1, <2>3, <2>7, <3>1
    <3>3. off * b >= date - cp.time
      BY <1>1, <2>1, <2>4, <2>5, <3>1, <3>2
    <3>4. (off - r) * b < date - cp.time
      BY <1>1, <2>1, <2>4, <2>5, <3>1, <3>2
    <3> QED BY <3>2, <3>3, <3>4
  <2> QED BY <2>6, <2>7
<1>5. date >= cp.time \/ date < cp.time
  BY <1>1
<1>6. /\ off >= -cp.height
      /\ date >= cp.time => AfterIt
      /\ date < cp.time => BeforeIt
  BY <1>1, <1>3, <1>4, <1>5
<1> QED BY <1>6

-----------------------------------------------------------------------------
(* Preferences: the inductive invariant.                                   *)

JsonFiles == [state : {"absent", "cut", "whole"}, on : SUBSET Options]
IniFiles == [state : {"absent", "cut", "whole"}, settings : Settings]

\* What a version's file holds is what was chosen in it, but for the change that is
\* about to be written.
JsonFits ==
  /\ \A v \in Versions :
       /\ cfgJson[v].state = "absent" => chosen[v] = ShippedOn
       /\ cfgJson[v].state = "whole" /\ ~(v = running /\ startPc = "truncate")
            => chosen[v] = cfgJson[v].on
  /\ startPc \in {"up", "truncate", "fill"} => config = chosen[running]
  /\ startPc \in {"up", "truncate"} => cfgJson[running].state = "whole"

WantedAt(v) == cfgIni[v].state = "whole" /\ cfgIni[v].settings = wanted
NothingStored == wanted = DefaultSettings /\ \A v \in Versions : cfgIni[v].state = "absent"
NewerAbsent(h) == \A v \in Versions : v > h => cfgIni[v].state = "absent"

\* Where the settings of the user are, at each point of a start.
SettingsFit ==
  ~excused =>
    /\ startPc \in {"up", "truncate", "fill", "remove"} => WantedAt(running)
    /\ startPc = "load" => WantedAt(running) \/ NothingStored
    /\ startPc = "copying" => running > 1 /\ WantedAt(running - 1)
    /\ startPc \in {"down", "settings"} =>
         NothingStored \/ \E h \in 1..running : WantedAt(h) /\ NewerAbsent(h)

LanguageFits ==
  startPc \in {"up", "truncate", "fill"} /\ cfgIni[running].settings.lang \in Translated =>
    shownLang = cfgIni[running].settings.lang

PrefInv ==
  /\ PrefTypeOK /\ (startPc \in {"copying", "remove"} => running > 1)
  /\ JsonFits /\ NewerAbsent(running) /\ SettingsFit /\ LanguageFits

LEMMA PrefTypeFacts ==
  /\ NoJson \in JsonFiles /\ NoIni \in IniFiles /\ DefaultSettings \in Settings
  /\ \A on \in SUBSET Options : Whole(on) \in JsonFiles /\ Whole(on).state = "whole" /\ Whole(on).on = on
  /\ NoJson.state = "absent" /\ NoIni.state = "absent" /\ NoIni.settings = DefaultSettings
  /\ \A ini \in IniFiles : /\ handle_settings(ini) \in IniFiles
                           /\ handle_settings(ini).state = "whole"
                           /\ handle_settings(ini).settings =
                                IF ini.state = "whole" THEN ini.settings ELSE DefaultSettings
  /\ \A lang : LangShown(lang) = IF lang \in Translated THEN lang ELSE shownLang
<1>1. DefaultSettings \in Settings
  BY PreferencesAssumption DEF DefaultSettings, Settings
<1>2. ASSUME NEW ini \in IniFiles
      PROVE  /\ handle_settings(ini) \in IniFiles
             /\ handle_settings(ini).state = "whole"
             /\ handle_settings(ini).settings = IF ini.state = "whole" THEN ini.settings ELSE DefaultSettings
  BY <1>1 DEF handle_settings, IniFiles
<1> QED BY <1>1, <1>2, PreferencesAssumption DEF NoJson, NoIni, Whole, JsonFiles, IniFiles, LangShown

LEMMA PrefInitInv == PrefInit => PrefInv
<1> SUFFICES ASSUME PrefInit PROVE PrefInv
  OBVIOUS
<1>1. LastVersion \in Nat \ {0} /\ 1 \in Versions
  BY PreferencesAssumption DEF Versions
<1>2. PrefTypeOK
  <2>1. cfgJson \in [Versions -> JsonFiles] /\ cfgIni \in [Versions -> IniFiles]
    BY PrefTypeFacts DEF PrefInit
  <2> QED BY <1>1, <2>1, PrefTypeFacts, PreferencesAssumption DEF PrefTypeOK, PrefInit, JsonFiles, IniFiles
<1>3. \A v \in Versions : cfgJson[v].state = "absent" /\ cfgIni[v].state = "absent" /\ chosen[v] = ShippedOn
  BY PrefTypeFacts DEF PrefInit
<1>4. JsonFits
  BY <1>3 DEF JsonFits, PrefInit
<1>5. SettingsFit
  BY <1>3 DEF SettingsFit, NothingStored, PrefInit
<1> QED BY <1>2, <1>3, <1>4, <1>5 DEF PrefInv, NewerAbsent, LanguageFits, PrefInit

LEMMA PrefTypesKept ==
  ASSUME PrefInv, [PrefNext]_prefVars
  PROVE  PrefTypeOK'
<1> USE PrefTypeFacts
<1>0. /\ cfgJson \in [Versions -> JsonFiles] /\ cfgIni \in [Versions -> IniFiles]
      /\ config \subseteq Options /\ shownLang \in Translated /\ running \in Versions
      /\ startPc \in {"down", "settings", "copying", "remove", "load", "up", "truncate", "fill"}
      /\ chosen \in [Versions -> SUBSET Options] /\ wanted \in Settings /\ excused \in BOOLEAN
  BY DEF PrefInv, PrefTypeOK, JsonFiles, IniFiles
<1>1. /\ ShippedOn \subseteq Options /\ DefaultLanguage \in Translated /\ Translated \subseteq Languages
      /\ LastVersion \in Nat \ {0}
  BY PreferencesAssumption
<1> SUFFICES /\ cfgJson' \in [Versions -> JsonFiles] /\ cfgIni' \in [Versions -> IniFiles]
             /\ config' \subseteq Options /\ shownLang' \in Translated /\ running' \in Versions
             /\ startPc' \in {"down", "settings", "copying", "remove", "load", "up", "truncate", "fill"}
             /\ chosen' \in [Versions -> SUBSET Options] /\ wanted' \in Settings /\ excused' \in BOOLEAN
  BY DEF PrefTypeOK, JsonFiles, IniFiles
<1>2. /\ \A v \in Versions, json \in JsonFiles : [cfgJson EXCEPT ![v] = json] \in [Versions -> JsonFiles]
      /\ \A v \in Versions, ini \in IniFiles : [cfgIni EXCEPT ![v] = ini] \in [Versions -> IniFiles]
      /\ \A v \in Versions, on \in SUBSET Options : [chosen EXCEPT ![v] = on] \in [Versions -> SUBSET Options]
  BY <1>0
<1>3. running > 1 => running - 1 \in Versions
  BY <1>0, <1>1 DEF Versions
<1>4. CASE UNCHANGED prefVars
  BY <1>0, <1>4 DEF prefVars, prefDisk, prefHistory
<1>5. ASSUME NEW v \in Versions, Start(v) PROVE PrefTypeOK'
  BY <1>0, <1>5 DEF Start, prefDisk, prefHistory, PrefTypeOK, JsonFiles, IniFiles
<1>6. CASE NothingToCopy
  BY <1>0, <1>6 DEF NothingToCopy, prefDisk
<1>7. CASE BeginCopy
  <2>1. [cfgIni[running] EXCEPT !.state = "cut"] \in IniFiles
    BY <1>0 DEF IniFiles
  <2>2. cfgIni' = [cfgIni EXCEPT ![running] = [cfgIni[running] EXCEPT !.state = "cut"]]
    BY <1>7 DEF BeginCopy
  <2>3. cfgIni' \in [Versions -> IniFiles]
    BY <1>0, <1>2, <2>1, <2>2
  <2> QED BY <1>0, <1>7, <2>3 DEF BeginCopy, prefHistory
<1>8. CASE EndCopy
  <2>1. cfgIni[running - 1] \in IniFiles
    BY <1>0, <1>3, <1>8 DEF EndCopy, PrefInv
  <2>2. cfgIni' \in [Versions -> IniFiles]
    BY <1>0, <1>2, <1>8, <2>1 DEF EndCopy
  <2> QED BY <1>0, <1>8, <2>2 DEF EndCopy, prefHistory
<1>9. CASE CopyFails
  <2>1. cfgIni' \in [Versions -> IniFiles]
    BY <1>0, <1>2, <1>9 DEF CopyFails
  <2> QED BY <1>0, <1>9, <2>1 DEF CopyFails
<1>10. CASE RemovePrevious
  <2>1. running - 1 \in Versions
    BY <1>3, <1>10 DEF RemovePrevious, PrefInv
  <2>2. cfgIni' \in [Versions -> IniFiles] /\ cfgJson' \in [Versions -> JsonFiles]
        /\ chosen' \in [Versions -> SUBSET Options]
    BY <1>1, <1>2, <1>10, <2>1 DEF RemovePrevious
  <2> QED BY <1>0, <1>10, <2>2 DEF RemovePrevious
<1>11. CASE load_cfg
  <2> DEFINE json == IF cfgJson[running].state = "absent" THEN Whole(ShippedOn) ELSE cfgJson[running]
  <2>1. json \in JsonFiles /\ json.on \subseteq Options
    BY <1>0, <1>1 DEF JsonFiles
  <2>2. cfgJson' = [cfgJson EXCEPT ![running] = json] /\ config' = json.on
    BY <1>11 DEF load_cfg
  <2> HIDE DEF json
  <2>3. handle_settings(cfgIni[running]) \in IniFiles
    BY <1>0
  <2>4. cfgJson' \in [Versions -> JsonFiles] /\ cfgIni' \in [Versions -> IniFiles]
    BY <1>0, <1>2, <1>11, <2>1, <2>2, <2>3 DEF load_cfg
  <2>5. shownLang' \in Translated
    BY <1>0, <1>11 DEF load_cfg, init_lang
  <2> QED BY <1>0, <1>11, <2>1, <2>2, <2>4, <2>5 DEF load_cfg, prefHistory
<1>12. CASE LoadThrows
  BY <1>0, <1>12 DEF LoadThrows, prefDisk, prefHistory
<1>13. CASE Ended
  <2>1. cfgJson[running].on \in SUBSET Options
    BY <1>0 DEF JsonFiles
  <2>2. chosen' \in [Versions -> SUBSET Options]
    BY <1>0, <1>2, <1>13, <2>1 DEF Ended
  <2> QED BY <1>0, <1>1, <1>13, <2>2 DEF Ended, prefDisk
<1>14. ASSUME NEW o \in Options, NEW on \in BOOLEAN, change_status(o, on) PROVE PrefTypeOK'
  <2>1. chosen[running] \cup {o} \in SUBSET Options /\ chosen[running] \ {o} \in SUBSET Options
    BY <1>0
  <2>2. chosen' \in [Versions -> SUBSET Options]
    BY <1>0, <1>2, <1>14, <2>1 DEF change_status
  <2>3. config' \subseteq Options
    BY <1>0, <1>14 DEF change_status, On
  <2> QED BY <1>0, <1>14, <2>2, <2>3 DEF change_status, prefDisk, PrefTypeOK, JsonFiles, IniFiles
<1>15. CASE Truncate
  <2>1. [state |-> "cut", on |-> {}] \in JsonFiles
    BY DEF JsonFiles
  <2>2. cfgJson' \in [Versions -> JsonFiles]
    BY <1>0, <1>2, <1>15, <2>1 DEF Truncate
  <2> QED BY <1>0, <1>15, <2>2 DEF Truncate, prefHistory
<1>16. CASE Fill
  <2>1. cfgJson' \in [Versions -> JsonFiles]
    BY <1>0, <1>2, <1>16 DEF Fill, Written
  <2> QED BY <1>0, <1>16, <2>1 DEF Fill, prefHistory
<1>17. CASE reset_cfg_json
  <2>1. cfgJson' \in [Versions -> JsonFiles] /\ chosen' \in [Versions -> SUBSET Options]
    BY <1>0, <1>1, <1>2, <1>17 DEF reset_cfg_json
  <2> QED BY <1>0, <1>1, <1>17, <2>1 DEF reset_cfg_json
<1>18. ASSUME NEW s \in Settings, ChangeSettings(s) PROVE PrefTypeOK'
  <2>1. [cfgIni[running] EXCEPT !.settings = s] \in IniFiles
    BY <1>0 DEF IniFiles
  <2>2. cfgIni' = [cfgIni EXCEPT ![running] = [cfgIni[running] EXCEPT !.settings = s]]
    BY <1>18 DEF ChangeSettings
  <2>3. cfgIni' \in [Versions -> IniFiles]
    BY <1>0, <1>2, <2>1, <2>2
  <2>4. shownLang' \in Translated
    BY <1>0, <1>18 DEF ChangeSettings
  <2> QED BY <1>0, <1>18, <2>3, <2>4 DEF ChangeSettings, PrefTypeOK, JsonFiles, IniFiles
<1>19. CASE PrefTypeOK'
  BY <1>19 DEF PrefTypeOK, JsonFiles, IniFiles
<1> QED
  BY <1>4, <1>5, <1>6, <1>7, <1>8, <1>9, <1>10, <1>11, <1>12, <1>13, <1>14, <1>15, <1>16, <1>17, <1>18, <1>19
     DEF PrefNext

\* What the steps of a start and of the settings page do, version by version.
LEMMA PrefEffects ==
  ASSUME PrefInv
  PROVE  /\ running \in Versions /\ running \in Nat
         /\ NothingToCopy => UNCHANGED <<cfgJson, cfgIni>>
         /\ BeginCopy =>
              /\ cfgIni'[running].state = "cut"
              /\ \A v \in Versions : v # running => cfgIni'[v] = cfgIni[v]
         /\ EndCopy =>
              /\ cfgIni'[running] = cfgIni[running - 1]
              /\ \A v \in Versions : v # running => cfgIni'[v] = cfgIni[v]
         /\ CopyFails => \A v \in Versions : v # running => cfgIni'[v] = cfgIni[v]
         /\ RemovePrevious =>
              /\ running - 1 \in Versions
              /\ cfgIni'[running - 1].state = "absent" /\ cfgJson'[running - 1].state = "absent"
              /\ chosen'[running - 1] = ShippedOn
              /\ \A v \in Versions : v # running - 1 =>
                   cfgIni'[v] = cfgIni[v] /\ cfgJson'[v] = cfgJson[v] /\ chosen'[v] = chosen[v]
         /\ load_cfg =>
              /\ cfgJson'[running].state = "whole" /\ config' = cfgJson'[running].on
              /\ cfgJson'[running].on =
                   IF cfgJson[running].state = "absent" THEN ShippedOn ELSE cfgJson[running].on
              /\ cfgIni'[running].state = "whole"
              /\ cfgIni'[running].settings =
                   IF cfgIni[running].state = "whole" THEN cfgIni[running].settings ELSE DefaultSettings
              /\ cfgIni'[running].settings.lang \in Translated =>
                   shownLang' = cfgIni'[running].settings.lang
              /\ \A v \in Versions : v # running => cfgIni'[v] = cfgIni[v] /\ cfgJson'[v] = cfgJson[v]
         /\ Truncate => /\ cfgJson'[running].state = "cut"
                        /\ \A v \in Versions : v # running => cfgJson'[v] = cfgJson[v]
         /\ Fill => /\ cfgJson'[running].state = "whole" /\ cfgJson'[running].on = config
                    /\ \A v \in Versions : v # running => cfgJson'[v] = cfgJson[v]
         /\ reset_cfg_json =>
              /\ cfgJson'[running].state = "absent" /\ chosen'[running] = ShippedOn
              /\ \A v \in Versions : v # running => cfgJson'[v] = cfgJson[v] /\ chosen'[v] = chosen[v]
         /\ \A s \in Settings : ChangeSettings(s) =>
              /\ cfgIni'[running].state = cfgIni[running].state /\ cfgIni'[running].settings = s
              /\ s.lang # cfgIni[running].settings.lang => shownLang' = LangShown(s.lang)
              /\ s.lang = cfgIni[running].settings.lang => shownLang' = shownLang
              /\ \A v \in Versions : v # running => cfgIni'[v] = cfgIni[v]
<1> USE PrefTypeFacts
<1>1. /\ cfgJson \in [Versions -> JsonFiles] /\ cfgIni \in [Versions -> IniFiles]
      /\ running \in Versions /\ chosen \in [Versions -> SUBSET Options] /\ config \subseteq Options
  BY DEF PrefInv, PrefTypeOK, JsonFiles, IniFiles
<1>2. running \in Nat /\ LastVersion \in Nat
  BY <1>1, PreferencesAssumption DEF Versions
<1>3. NothingToCopy => UNCHANGED <<cfgJson, cfgIni>>
  BY DEF NothingToCopy, prefDisk
<1>4. ASSUME BeginCopy
      PROVE  /\ cfgIni'[running].state = "cut"
             /\ \A v \in Versions : v # running => cfgIni'[v] = cfgIni[v]
  <2>1. [cfgIni[running] EXCEPT !.state = "cut"].state = "cut"
    BY <1>1 DEF IniFiles
  <2>2. cfgIni' = [cfgIni EXCEPT ![running] = [cfgIni[running] EXCEPT !.state = "cut"]]
    BY <1>4 DEF BeginCopy
  <2> QED BY <1>1, <2>1, <2>2
<1>5. ASSUME EndCopy
      PROVE  /\ cfgIni'[running] = cfgIni[running - 1]
             /\ \A v \in Versions : v # running => cfgIni'[v] = cfgIni[v]
  BY <1>1, <1>5 DEF EndCopy
<1>6. ASSUME CopyFails PROVE \A v \in Versions : v # running => cfgIni'[v] = cfgIni[v]
  BY <1>1, <1>6 DEF CopyFails
<1>7. ASSUME RemovePrevious
      PROVE  /\ running - 1 \in Versions
             /\ cfgIni'[running - 1].state = "absent" /\ cfgJson'[running - 1].state = "absent"
             /\ chosen'[running - 1] = ShippedOn
             /\ \A v \in Versions : v # running - 1 =>
                  cfgIni'[v] = cfgIni[v] /\ cfgJson'[v] = cfgJson[v] /\ chosen'[v] = chosen[v]
  <2>1. running - 1 \in Versions
    BY <1>1, <1>2, <1>7 DEF RemovePrevious, PrefInv, Versions
  <2>2. /\ cfgIni' = [cfgIni EXCEPT ![running - 1] = NoIni]
        /\ cfgJson' = [cfgJson EXCEPT ![running - 1] = NoJson]
        /\ chosen' = [chosen EXCEPT ![running - 1] = ShippedOn]
    BY <1>7 DEF RemovePrevious
  <2> QED BY <1>1, <2>1, <2>2
<1>8. ASSUME load_cfg
      PROVE  /\ cfgJson'[running].state = "whole" /\ config' = cfgJson'[running].on
             /\ cfgJson'[running].on =
                  IF cfgJson[running].state = "absent" THEN ShippedOn ELSE cfgJson[running].on
             /\ cfgIni'[running].state = "whole"
             /\ cfgIni'[running].settings =
                  IF cfgIni[running].state = "whole" THEN cfgIni[running].settings ELSE DefaultSettings
             /\ cfgIni'[running].settings.lang \in Translated =>
                  shownLang' = cfgIni'[running].settings.lang
             /\ \A v \in Versions : v # running => cfgIni'[v] = cfgIni[v] /\ cfgJson'[v] = cfgJson[v]
  <2> DEFINE json == IF cfgJson[running].state = "absent" THEN Whole(ShippedOn) ELSE cfgJson[running]
             ini == handle_settings(cfgIni[running])
  <2>1. cfgJson[running] \in JsonFiles /\ cfgJson[running].state \in {"absent", "whole"}
    BY <1>1, <1>8 DEF load_cfg, JsonFiles
  <2>2. json.state = "whole"
        /\ json.on = IF cfgJson[running].state = "absent" THEN ShippedOn ELSE cfgJson[running].on
    BY <2>1, PreferencesAssumption
  <2>3. ini.state = "whole"
        /\ ini.settings = IF cfgIni[running].state = "whole" THEN cfgIni[running].settings ELSE DefaultSettings
    BY <1>1
  <2>4. /\ cfgJson' = [cfgJson EXCEPT ![running] = json] /\ config' = json.on
        /\ cfgIni' = [cfgIni EXCEPT ![running] = ini]
        /\ shownLang' = LangShown(ini.settings.lang)
    BY <1>8 DEF load_cfg, init_lang
  <2> HIDE DEF json, ini
  <2>5. cfgJson'[running] = json /\ cfgIni'[running] = ini
    BY <1>1, <2>4
  <2>6. ini.settings.lang \in Translated => shownLang' = ini.settings.lang
    BY <2>4
  <2>7. \A v \in Versions : v # running => cfgIni'[v] = cfgIni[v] /\ cfgJson'[v] = cfgJson[v]
    BY <1>1, <2>4
  <2> QED BY <2>2, <2>3, <2>4, <2>5, <2>6, <2>7
<1>9. ASSUME Truncate
      PROVE  cfgJson'[running].state = "cut" /\ \A v \in Versions : v # running => cfgJson'[v] = cfgJson[v]
  BY <1>1, <1>9 DEF Truncate
<1>10. ASSUME Fill
       PROVE  /\ cfgJson'[running].state = "whole" /\ cfgJson'[running].on = config
              /\ \A v \in Versions : v # running => cfgJson'[v] = cfgJson[v]
  BY <1>1, <1>10 DEF Fill, Written
<1>11. ASSUME reset_cfg_json
       PROVE  /\ cfgJson'[running].state = "absent" /\ chosen'[running] = ShippedOn
              /\ \A v \in Versions : v # running => cfgJson'[v] = cfgJson[v] /\ chosen'[v] = chosen[v]
  BY <1>1, <1>11 DEF reset_cfg_json
<1>12. ASSUME NEW s \in Settings, ChangeSettings(s)
       PROVE  /\ cfgIni'[running].state = cfgIni[running].state /\ cfgIni'[running].settings = s
              /\ s.lang # cfgIni[running].settings.lang => shownLang' = LangShown(s.lang)
              /\ s.lang = cfgIni[running].settings.lang => shownLang' = shownLang
              /\ \A v \in Versions : v # running => cfgIni'[v] = cfgIni[v]
  <2>1. [cfgIni[running] EXCEPT !.settings = s].settings = s
        /\ [cfgIni[running] EXCEPT !.settings = s].state = cfgIni[running].state
    BY <1>1 DEF IniFiles
  <2>2. cfgIni' = [cfgIni EXCEPT ![running] = [cfgIni[running] EXCEPT !.settings = s]]
    BY <1>12 DEF ChangeSettings
  <2>3. cfgIni'[running] = [cfgIni[running] EXCEPT !.settings = s]
        /\ \A v \in Versions : v # running => cfgIni'[v] = cfgIni[v]
    BY <1>1, <2>2
  <2>4. shownLang' = IF s.lang # cfgIni[running].settings.lang THEN LangShown(s.lang) ELSE shownLang
    BY <1>12 DEF ChangeSettings
  <2> HIDE DEF LangShown
  <2> QED BY <2>1, <2>3, <2>4
<1> QED BY <1>1, <1>2, <1>3, <1>4, <1>5, <1>6, <1>7, <1>8, <1>9, <1>10, <1>11, <1>12

LEMMA PrefStep ==
  ASSUME PrefInv, [PrefNext]_prefVars
  PROVE  PrefInv'
<1> DEFINE Started == startPc \in {"copying", "remove"} => running > 1
           Rest == Started /\ JsonFits /\ NewerAbsent(running) /\ SettingsFit /\ LanguageFits
<1>1. PrefTypeOK'
  BY PrefTypesKept
<1>2. /\ PrefTypeOK /\ Started /\ JsonFits /\ NewerAbsent(running) /\ SettingsFit /\ LanguageFits
  BY DEF PrefInv
<1>3. /\ running \in Versions /\ running \in Nat /\ LastVersion \in Nat
      /\ startPc \in {"down", "settings", "copying", "remove", "load", "up", "truncate", "fill"}
      /\ excused \in BOOLEAN /\ chosen \in [Versions -> SUBSET Options]
  BY <1>2, PrefEffects, PreferencesAssumption DEF PrefTypeOK
<1>0. running \in Nat /\ \A v \in Versions : v \in Nat /\ (v > running => v # running)
  BY <1>3 DEF Versions
<1>4. ASSUME UNCHANGED prefVars PROVE Rest'
  BY <1>2, <1>4 DEF prefVars, prefDisk, prefHistory, JsonFits, NewerAbsent, SettingsFit, LanguageFits,
                    WantedAt, NothingStored
<1>5. ASSUME NEW u \in Versions, Start(u) PROVE Rest'
  <2>1. /\ startPc = "down" /\ startPc' = "settings" /\ running' = u /\ u >= running
        /\ UNCHANGED <<cfgJson, cfgIni, chosen, wanted, excused>>
    BY <1>5 DEF Start, prefDisk, prefHistory
  <2>2. u \in Nat /\ \A v \in Versions : v \in Nat
    BY DEF Versions
  <2>3. JsonFits'
    BY <1>2, <2>1 DEF JsonFits
  <2>4. NewerAbsent(running)'
    <3>1. \A v \in Versions : v > u => v > running
      BY <1>0, <2>1, <2>2
    <3> QED BY <1>2, <2>1, <3>1 DEF NewerAbsent
  <2>5. SettingsFit'
    <3>1. SUFFICES ASSUME ~excused
                   PROVE  NothingStored \/ \E h \in 1..u : WantedAt(h) /\ NewerAbsent(h)
      BY <2>1 DEF SettingsFit, NothingStored, WantedAt, NewerAbsent
    <3>2. NothingStored \/ \E h \in 1..running : WantedAt(h) /\ NewerAbsent(h)
      BY <1>2, <2>1, <3>1 DEF SettingsFit
    <3> QED BY <1>3, <2>1, <2>2, <3>2
  <2> QED BY <2>1, <2>3, <2>4, <2>5 DEF LanguageFits
<1>6. ASSUME NothingToCopy PROVE Rest'
  <2>1. /\ startPc = "settings" /\ startPc' = "load"
        /\ UNCHANGED <<cfgJson, cfgIni, config, shownLang, running, chosen, wanted>>
        /\ excused' = (excused \/ /\ cfgIni[running].state = "absent"
                                  /\ \E v \in Versions : cfgIni[v].state # "absent")
    BY <1>6 DEF NothingToCopy, prefDisk
  <2>2. ~ToBeCopied
    BY <1>6 DEF NothingToCopy
  <2>3. JsonFits' /\ NewerAbsent(running)'
    BY <1>2, <2>1 DEF JsonFits, NewerAbsent
  <2>4. ASSUME ~excused' PROVE WantedAt(running) \/ NothingStored
    <3>1. /\ ~excused
          /\ cfgIni[running].state # "absent" \/ \A v \in Versions : cfgIni[v].state = "absent"
      BY <2>1, <2>4
    <3>2. NothingStored \/ \E h \in 1..running : WantedAt(h) /\ NewerAbsent(h)
      BY <1>2, <2>1, <3>1 DEF SettingsFit
    <3>3. CASE NothingStored
      BY <3>3
    <3>4. CASE \E h \in 1..running : WantedAt(h) /\ NewerAbsent(h)
      <4>1. PICK h \in 1..running : WantedAt(h) /\ NewerAbsent(h)
        BY <3>4
      <4>2. h \in Versions
        BY <1>3, <4>1 DEF Versions
      <4>3. cfgIni[h].state = "whole"
        BY <4>1 DEF WantedAt
      <4>4. cfgIni[running].state # "absent"
        BY <3>1, <4>2, <4>3
      <4>5. ~(running > h)
        BY <1>3, <4>1, <4>4 DEF NewerAbsent
      <4>6. h = running
        BY <1>3, <4>5
      <4> QED BY <4>1, <4>6
    <3> QED BY <3>2, <3>3, <3>4
  <2>5. SettingsFit'
    BY <2>1, <2>4 DEF SettingsFit, WantedAt, NothingStored
  <2> QED BY <2>1, <2>3, <2>5 DEF LanguageFits
<1>7. ASSUME BeginCopy PROVE Rest'
  <2>1. /\ startPc = "settings" /\ startPc' = "copying" /\ ToBeCopied
        /\ UNCHANGED <<cfgJson, config, shownLang, running, chosen, wanted, excused>>
    BY <1>7 DEF BeginCopy, prefHistory
  <2>2. /\ cfgIni'[running].state = "cut"
        /\ \A v \in Versions : v # running => cfgIni'[v] = cfgIni[v]
    BY <1>7, PrefEffects
  <2>3. running > 1 /\ cfgIni[running - 1].state # "absent" /\ cfgIni[running].state = "absent"
        /\ running - 1 \in Versions
    BY <1>3, <2>1 DEF ToBeCopied, HasPrevious, Versions
  <2>4. JsonFits'
    BY <1>2, <2>1 DEF JsonFits
  <2>5. NewerAbsent(running)'
    BY <1>0, <1>2, <2>1, <2>2 DEF NewerAbsent
  <2>6. SettingsFit'
    <3>1. SUFFICES ASSUME ~excused
                   PROVE  WantedAt(running - 1)
      BY <1>3, <2>1, <2>2, <2>3 DEF SettingsFit, WantedAt
    <3>2. NothingStored \/ \E h \in 1..running : WantedAt(h) /\ NewerAbsent(h)
      BY <1>2, <2>1, <3>1 DEF SettingsFit
    <3>3. PICK h \in 1..running : WantedAt(h) /\ NewerAbsent(h)
      BY <2>3, <3>2 DEF NothingStored
    <3>4. h # running
      BY <2>3, <3>3 DEF WantedAt
    <3>5. ~(running - 1 > h)
      BY <2>3, <3>3 DEF NewerAbsent
    <3>6. h = running - 1
      BY <1>3, <3>4, <3>5
    <3> QED BY <3>3, <3>6
  <2> QED BY <2>1, <2>3, <2>4, <2>5, <2>6 DEF LanguageFits
<1>8. ASSUME EndCopy PROVE Rest'
  <2>1. /\ startPc = "copying" /\ startPc' = "remove"
        /\ UNCHANGED <<cfgJson, config, shownLang, running, chosen, wanted, excused>>
    BY <1>8 DEF EndCopy, prefHistory
  <2>2. /\ cfgIni'[running] = cfgIni[running - 1]
        /\ \A v \in Versions : v # running => cfgIni'[v] = cfgIni[v]
    BY <1>8, PrefEffects
  <2>3. JsonFits'
    BY <1>2, <2>1 DEF JsonFits
  <2>4. NewerAbsent(running)'
    <3>1. \A v \in Versions : v > running => cfgIni[v].state = "absent" /\ cfgIni'[v] = cfgIni[v]
      BY <1>0, <1>2, <2>2 DEF NewerAbsent
    <3> QED BY <2>1, <3>1 DEF NewerAbsent
  <2>5. SettingsFit'
    BY <1>2, <2>1, <2>2 DEF SettingsFit, WantedAt
  <2> QED BY <1>2, <2>1, <2>3, <2>4, <2>5 DEF LanguageFits
<1>9. ASSUME CopyFails PROVE Rest'
  <2>1. /\ startPc = "copying" /\ startPc' = "remove" /\ excused'
        /\ UNCHANGED <<cfgJson, config, shownLang, running, chosen, wanted>>
    BY <1>9 DEF CopyFails
  <2>2. \A v \in Versions : v # running => cfgIni'[v] = cfgIni[v]
    BY <1>9, PrefEffects
  <2>3. JsonFits'
    BY <1>2, <2>1 DEF JsonFits
  <2>4. NewerAbsent(running)'
    BY <1>0, <1>2, <2>1, <2>2 DEF NewerAbsent
  <2> QED BY <1>2, <2>1, <2>3, <2>4 DEF SettingsFit, LanguageFits
<1>10. ASSUME RemovePrevious PROVE Rest'
  <2>1. /\ startPc = "remove" /\ startPc' = "load"
        /\ UNCHANGED <<config, shownLang, running, wanted, excused>>
    BY <1>10 DEF RemovePrevious
  <2>2. /\ running - 1 \in Versions
        /\ cfgIni'[running - 1].state = "absent" /\ cfgJson'[running - 1].state = "absent"
        /\ chosen'[running - 1] = ShippedOn
        /\ \A v \in Versions : v # running - 1 =>
             cfgIni'[v] = cfgIni[v] /\ cfgJson'[v] = cfgJson[v] /\ chosen'[v] = chosen[v]
    BY <1>10, PrefEffects
  <2>3. running # running - 1
    BY <1>3
  <2>4. JsonFits'
    <3>1. ASSUME NEW v \in Versions
          PROVE  /\ cfgJson'[v].state = "absent" => chosen'[v] = ShippedOn
                 /\ cfgJson'[v].state = "whole" => chosen'[v] = cfgJson'[v].on
      BY <1>2, <2>1, <2>2 DEF JsonFits
    <3> QED BY <2>1, <3>1 DEF JsonFits
  <2>5. NewerAbsent(running)'
    BY <1>0, <1>2, <2>1, <2>2 DEF NewerAbsent
  <2>6. SettingsFit'
    BY <1>2, <1>3, <2>1, <2>2, <2>3 DEF SettingsFit, WantedAt
  <2> QED BY <2>1, <2>4, <2>5, <2>6 DEF LanguageFits
<1>11. ASSUME load_cfg PROVE Rest'
  <2>1. /\ startPc = "load" /\ startPc' = "up" /\ cfgJson[running].state # "cut"
        /\ UNCHANGED <<running, chosen, wanted, excused>>
    BY <1>11 DEF load_cfg, prefHistory
  <2>2. /\ cfgJson'[running].state = "whole" /\ config' = cfgJson'[running].on
        /\ cfgJson'[running].on =
             IF cfgJson[running].state = "absent" THEN ShippedOn ELSE cfgJson[running].on
        /\ cfgIni'[running].state = "whole"
        /\ cfgIni'[running].settings =
             IF cfgIni[running].state = "whole" THEN cfgIni[running].settings ELSE DefaultSettings
        /\ cfgIni'[running].settings.lang \in Translated =>
             shownLang' = cfgIni'[running].settings.lang
        /\ \A v \in Versions : v # running => cfgIni'[v] = cfgIni[v] /\ cfgJson'[v] = cfgJson[v]
    BY <1>11, PrefEffects
  <2>3. cfgJson[running].state \in {"absent", "whole"}
    BY <1>2, <1>3, <2>1 DEF PrefTypeOK
  <2>4. JsonFits'
    <3>1. chosen[running] = cfgJson'[running].on
      BY <1>2, <1>3, <2>1, <2>2, <2>3 DEF JsonFits
    <3>2. ASSUME NEW v \in Versions
          PROVE  /\ cfgJson'[v].state = "absent" => chosen'[v] = ShippedOn
                 /\ cfgJson'[v].state = "whole" => chosen'[v] = cfgJson'[v].on
      <4>1. CASE v = running
        BY <2>1, <2>2, <3>1, <4>1
      <4>2. CASE v # running
        BY <1>2, <2>1, <2>2, <4>2 DEF JsonFits
      <4> QED BY <4>1, <4>2
    <3> QED BY <2>1, <2>2, <3>1, <3>2 DEF JsonFits
  <2>5. NewerAbsent(running)'
    BY <1>0, <1>2, <2>1, <2>2 DEF NewerAbsent
  <2>6. SettingsFit'
    <3>1. SUFFICES ASSUME ~excused PROVE cfgIni'[running].settings = wanted
      BY <2>1, <2>2 DEF SettingsFit, WantedAt
    <3>2. WantedAt(running) \/ NothingStored
      BY <1>2, <2>1, <3>1 DEF SettingsFit
    <3> QED BY <1>3, <2>2, <3>2 DEF WantedAt, NothingStored
  <2>7. LanguageFits'
    BY <2>1, <2>2 DEF LanguageFits
  <2> QED BY <2>1, <2>4, <2>5, <2>6, <2>7
<1>12. ASSUME LoadThrows PROVE Rest'
  <2>1. /\ startPc = "load" /\ startPc' = "down"
        /\ UNCHANGED <<cfgJson, cfgIni, running, chosen, wanted, excused>>
    BY <1>12 DEF LoadThrows, prefDisk, prefHistory
  <2>2. JsonFits' /\ NewerAbsent(running)'
    BY <1>2, <2>1 DEF JsonFits, NewerAbsent
  <2>3. ASSUME ~excused PROVE NothingStored \/ \E h \in 1..running : WantedAt(h) /\ NewerAbsent(h)
    BY <1>2, <1>3, <2>1, <2>3 DEF SettingsFit, Versions
  <2>4. SettingsFit'
    BY <2>1, <2>3 DEF SettingsFit, NothingStored, WantedAt, NewerAbsent
  <2> QED BY <2>1, <2>2, <2>4 DEF LanguageFits
<1>13. ASSUME Ended PROVE Rest'
  <2>1. /\ startPc # "down" /\ startPc' = "down"
        /\ chosen' = (IF startPc = "truncate" THEN [chosen EXCEPT ![running] = cfgJson[running].on] ELSE chosen)
        /\ excused' = (excused \/ startPc = "copying")
        /\ UNCHANGED <<cfgJson, cfgIni, running, wanted>>
    BY <1>13 DEF Ended, prefDisk
  <2>2. JsonFits'
    <3>1. CASE startPc = "truncate"
      <4>1. chosen'[running] = cfgJson[running].on /\ cfgJson[running].state = "whole"
            /\ \A v \in Versions : v # running => chosen'[v] = chosen[v]
        BY <1>2, <1>3, <2>1, <3>1 DEF JsonFits
      <4>2. ASSUME NEW v \in Versions
            PROVE  /\ cfgJson[v].state = "absent" => chosen'[v] = ShippedOn
                   /\ cfgJson[v].state = "whole" => chosen'[v] = cfgJson[v].on
        BY <1>2, <4>1 DEF JsonFits
      <4> QED BY <2>1, <4>2 DEF JsonFits
    <3>2. CASE startPc # "truncate"
      BY <1>2, <2>1, <3>2 DEF JsonFits
    <3> QED BY <3>1, <3>2
  <2>3. NewerAbsent(running)'
    BY <1>2, <2>1 DEF NewerAbsent
  <2>4. ASSUME ~excused' PROVE NothingStored \/ \E h \in 1..running : WantedAt(h) /\ NewerAbsent(h)
    <3>1. ~excused /\ startPc # "copying"
      BY <2>1, <2>4
    <3>2. CASE startPc = "settings"
      BY <1>2, <3>1, <3>2 DEF SettingsFit
    <3>3. CASE startPc # "settings"
      <4>1. WantedAt(running) \/ NothingStored
        BY <1>2, <1>3, <2>1, <3>1, <3>3 DEF SettingsFit
      <4> QED BY <1>2, <1>3, <4>1 DEF Versions
    <3> QED BY <3>2, <3>3
  <2>5. SettingsFit'
    BY <2>1, <2>4 DEF SettingsFit, NothingStored, WantedAt, NewerAbsent
  <2> QED BY <2>1, <2>2, <2>3, <2>5 DEF LanguageFits
<1>14. ASSUME NEW o \in Options, NEW on \in BOOLEAN, change_status(o, on) PROVE Rest'
  <2>1. /\ startPc = "up" /\ startPc' = "truncate"
        /\ config' = IF on THEN config \cup {o} ELSE config \ {o}
        /\ chosen' = [chosen EXCEPT ![running] = IF on THEN @ \cup {o} ELSE @ \ {o}]
        /\ UNCHANGED <<cfgJson, cfgIni, shownLang, running, wanted, excused>>
    BY <1>14 DEF change_status, On, prefDisk
  <2>2. chosen'[running] = IF on THEN chosen[running] \cup {o} ELSE chosen[running] \ {o}
    BY <1>3, <2>1
  <2>3. \A v \in Versions : v # running => chosen'[v] = chosen[v]
    BY <1>3, <2>1
  <2>4. config = chosen[running] /\ cfgJson[running].state = "whole"
    BY <1>2, <2>1 DEF JsonFits
  <2>5. config' = chosen'[running]
    BY <2>1, <2>2, <2>4
  <2>6. JsonFits'
    <3>1. ASSUME NEW v \in Versions
          PROVE  /\ cfgJson[v].state = "absent" => chosen'[v] = ShippedOn
                 /\ cfgJson[v].state = "whole" /\ v # running => chosen'[v] = cfgJson[v].on
      BY <1>2, <2>1, <2>3, <2>4 DEF JsonFits
    <3> QED BY <2>1, <2>4, <2>5, <3>1 DEF JsonFits
  <2>7. NewerAbsent(running)' /\ SettingsFit' /\ LanguageFits'
    BY <1>2, <2>1 DEF NewerAbsent, SettingsFit, LanguageFits, WantedAt
  <2> QED BY <2>1, <2>6, <2>7
<1>15. ASSUME Truncate PROVE Rest'
  <2>1. /\ startPc = "truncate" /\ startPc' = "fill"
        /\ UNCHANGED <<cfgIni, config, shownLang, running, chosen, wanted, excused>>
    BY <1>15 DEF Truncate, prefHistory
  <2>2. cfgJson'[running].state = "cut" /\ \A v \in Versions : v # running => cfgJson'[v] = cfgJson[v]
    BY <1>15, PrefEffects
  <2>3. JsonFits'
    BY <1>2, <2>1, <2>2 DEF JsonFits
  <2>4. NewerAbsent(running)' /\ SettingsFit' /\ LanguageFits'
    BY <1>2, <2>1 DEF NewerAbsent, SettingsFit, LanguageFits, WantedAt
  <2> QED BY <2>1, <2>3, <2>4
<1>16. ASSUME Fill PROVE Rest'
  <2>1. /\ startPc = "fill" /\ startPc' = "up"
        /\ UNCHANGED <<cfgIni, config, shownLang, running, chosen, wanted, excused>>
    BY <1>16 DEF Fill, prefHistory
  <2>2. /\ cfgJson'[running].state = "whole" /\ cfgJson'[running].on = config
        /\ \A v \in Versions : v # running => cfgJson'[v] = cfgJson[v]
    BY <1>16, PrefEffects
  <2>3. JsonFits'
    BY <1>2, <2>1, <2>2 DEF JsonFits
  <2>4. NewerAbsent(running)' /\ SettingsFit' /\ LanguageFits'
    BY <1>2, <2>1 DEF NewerAbsent, SettingsFit, LanguageFits, WantedAt
  <2> QED BY <2>1, <2>3, <2>4
<1>17. ASSUME reset_cfg_json PROVE Rest'
  <2>1. /\ startPc = "up" /\ startPc' = "down"
        /\ UNCHANGED <<cfgIni, running, wanted, excused>>
    BY <1>17 DEF reset_cfg_json
  <2>2. /\ cfgJson'[running].state = "absent" /\ chosen'[running] = ShippedOn
        /\ \A v \in Versions : v # running => cfgJson'[v] = cfgJson[v] /\ chosen'[v] = chosen[v]
    BY <1>17, PrefEffects
  <2>3. JsonFits'
    <3>1. ASSUME NEW v \in Versions
          PROVE  /\ cfgJson'[v].state = "absent" => chosen'[v] = ShippedOn
                 /\ cfgJson'[v].state = "whole" => chosen'[v] = cfgJson'[v].on
      BY <1>2, <2>1, <2>2 DEF JsonFits
    <3> QED BY <2>1, <3>1 DEF JsonFits
  <2>4. NewerAbsent(running)'
    BY <1>2, <2>1 DEF NewerAbsent
  <2>5. ASSUME ~excused PROVE NothingStored \/ \E h \in 1..running : WantedAt(h) /\ NewerAbsent(h)
    BY <1>2, <1>3, <2>1, <2>5 DEF SettingsFit, Versions
  <2>6. SettingsFit'
    BY <2>1, <2>5 DEF SettingsFit, NothingStored, WantedAt, NewerAbsent
  <2> QED BY <2>1, <2>3, <2>4, <2>6 DEF LanguageFits
<1>18. ASSUME NEW s \in Settings, ChangeSettings(s) PROVE Rest'
  <2>1. /\ startPc = "up" /\ startPc' = "up" /\ wanted' = s
        /\ UNCHANGED <<cfgJson, config, running, chosen, excused>>
    BY <1>18 DEF ChangeSettings
  <2>2. /\ cfgIni'[running].state = cfgIni[running].state /\ cfgIni'[running].settings = s
        /\ s.lang # cfgIni[running].settings.lang => shownLang' = LangShown(s.lang)
        /\ s.lang = cfgIni[running].settings.lang => shownLang' = shownLang
        /\ \A v \in Versions : v # running => cfgIni'[v] = cfgIni[v]
    BY <1>18, PrefEffects
  <2>3. JsonFits'
    BY <1>2, <2>1 DEF JsonFits
  <2>4. NewerAbsent(running)'
    BY <1>0, <1>2, <2>1, <2>2 DEF NewerAbsent
  <2>5. SettingsFit'
    BY <1>2, <2>1, <2>2 DEF SettingsFit, WantedAt
  <2>6. LanguageFits'
    BY <1>2, <2>1, <2>2 DEF LanguageFits, LangShown
  <2> QED BY <2>1, <2>3, <2>4, <2>5, <2>6
<1>19. Rest'
  BY <1>4, <1>5, <1>6, <1>7, <1>8, <1>9, <1>10, <1>11, <1>12, <1>13, <1>14, <1>15, <1>16, <1>17, <1>18
     DEF PrefNext
<1> QED BY <1>1, <1>19 DEF PrefInv

\* In every version of the program, through ends, copies and changes: the options and
\* the language are those chosen, the settings come along but for the excuses the
\* property names, and the height of the sync date is near it (settings_page,
\* upgrade_cfg, check_settings_reconfiguration).
THEOREM PreferencesStayKept == PrefInit /\ [][PrefNext]_prefVars => []PreferencesAreKept
<1>1. PrefInv => PreferencesAreKept
  <2> SUFFICES ASSUME PrefInv PROVE PreferencesAreKept
    OBVIOUS
  <2>1. ChoicesSurvive
    BY DEF PrefInv, JsonFits, ChoicesSurvive
  <2>2. SettingsComeAlong
    BY DEF PrefInv, SettingsFit, WantedAt, SettingsComeAlong
  <2>3. LanguageIsShown
    BY DEF PrefInv, LanguageFits, LanguageIsShown
  <2>4. SyncHeightIsNear
    <3>1. cfgIni[running].settings.date \in Int
      BY PreferencesAssumption DEF PrefInv, PrefTypeOK, Settings
    <3>2. \A cp \in {c \in Checkpoints : c.height > 0} : cp \in Checkpoints /\ cp.height > 0
      OBVIOUS
    <3> QED BY <3>1, <3>2, HeightIsNear DEF SyncHeightIsNear
  <2> QED BY <2>1, <2>2, <2>3, <2>4 DEF PreferencesAreKept
<1>2. PrefInv /\ [PrefNext]_prefVars => PrefInv'
  BY PrefStep
<1> QED BY <1>1, <1>2, PrefInitInv, PTL

-----------------------------------------------------------------------------
(* The recipient of a sending: the inductive invariant.                    *)

Results == [of : Addresses, kind : {"none", "good", "convertible", "bad", "trouble"}]
Asks == [of : Addresses, nr : Nat, at : {"asked", "stored"}]
RecipientForms == [valid : BOOLEAN, convert : BOOLEAN, data : Results, needFix : BOOLEAN]

RecipientTypes ==
  /\ text \in Addresses /\ questions \in Nat
  /\ validations \subseteq Asks /\ validBusy \in BOOLEAN /\ result \in Results
  /\ overlapped \in BOOLEAN /\ validLost \in BOOLEAN
  /\ conversions \subseteq Asks /\ convertBusy \in BOOLEAN /\ converted \in Addresses
  /\ failedFix \in [of : Addresses, several : BOOLEAN, refused : BOOLEAN, edited : BOOLEAN]
  /\ seen \in RecipientForms /\ notices \in Seq({"valid", "convert"})
  /\ fixed \in [on : BOOLEAN, of : Addresses, excused : BOOLEAN, refused : BOOLEAN]

HasValid(s) == \E i \in 1..Len(s) : s[i] = "valid"
ResultFits ==
  result.of = text /\ (Verdict(text) # "good" => result.kind \in {"convertible", "bad", "trouble"})

\* Of a question that nothing disturbed: it is under way, or answered and the form has
\* the answer or a signal that will bring it.
ValidationFits ==
  text # "" /\ ~overlapped /\ ~validLost =>
    \/ /\ \E q \in validations : /\ validations = {q} /\ q.of = text
                                 /\ q.at = "stored" => ResultFits
       /\ validBusy /\ seen.valid
    \/ /\ validations = {} /\ ~validBusy /\ ResultFits
       /\ seen.valid => HasValid(notices)
       /\ ~seen.valid => seen.data = result

\* Of a conversion asked once and not refused: it is under way, lost, or stored.
ConversionFits ==
  /\ seen.convert \/ convertBusy => failedFix.of # ""
  /\ failedFix.of # "" /\ ~failedFix.several /\ ~failedFix.refused =>
       \/ /\ \E q \in conversions : /\ conversions = {q} /\ q.of = failedFix.of
                                    /\ q.at = "stored" => converted = Converted(failedFix.of)
          /\ convertBusy
       \/ conversions = {} /\ (~convertBusy => converted = Converted(failedFix.of))

RecipientInv == RecipientTypes /\ ValidationFits /\ ConversionFits /\ FixConverts

LEMMA HasValidFacts ==
  ASSUME NEW s \in Seq({"valid", "convert"})
  PROVE  /\ HasValid(Append(s, "valid"))
         /\ HasValid(s) => HasValid(Append(s, "convert")) /\ s # <<>>
         /\ s # <<>> /\ Head(s) # "valid" /\ HasValid(s) => HasValid(Tail(s))
         /\ s # <<>> => Tail(s) \in Seq({"valid", "convert"})
<1>1. Len(s) \in Nat /\ \A m \in {"valid", "convert"} :
        /\ Append(s, m) \in Seq({"valid", "convert"}) /\ Len(Append(s, m)) = Len(s) + 1
        /\ \A i \in 1..Len(s) : Append(s, m)[i] = s[i]
        /\ Append(s, m)[Len(s) + 1] = m
  BY AppendProperties, LenProperties
<1>2. HasValid(Append(s, "valid"))
  BY <1>1 DEF HasValid
<1>3. ASSUME HasValid(s) PROVE HasValid(Append(s, "convert")) /\ s # <<>>
  <2>1. PICK i \in 1..Len(s) : s[i] = "valid"
    BY <1>3 DEF HasValid
  <2>2. HasValid(Append(s, "convert"))
    <3>1. i \in 1..Len(Append(s, "convert")) /\ Append(s, "convert")[i] = "valid"
      BY <1>1, <2>1
    <3> QED BY <3>1 DEF HasValid
  <2>3. Len(<<>>) = 0
    BY EmptySeq
  <2> QED BY <1>1, <2>1, <2>2, <2>3
<1>4. ASSUME s # <<>> PROVE Tail(s) \in Seq({"valid", "convert"})
  BY <1>4, HeadTailProperties
<1>5. ASSUME s # <<>>, Head(s) # "valid", HasValid(s) PROVE HasValid(Tail(s))
  <2>1. PICK i \in 1..Len(s) : s[i] = "valid"
    BY <1>5 DEF HasValid
  <2>2. Head(s) = s[1] /\ Len(Tail(s)) = Len(s) - 1 /\ \A j \in 1..Len(Tail(s)) : Tail(s)[j] = s[j + 1]
    BY <1>5, HeadTailProperties
  <2>3. i # 1
    BY <1>5, <2>1, <2>2
  <2>4. i - 1 \in 1..Len(Tail(s)) /\ (i - 1) + 1 = i
    BY <1>1, <2>1, <2>2, <2>3
  <2>5. Tail(s)[i - 1] = "valid"
    BY <2>1, <2>2, <2>4
  <2> QED BY <2>4, <2>5 DEF HasValid
<1> QED BY <1>2, <1>3, <1>4, <1>5

LEMMA RecipientInitInv == RecipientInit => RecipientInv
<1> SUFFICES ASSUME RecipientInit PROVE RecipientInv
  OBVIOUS
<1>1. NoResult \in Results /\ NoResult.of = ""
  BY RecipientAssumption DEF NoResult, Results
<1>2. NewForm(FALSE, FALSE) \in RecipientForms /\ ~NewForm(FALSE, FALSE).convert
  BY <1>1 DEF NewForm, RecipientForms
<1>3. <<>> \in Seq({"valid", "convert"})
  BY EmptySeq
<1>4. /\ NoFix \in [on : BOOLEAN, of : Addresses, excused : BOOLEAN, refused : BOOLEAN] /\ ~NoFix.on
      /\ NoFailure \in [of : Addresses, several : BOOLEAN, refused : BOOLEAN, edited : BOOLEAN]
      /\ NoFailure.of = ""
  BY RecipientAssumption DEF NoFix, NoFailure
<1>5. RecipientTypes
  BY <1>1, <1>2, <1>3, <1>4, RecipientAssumption DEF RecipientTypes, RecipientInit
<1> QED BY <1>2, <1>4, <1>5 DEF RecipientInv, RecipientInit, ValidationFits, ConversionFits, FixConverts

\* A question about the address that is put into the field starts afresh.
LEMMA AskingStartsAfresh ==
  ASSUME RecipientTypes, NEW a \in Addresses, NEW given \in RecipientForms, validate_address(a, given)
  PROVE  /\ validations' \subseteq Asks /\ validBusy' = TRUE /\ overlapped' \in BOOLEAN
         /\ validLost' \in BOOLEAN /\ questions' \in Nat /\ result' = result
         /\ seen' \in RecipientForms /\ seen'.convert = given.convert
         /\ text' = a => ValidationFits'
<1> DEFINE q == [of |-> a, nr |-> questions, at |-> "asked"]
<1>1. q \in Asks /\ q.of = a /\ q.at = "asked"
  BY DEF RecipientTypes, Asks
<1>2. /\ validations' = validations \cup {q}
      /\ overlapped' = (validations # {}) /\ validLost' = (validLost /\ validBusy)
      /\ validBusy' = TRUE /\ questions' = questions + 1 /\ result' = result
      /\ seen' = [given EXCEPT !.valid = validBusy']
  BY DEF validate_address, Raised
<1> HIDE DEF q
<1>3. seen' \in RecipientForms /\ seen'.convert = given.convert /\ seen'.valid = TRUE
  BY <1>2 DEF RecipientForms
<1>4. ASSUME text' = a PROVE ValidationFits'
  <2>1. ~overlapped' => validations' = {q}
    BY <1>2
  <2> QED BY <1>1, <1>2, <1>3, <1>4, <2>1 DEF ValidationFits
<1> QED BY <1>1, <1>2, <1>3, <1>4 DEF RecipientTypes

LEMMA RecipientStep ==
  ASSUME RecipientInv, [RecipientNext]_recipientVars
  PROVE  RecipientInv'
<1>1. /\ RecipientTypes /\ ValidationFits /\ ConversionFits /\ FixConverts
  BY DEF RecipientInv
<1>2. /\ text \in Addresses /\ questions \in Nat
      /\ validations \subseteq Asks /\ validBusy \in BOOLEAN /\ result \in Results
      /\ overlapped \in BOOLEAN /\ validLost \in BOOLEAN
      /\ conversions \subseteq Asks /\ convertBusy \in BOOLEAN /\ converted \in Addresses
      /\ failedFix \in [of : Addresses, several : BOOLEAN, refused : BOOLEAN, edited : BOOLEAN]
      /\ seen \in RecipientForms /\ notices \in Seq({"valid", "convert"})
      /\ fixed \in [on : BOOLEAN, of : Addresses, excused : BOOLEAN, refused : BOOLEAN]
  BY <1>1 DEF RecipientTypes
<1>3. /\ NoFix \in [on : BOOLEAN, of : Addresses, excused : BOOLEAN, refused : BOOLEAN] /\ ~NoFix.on
  BY RecipientAssumption DEF NoFix
<1>4. \A m \in {"valid", "convert"} : Append(notices, m) \in Seq({"valid", "convert"})
  BY <1>2, AppendProperties
<1>5. ASSUME UNCHANGED recipientVars PROVE RecipientInv'
  <2>1. UNCHANGED <<text, validations, validBusy, result, overlapped, validLost, conversions, convertBusy,
                    converted, failedFix, seen, notices, fixed, questions>>
    BY <1>5 DEF recipientVars, validVars, fixVars
  <2>2. RecipientTypes'
    BY <1>1, <2>1 DEF RecipientTypes
  <2>3. ValidationFits'
    BY <1>1, <2>1 DEF ValidationFits, ResultFits
  <2>4. ConversionFits' /\ FixConverts'
    BY <1>1, <2>1 DEF ConversionFits, FixConverts
  <2> QED BY <2>2, <2>3, <2>4 DEF RecipientInv
<1>6. ASSUME NEW a \in Addresses, NEW given \in RecipientForms, given.convert = convertBusy \/ given.convert = seen.convert,
             text' = a, validate_address(a, given),
             fixed' = NoFix, failedFix' = [failedFix EXCEPT !.edited = convertBusy],
             UNCHANGED <<conversions, convertBusy, converted, notices>>
      PROVE  RecipientInv'
  <2>1. /\ validations' \subseteq Asks /\ validBusy' = TRUE /\ overlapped' \in BOOLEAN
        /\ validLost' \in BOOLEAN /\ questions' \in Nat /\ result' = result
        /\ seen' \in RecipientForms /\ seen'.convert = given.convert /\ ValidationFits'
    BY <1>1, <1>6, AskingStartsAfresh
  <2>2. /\ failedFix' \in [of : Addresses, several : BOOLEAN, refused : BOOLEAN, edited : BOOLEAN]
        /\ failedFix'.of = failedFix.of /\ failedFix'.several = failedFix.several
        /\ failedFix'.refused = failedFix.refused
    BY <1>2, <1>6
  <2>3. RecipientTypes'
    BY <1>2, <1>3, <1>6, <2>1, <2>2 DEF RecipientTypes
  <2>4. ConversionFits'
    BY <1>1, <1>6, <2>1, <2>2 DEF ConversionFits
  <2>5. FixConverts'
    BY <1>3, <1>6 DEF FixConverts
  <2> QED BY <2>1, <2>3, <2>4, <2>5 DEF RecipientInv
<1>7. ASSUME NEW a \in Addresses, Type(a) PROVE RecipientInv'
  <2>1. text' = a /\ validate_address(a, seen)
    BY <1>7 DEF Type, SetText
  <2> QED BY <1>2, <1>6, <1>7, <2>1 DEF Type
<1>8. ASSUME Reopen PROVE RecipientInv'
  <2>1. NoResult \in Results
    BY RecipientAssumption DEF NoResult, Results
  <2>2. NewForm(TRUE, convertBusy) \in RecipientForms /\ NewForm(TRUE, convertBusy).convert = convertBusy
    BY <1>2, <2>1 DEF NewForm, RecipientForms
  <2> QED BY <1>6, <1>8, <2>2, RecipientAssumption DEF Reopen
<1>9. ASSUME convert_address PROVE RecipientInv'
  <2> DEFINE q == [of |-> text, nr |-> questions, at |-> "asked"]
  <2>1. q \in Asks /\ q.of = text /\ q.at = "asked"
    BY <1>2 DEF Asks
  <2>2. /\ text # "" /\ conversions' = conversions \cup {q} /\ convertBusy' = TRUE
        /\ questions' = questions + 1 /\ seen' = [seen EXCEPT !.convert = TRUE] /\ fixed' = NoFix
        /\ failedFix' = [of |-> text, several |-> conversions # {} \/ convertBusy,
                         refused |-> failedFix.refused /\ convertBusy, edited |-> FALSE]
        /\ UNCHANGED <<text, validations, validBusy, result, overlapped, validLost, converted, notices>>
    BY <1>9 DEF convert_address, validVars
  <2> HIDE DEF q
  <2>3. seen' \in RecipientForms /\ seen'.valid = seen.valid /\ seen'.data = seen.data
    BY <1>2, <2>2 DEF RecipientForms
  <2>4. /\ failedFix' \in [of : Addresses, several : BOOLEAN, refused : BOOLEAN, edited : BOOLEAN]
        /\ failedFix'.of = text /\ (~failedFix'.several => conversions = {})
    BY <1>2, <2>2
  <2>5. RecipientTypes'
    <3>0. /\ conversions' = conversions \cup {q} /\ questions' = questions + 1 /\ convertBusy' = TRUE
          /\ conversions \subseteq Asks /\ questions \in Nat /\ q \in Asks
      BY <1>2, <2>1, <2>2
    <3>1. conversions' \subseteq Asks /\ questions' \in Nat /\ convertBusy' \in BOOLEAN
      BY <3>0
    <3>2. /\ text' \in Addresses /\ validations' \subseteq Asks /\ validBusy' \in BOOLEAN /\ result' \in Results
          /\ overlapped' \in BOOLEAN /\ validLost' \in BOOLEAN /\ converted' \in Addresses
          /\ notices' \in Seq({"valid", "convert"})
      BY <1>2, <2>2
    <3>3. fixed' \in [on : BOOLEAN, of : Addresses, excused : BOOLEAN, refused : BOOLEAN]
      BY <1>3, <2>2
    <3> QED BY <2>3, <2>4, <3>1, <3>2, <3>3 DEF RecipientTypes
  <2>6. ValidationFits'
    BY <1>1, <2>2, <2>3 DEF ValidationFits, ResultFits
  <2>7. ConversionFits'
    BY <2>1, <2>2, <2>4 DEF ConversionFits
  <2>8. FixConverts'
    BY <1>3, <2>2 DEF FixConverts
  <2> QED BY <2>5, <2>6, <2>7, <2>8 DEF RecipientInv
<1>10. ASSUME ValidNotice PROVE RecipientInv'
  <2>1. /\ notices # <<>> /\ Head(notices) = "valid" /\ notices' = Tail(notices)
        /\ seen' = (IF seen.valid /\ ~validBusy
                    THEN [seen EXCEPT !.valid = FALSE, !.data = result,
                                      !.needFix = (result.kind = "convertible")]
                    ELSE [seen EXCEPT !.valid = validBusy])
        /\ UNCHANGED <<text, validations, validBusy, result, overlapped, validLost, conversions, convertBusy,
                       converted, failedFix, fixed, questions>>
    BY <1>10 DEF ValidNotice, validVars, fixVars
  <2>2. notices' \in Seq({"valid", "convert"})
    BY <1>2, <2>1, HasValidFacts
  <2>3. /\ seen' \in RecipientForms /\ seen'.convert = seen.convert /\ seen'.valid = validBusy
        /\ seen'.data = IF seen.valid /\ ~validBusy THEN result ELSE seen.data
    <3>1. CASE seen.valid /\ ~validBusy
      BY <1>2, <2>1, <3>1 DEF RecipientForms
    <3>2. CASE ~(seen.valid /\ ~validBusy)
      BY <1>2, <2>1, <3>2 DEF RecipientForms
    <3> QED BY <3>1, <3>2
  <2>4. RecipientTypes'
    BY <1>2, <2>1, <2>2, <2>3 DEF RecipientTypes
  <2>5. ValidationFits'
    BY <1>1, <1>2, <2>1, <2>3 DEF ValidationFits, ResultFits
  <2>6. ConversionFits' /\ FixConverts'
    BY <1>1, <2>1, <2>3 DEF ConversionFits, FixConverts
  <2> QED BY <2>4, <2>5, <2>6 DEF RecipientInv
<1>11. ASSUME ConvertNotice PROVE RecipientInv'
  <2>1. /\ notices # <<>> /\ Head(notices) = "convert" /\ notices' = Tail(notices)
        /\ UNCHANGED <<conversions, convertBusy, converted, failedFix>>
    BY <1>11 DEF ConvertNotice, fixVars
  <2>2. notices' \in Seq({"valid", "convert"}) /\ (HasValid(notices) => HasValid(notices'))
    BY <1>2, <2>1, HasValidFacts
  <2>3. CASE seen.convert /\ ~convertBusy /\ seen.needFix
    <3> DEFINE given == [seen EXCEPT !.convert = FALSE, !.needFix = FALSE]
    <3>1. /\ SetText(converted, given)
          /\ fixed' = [on |-> TRUE, of |-> failedFix.of, refused |-> failedFix.refused,
                       excused |-> failedFix.several \/ failedFix.edited]
      BY <1>11, <2>3 DEF ConvertNotice
    <3>2. given \in RecipientForms /\ ~given.convert /\ given.valid = seen.valid /\ given.data = seen.data
      BY <1>2 DEF RecipientForms
    <3> HIDE DEF given
    <3>3. /\ text' = converted /\ seen' \in RecipientForms /\ ~seen'.convert /\ ValidationFits'
          /\ validations' \subseteq Asks /\ validBusy' \in BOOLEAN /\ overlapped' \in BOOLEAN
          /\ validLost' \in BOOLEAN /\ questions' \in Nat /\ result' = result
      <4>1. CASE converted = text
        <5>1. /\ seen' = given
              /\ UNCHANGED <<text, validations, validBusy, result, overlapped, validLost, questions>>
          BY <3>1, <4>1 DEF SetText, validVars
        <5>2. ValidationFits'
          BY <1>1, <2>2, <3>2, <5>1 DEF ValidationFits, ResultFits
        <5> QED BY <1>2, <3>2, <4>1, <5>1, <5>2
      <4>2. CASE converted # text
        <5>1. text' = converted /\ validate_address(converted, given)
          BY <3>1, <4>2 DEF SetText
        <5> QED BY <1>1, <1>2, <3>2, <5>1, AskingStartsAfresh
      <4> QED BY <4>1, <4>2
    <3>4. /\ fixed' \in [on : BOOLEAN, of : Addresses, excused : BOOLEAN, refused : BOOLEAN]
          /\ fixed'.of = failedFix.of /\ fixed'.refused = failedFix.refused
          /\ fixed'.excused = (failedFix.several \/ failedFix.edited)
      BY <1>2, <3>1
    <3>5. RecipientTypes'
      BY <1>2, <2>1, <2>2, <3>3, <3>4 DEF RecipientTypes
    <3>6. ConversionFits'
      BY <1>1, <2>1, <2>3, <3>3 DEF ConversionFits
    <3>7. FixConverts'
      BY <1>1, <2>3, <3>3, <3>4 DEF ConversionFits, FixConverts
    <3> QED BY <3>3, <3>5, <3>6, <3>7 DEF RecipientInv
  <2>4. CASE ~(seen.convert /\ ~convertBusy /\ seen.needFix)
    <3>1. /\ seen' = [seen EXCEPT !.convert = convertBusy]
          /\ UNCHANGED <<text, validations, validBusy, result, overlapped, validLost, fixed, questions>>
      BY <1>11, <2>4 DEF ConvertNotice, validVars
    <3>2. seen' \in RecipientForms /\ seen'.convert = convertBusy /\ seen'.valid = seen.valid /\ seen'.data = seen.data
      BY <1>2, <3>1 DEF RecipientForms
    <3>3. RecipientTypes'
      BY <1>2, <2>1, <2>2, <3>1, <3>2 DEF RecipientTypes
    <3>4. ValidationFits'
      BY <1>1, <2>2, <3>1, <3>2 DEF ValidationFits, ResultFits
    <3>5. ConversionFits' /\ FixConverts'
      BY <1>1, <2>1, <3>1, <3>2 DEF ConversionFits, FixConverts
    <3> QED BY <3>3, <3>4, <3>5 DEF RecipientInv
  <2> QED BY <2>3, <2>4
<1>12. ASSUME NEW q \in validations, ValidateAnswered(q) PROVE RecipientInv'
  <2> DEFINE now == [q EXCEPT !.at = "stored"]
  <2>1. now \in Asks /\ now.of = q.of /\ q.of \in Addresses
    BY <1>2 DEF Asks
  <2>2. validations' = (validations \ {q}) \cup {now}
        /\ UNCHANGED <<text, validBusy, overlapped, validLost, conversions, convertBusy,
                       converted, failedFix, seen, notices, fixed, questions>>
    BY <1>12 DEF ValidateAnswered, fixVars
  <2>3. PICK kind \in {Verdict(q.of), "trouble"} : result' = [of |-> q.of, kind |-> kind]
    BY <1>12 DEF ValidateAnswered, Stored
  <2> HIDE DEF now
  <2>4. Verdict(q.of) \in {"good", "convertible", "bad"}
    BY <2>1, RecipientAssumption
  <2>5. /\ result' \in Results /\ result'.of = q.of
        /\ Verdict(q.of) # "good" => result'.kind \in {"convertible", "bad", "trouble"}
    BY <2>1, <2>3, <2>4 DEF Results
  <2>6. RecipientTypes'
    BY <1>2, <2>1, <2>2, <2>5 DEF RecipientTypes
  <2>7. ValidationFits'
    <3>1. SUFFICES ASSUME text # "", ~overlapped, ~validLost
                   PROVE  /\ validations' = {now} /\ now.of = text /\ ResultFits'
                          /\ validBusy /\ seen.valid
      BY <2>2 DEF ValidationFits
    <3>2. validations = {q} /\ q.of = text /\ validBusy /\ seen.valid
      BY <1>1, <1>12, <3>1 DEF ValidationFits
    <3>3. ResultFits'
      BY <2>2, <2>5, <3>2 DEF ResultFits
    <3> QED BY <2>1, <2>2, <3>2, <3>3
  <2>8. ConversionFits' /\ FixConverts'
    BY <1>1, <2>2 DEF ConversionFits, FixConverts
  <2> QED BY <2>6, <2>7, <2>8 DEF RecipientInv
<1>13. ASSUME NEW q \in validations, ValidateEnds(q) PROVE RecipientInv'
  <2>1. /\ q.at = "stored" /\ validations' = validations \ {q} /\ validBusy' = FALSE
        /\ notices' = (IF validBusy THEN Append(notices, "valid") ELSE notices)
        /\ UNCHANGED <<text, result, overlapped, validLost, conversions, convertBusy,
                       converted, failedFix, seen, fixed, questions>>
    BY <1>13 DEF ValidateEnds, fixVars
  <2>2. RecipientTypes'
    BY <1>2, <1>4, <2>1 DEF RecipientTypes
  <2>3. ValidationFits'
    <3>1. SUFFICES ASSUME text # "", ~overlapped, ~validLost
                   PROVE  validations' = {} /\ ResultFits /\ seen.valid /\ HasValid(notices')
      BY <2>1 DEF ValidationFits, ResultFits
    <3>2. validations = {q} /\ ResultFits /\ validBusy /\ seen.valid
      BY <1>1, <1>13, <2>1, <3>1 DEF ValidationFits
    <3>3. HasValid(notices')
      BY <1>2, <2>1, <3>2, HasValidFacts
    <3> QED BY <2>1, <3>2, <3>3
  <2>4. ConversionFits' /\ FixConverts'
    BY <1>1, <2>1 DEF ConversionFits, FixConverts
  <2> QED BY <2>2, <2>3, <2>4 DEF RecipientInv
<1>14. ASSUME NEW q \in validations, ValidateLost(q) PROVE RecipientInv'
  <2>1. /\ validations' = validations \ {q} /\ validLost' = TRUE
        /\ UNCHANGED <<text, validBusy, result, overlapped, conversions, convertBusy,
                       converted, failedFix, seen, notices, fixed, questions>>
    BY <1>14 DEF ValidateLost, fixVars
  <2>2. RecipientTypes'
    BY <1>2, <2>1 DEF RecipientTypes
  <2> QED BY <1>1, <2>1, <2>2 DEF RecipientInv, ValidationFits, ConversionFits, FixConverts
<1>15. ASSUME NEW q \in conversions, ConvertAnswered(q) PROVE RecipientInv'
  <2> DEFINE now == [q EXCEPT !.at = "stored"]
  <2>1. now \in Asks /\ now.of = q.of /\ q.of \in Addresses
    BY <1>2 DEF Asks
  <2>2. /\ conversions' = (conversions \ {q}) \cup {now}
        /\ \/ Verdict(q.of) = "convertible" /\ converted' = Converted(q.of) /\ UNCHANGED failedFix
           \/ failedFix' = [failedFix EXCEPT !.refused = TRUE] /\ UNCHANGED converted
        /\ UNCHANGED <<text, validations, validBusy, result, overlapped, validLost, convertBusy,
                       seen, notices, fixed, questions>>
    BY <1>15 DEF ConvertAnswered, FieldAfter, validVars
  <2> HIDE DEF now
  <2>3. /\ failedFix' \in [of : Addresses, several : BOOLEAN, refused : BOOLEAN, edited : BOOLEAN]
        /\ failedFix'.of = failedFix.of
        /\ failedFix'.refused \/ (failedFix' = failedFix /\ converted' = Converted(q.of))
    BY <1>2, <2>2
  <2>4. converted' \in Addresses
    BY <1>2, <2>1, <2>2, RecipientAssumption
  <2>5. RecipientTypes'
    BY <1>2, <2>1, <2>2, <2>3, <2>4 DEF RecipientTypes
  <2>6. ValidationFits' /\ FixConverts'
    BY <1>1, <2>2 DEF ValidationFits, ResultFits, FixConverts
  <2>7. ConversionFits'
    <3>1. seen'.convert \/ convertBusy' => failedFix'.of # ""
      BY <1>1, <2>2, <2>3 DEF ConversionFits
    <3>2. ASSUME failedFix'.of # "", ~failedFix'.several, ~failedFix'.refused
          PROVE  /\ conversions' = {now} /\ now.of = failedFix'.of
                 /\ converted' = Converted(failedFix'.of) /\ convertBusy'
      <4>1. failedFix' = failedFix /\ converted' = Converted(q.of)
        BY <2>3, <3>2
      <4>2. conversions = {q} /\ q.of = failedFix.of /\ convertBusy
        BY <1>1, <1>15, <3>2, <4>1 DEF ConversionFits
      <4> QED BY <2>1, <2>2, <4>1, <4>2
    <3> QED BY <3>1, <3>2 DEF ConversionFits
  <2> QED BY <2>5, <2>6, <2>7 DEF RecipientInv
<1>16. ASSUME NEW q \in conversions, ConvertEnds(q) PROVE RecipientInv'
  <2>1. /\ q.at = "stored" /\ conversions' = conversions \ {q} /\ convertBusy' = FALSE
        /\ notices' = (IF convertBusy THEN Append(notices, "convert") ELSE notices)
        /\ UNCHANGED <<text, validations, validBusy, result, overlapped, validLost,
                       converted, failedFix, seen, fixed, questions>>
    BY <1>16 DEF ConvertEnds, validVars
  <2>2. RecipientTypes'
    BY <1>2, <1>4, <2>1 DEF RecipientTypes
  <2>3. HasValid(notices) => HasValid(notices')
    BY <1>2, <2>1, HasValidFacts
  <2>4. ValidationFits' /\ FixConverts'
    BY <1>1, <2>1, <2>3 DEF ValidationFits, ResultFits, FixConverts
  <2>5. ConversionFits'
    BY <1>1, <1>16, <2>1 DEF ConversionFits
  <2> QED BY <2>2, <2>4, <2>5 DEF RecipientInv
<1>17. ASSUME NEW q \in conversions, ConvertLost(q) PROVE RecipientInv'
  <2>1. /\ conversions' = conversions \ {q}
        /\ q.at = "asked"
        /\ UNCHANGED <<text, validations, validBusy, result, overlapped, validLost, convertBusy,
                       converted, failedFix, seen, notices, fixed, questions>>
    BY <1>17 DEF ConvertLost, validVars
  <2>2. RecipientTypes'
    BY <1>2, <2>1 DEF RecipientTypes
  <2>3. ValidationFits' /\ FixConverts'
    BY <1>1, <2>1 DEF ValidationFits, ResultFits, FixConverts
  <2>4. ConversionFits'
    BY <1>1, <1>17, <2>1 DEF ConversionFits
  <2> QED BY <2>2, <2>3, <2>4 DEF RecipientInv
<1> QED
  BY <1>5, <1>7, <1>8, <1>9, <1>10, <1>11, <1>12, <1>13, <1>14, <1>15, <1>16, <1>17 DEF RecipientNext

\* With nothing under way the form has the verdict of what is in its field, no wrong
\* address can be sent to, and Fix puts the conversion into the field, but for the
\* excuses the properties name (validate_address, convert_address, SendModal).
THEOREM VerdictAlwaysHolds == RecipientInit /\ [][RecipientNext]_recipientVars => []VerdictHolds
<1>1. RecipientInv => VerdictHolds
  <2> SUFFICES ASSUME RecipientInv PROVE VerdictHolds
    OBVIOUS
  <2>1. ASSUME AtRest, ~overlapped, ~validLost, text # "" PROVE seen.data = result /\ ResultFits
    <3>1. Len(<<>>) = 0 /\ ~HasValid(<<>>)
      BY EmptySeq DEF HasValid
    <3> QED BY <2>1, <3>1 DEF RecipientInv, ValidationFits, AtRest
  <2> QED BY <2>1 DEF VerdictHolds, VerdictIsOfTheTyped, WrongIsNotSent, ErrorView, ResultFits, RecipientInv
<1>2. RecipientInv /\ [RecipientNext]_recipientVars => RecipientInv'
  BY RecipientStep
<1> QED BY <1>1, <1>2, RecipientInitInv, PTL

-----------------------------------------------------------------------------
(* The lists of the trading view: the inductive invariant.                 *)

Statuses == {"open", "active", "done"}
RowSets == UNION {[D -> Statuses] : D \in SUBSET Items}
AskedInfos == [from : Nat, to : Nat, pattern : Patterns]

HfTypes ==
  /\ stage \in [Items -> {"none", "open", "active", "done"}] /\ tab \in Tabs
  /\ tabChoice \in [Tabs -> TabChoices] /\ timers \subseteq Tabs /\ proxy \in TabChoices
  /\ applicable \in BOOLEAN /\ simple \in BOOLEAN /\ follows \in BOOLEAN
  /\ oldReply \in BOOLEAN /\ onlyStored \in BOOLEAN /\ lateTimer \in BOOLEAN
  /\ mdl \in [rows : RowSets, infos : AskedInfos]
  /\ snap \in [rows : RowSets, infos : AskedInfos, finished : Nat, active : Nat, total : Nat]
  /\ batches \subseteq AskedInfos
  /\ exporting \in [limit : Nat, infos : AskedInfos \cup {NoInfos}, due : SUBSET Items,
                    seen : SUBSET Items, excused : BOOLEAN, on : BOOLEAN]
  /\ csv \in [ids : SUBSET Items, due : SUBSET Items, excused : BOOLEAN]

\* But for a late timer the proxy is set as the boxes of the tab in front.
ProxyIsTheTabs == ~lateTimer => proxy = tabChoice[tab]

\* What a set of rows shows as finished passes a filter.
DonePass(rows, infos) == \A i \in DOMAIN rows : rows[i] = "done" => DaemonPasses(infos, i)

RowsPass == ~oldReply => DonePass(mdl.rows, snap.infos)
SnapPasses == DonePass(snap.rows, snap.infos)
SnapCounts == snap.finished = Finished(snap.total, snap.active)

\* What the daemon is asked for in the history is what its boxes show.
HistoryIsAsked ==
  tab = "history" /\ ~applicable /\ ~lateTimer /\ ~onlyStored /\ ~oldReply =>
    snap.infos = InfosOf(tabChoice["history"])

\* What was due to the exporter when it asked stays due, and it asked for enough.
ExportCounts ==
  exporting.on =>
    /\ \A i \in exporting.due : stage[i] = "done" /\ DaemonPasses(exporting.infos, i)
    /\ ~exporting.excused => exporting.limit = Cardinality(exporting.seen)

Listing == RowsPass /\ SnapPasses /\ SnapCounts
Exports == ExportCounts /\ ExportIsComplete
HfInv == HfTypes /\ ProxyIsTheTabs /\ Listing /\ HistoryIsAsked /\ Exports

LEMMA ItemsAreFinite ==
  ASSUME NEW S \in SUBSET Items
  PROVE  IsFiniteSet(S) /\ Cardinality(S) \in Nat
<1>1. IsFiniteSet(S)
  BY FS_Subset, HistoryFilterAssumption DEF HistoryFilterAssumption
<1> QED BY <1>1, FS_CardinalityType

LEMMA NumbersOfItems == Items \subseteq Nat
  BY ItemsAreFinite, HistoryFilterAssumption DEF HistoryFilterAssumption

LEMMA InfosType == ASSUME NEW choice \in TabChoices PROVE InfosOf(choice) \in AskedInfos
<1>1. choice.dates \in Nat \X Nat /\ choice.pattern \in Patterns
  BY HistoryFilterAssumption DEF HistoryFilterAssumption, TabChoices
<1> QED BY <1>1 DEF InfosOf, AskedInfos

LEMMA NoRowsType == NoRows \in RowSets /\ DOMAIN NoRows = {}
<1>1. NoRows \in [{} -> Statuses] /\ DOMAIN NoRows = {}
  BY DEF NoRows
<1> QED BY <1>1 DEF RowSets

LEMMA RowSetsAre ==
  ASSUME NEW D \in SUBSET Items, NEW f \in [D -> Statuses]
  PROVE  f \in RowSets
  BY DEF RowSets

LEMMA RowSetsHave ==
  ASSUME NEW f \in RowSets
  PROVE  DOMAIN f \subseteq Items /\ f \in [DOMAIN f -> Statuses]
  BY DEF RowSets

\* What set_filtering_infos does in the history, and outside it.
LEMMA ApplyEffects ==
  ASSUME HfTypes, NEW history \in BOOLEAN, NEW choice \in TabChoices,
         apply_all_filtering(history, choice)
  PROVE  /\ mdl' \in [rows : RowSets, infos : AskedInfos]
         /\ snap' \in [rows : RowSets, infos : AskedInfos, finished : Nat, active : Nat, total : Nat]
         /\ batches' \subseteq AskedInfos
         /\ applicable' = FALSE /\ oldReply' \in BOOLEAN /\ onlyStored' \in BOOLEAN
         /\ history => /\ mdl'.rows = NoRows /\ snap' = Emptied(InfosOf(choice))
                       /\ ~oldReply' /\ ~onlyStored'
         /\ ~history => /\ mdl'.rows = mdl.rows /\ snap' = snap /\ oldReply' = oldReply
                        /\ (~onlyStored' => InfosOf(choice) = snap.infos)
<1> DEFINE infos == InfosOf(choice)
<1>1. infos \in AskedInfos
  BY InfosType
<1>2. applicable' = FALSE /\ set_filtering_infos(history, infos)
  BY DEF apply_all_filtering
<1> HIDE DEF infos
<1>3. CASE history
  <2>1. /\ mdl' = [rows |-> NoRows, infos |-> infos] /\ snap' = Emptied(infos)
        /\ batches' = batches \cup {infos} /\ oldReply' = FALSE /\ onlyStored' = FALSE
    BY <1>2, <1>3 DEF set_filtering_infos
  <2>2. Emptied(infos) \in [rows : RowSets, infos : AskedInfos, finished : Nat, active : Nat, total : Nat]
    BY <1>1, NoRowsType DEF Emptied
  <2> QED BY <1>1, <1>2, <1>3, <2>1, <2>2, NoRowsType DEF HfTypes, infos
<1>4. CASE ~history
  <2>1. /\ mdl' = [mdl EXCEPT !.infos = infos] /\ onlyStored' = (infos # snap.infos)
        /\ UNCHANGED <<snap, batches, oldReply>>
    BY <1>2, <1>4 DEF set_filtering_infos
  <2>2. mdl' \in [rows : RowSets, infos : AskedInfos] /\ mdl'.rows = mdl.rows
    BY <1>1, <2>1 DEF HfTypes
  <2> QED BY <1>2, <1>4, <2>1, <2>2 DEF HfTypes, infos
<1> QED BY <1>3, <1>4

LEMMA ApplyListing ==
  ASSUME HfTypes, Listing, NEW history \in BOOLEAN, NEW choice \in TabChoices,
         apply_all_filtering(history, choice)
  PROVE  Listing'
<1>1. CASE history
  <2>1. mdl'.rows = NoRows /\ snap' = Emptied(InfosOf(choice))
    BY <1>1, ApplyEffects
  <2>2. snap'.rows = NoRows /\ snap'.finished = 0 /\ snap'.total = 0 /\ snap'.active = 0
    BY <2>1 DEF Emptied
  <2>3. Finished(0, 0) = 0
    BY DEF Finished
  <2> QED BY <2>1, <2>2, <2>3, NoRowsType DEF Listing, RowsPass, SnapPasses, SnapCounts, DonePass, Finished
<1>2. CASE ~history
  <2>1. mdl'.rows = mdl.rows /\ snap' = snap /\ oldReply' = oldReply
    BY <1>2, ApplyEffects
  <2> QED BY <2>1 DEF Listing, RowsPass, SnapPasses, SnapCounts, DonePass, Finished, DaemonPasses, Huge, CoinMatches
<1> QED BY <1>1, <1>2

LEMMA ExportsKept ==
  ASSUME HfTypes, Exports, UNCHANGED <<exporting, csv>>,
         \A i \in Items : stage[i] = "done" => stage'[i] = "done"
  PROVE  Exports'
  BY DEF HfTypes, Exports, ExportCounts, ExportIsComplete, DaemonPasses, CoinMatches

LEMMA ListingKept ==
  ASSUME Listing, UNCHANGED <<mdl, snap, oldReply>>
  PROVE  Listing'
  BY DEF Listing, RowsPass, SnapPasses, SnapCounts, DonePass, DaemonPasses, CoinMatches, Finished, Huge

LEMMA HfStart == HfInit => HfInv
<1> SUFFICES ASSUME HfInit PROVE HfInv
  OBVIOUS
<1>1. FirstChoice \in TabChoices /\ InfosOf(FirstChoice) \in AskedInfos
  BY InfosType, HistoryFilterAssumption DEF HistoryFilterAssumption, TabChoices
<1>2. mdl \in [rows : RowSets, infos : AskedInfos]
  BY <1>1, NoRowsType DEF HfInit
<1>3. snap \in [rows : RowSets, infos : AskedInfos, finished : Nat, active : Nat, total : Nat]
  BY <1>1, NoRowsType DEF HfInit, Emptied
<1>4. NotExporting \in [limit : Nat, infos : AskedInfos \cup {NoInfos}, due : SUBSET Items,
                        seen : SUBSET Items, excused : BOOLEAN, on : BOOLEAN] /\ ~NotExporting.on
  BY DEF NotExporting
<1>5. NoCsv \in [ids : SUBSET Items, due : SUBSET Items, excused : BOOLEAN] /\ NoCsv.excused
  BY DEF NoCsv
<1>6. HfTypes
  BY <1>1, <1>2, <1>3, <1>4, <1>5 DEF HfInit, HfTypes, Tabs
<1>7. ProxyIsTheTabs /\ HistoryIsAsked
  BY DEF HfInit, ProxyIsTheTabs, HistoryIsAsked, Tabs
<1>8. Listing
  BY NoRowsType DEF HfInit, Listing, RowsPass, SnapPasses, SnapCounts, DonePass, Emptied, Finished
<1>9. Exports
  BY <1>4, <1>5 DEF HfInit, Exports, ExportCounts, ExportIsComplete
<1> QED BY <1>6, <1>7, <1>8, <1>9 DEF HfInv

-----------------------------------------------------------------------------
(* The steps.                                                              *)

LEMMA EnterTabKeeps ==
  ASSUME HfInv, NEW t \in Tabs, EnterTab(t)
  PROVE  HfInv'
<1>1. HfTypes /\ Listing /\ Exports
  BY DEF HfInv
<1>2. tabChoice[t] \in TabChoices
  BY <1>1 DEF HfTypes
<1>3. /\ t # tab /\ tab' = t /\ proxy' = tabChoice[t] /\ timers' \subseteq Tabs /\ lateTimer' = FALSE
      /\ apply_all_filtering(t # "history", tabChoice[t])
      /\ UNCHANGED <<stage, tabChoice, simple, follows, exporting, csv>>
  BY <1>1 DEF EnterTab, EnteredProxy, HfTypes
<1>4. /\ mdl' \in [rows : RowSets, infos : AskedInfos]
      /\ snap' \in [rows : RowSets, infos : AskedInfos, finished : Nat, active : Nat, total : Nat]
      /\ batches' \subseteq AskedInfos /\ applicable' = FALSE
      /\ oldReply' \in BOOLEAN /\ onlyStored' \in BOOLEAN
      /\ t = "history" /\ ~onlyStored' => InfosOf(tabChoice[t]) = snap'.infos
  BY <1>1, <1>2, <1>3, ApplyEffects
<1>5. HfTypes'
  BY <1>1, <1>2, <1>3, <1>4 DEF HfTypes
<1>6. Listing'
  BY <1>1, <1>2, <1>3, ApplyListing
<1>7. Exports'
  BY <1>1, <1>3, ExportsKept
<1>8. ProxyIsTheTabs' /\ HistoryIsAsked'
  BY <1>3, <1>4 DEF ProxyIsTheTabs, HistoryIsAsked, InfosOf
<1> QED BY <1>5, <1>6, <1>7, <1>8 DEF HfInv

LEMMA buttonDelayKeeps ==
  ASSUME HfInv, NEW t \in Tabs, buttonDelay(t)
  PROVE  HfInv'
<1>1. HfTypes /\ Listing /\ Exports
  BY DEF HfInv
<1>2. tabChoice[t] \in TabChoices
  BY <1>1 DEF HfTypes
<1>3. /\ proxy' = tabChoice[t] /\ timers' \subseteq Tabs /\ lateTimer' = (t # tab)
      /\ apply_all_filtering(tab = "history", tabChoice[t])
      /\ UNCHANGED <<stage, tab, tabChoice, simple, follows, exporting, csv>>
  BY <1>1 DEF buttonDelay, HfTypes
<1>4. /\ mdl' \in [rows : RowSets, infos : AskedInfos]
      /\ snap' \in [rows : RowSets, infos : AskedInfos, finished : Nat, active : Nat, total : Nat]
      /\ batches' \subseteq AskedInfos /\ applicable' = FALSE
      /\ oldReply' \in BOOLEAN /\ onlyStored' \in BOOLEAN
      /\ tab = "history" => snap' = Emptied(InfosOf(tabChoice[t]))
  BY <1>1, <1>2, <1>3, ApplyEffects
<1>5. HfTypes'
  BY <1>1, <1>2, <1>3, <1>4 DEF HfTypes
<1>6. Listing'
  BY <1>1, <1>2, <1>3, ApplyListing
<1>7. Exports'
  BY <1>1, <1>3, ExportsKept
<1>8. ProxyIsTheTabs'
  BY <1>3 DEF ProxyIsTheTabs
<1>9. tab = "history" => snap'.infos = InfosOf(tabChoice[t])
  BY <1>4 DEF Emptied
<1>10. ~lateTimer' => t = tab
  BY <1>3
<1>11. HistoryIsAsked'
  BY <1>3, <1>9, <1>10 DEF HistoryIsAsked, InfosOf
<1> QED BY <1>5, <1>6, <1>7, <1>8, <1>11 DEF HfInv

LEMMA ApplyFilterKeeps == HfInv /\ ApplyFilter => HfInv'
<1> SUFFICES ASSUME HfInv, ApplyFilter PROVE HfInv'
  OBVIOUS
<1>1. HfTypes /\ Listing /\ Exports /\ proxy \in TabChoices
  BY DEF HfInv, HfTypes
<1>2. /\ tab = "history" /\ apply_all_filtering(TRUE, proxy)
      /\ UNCHANGED <<stage, tab, tabChoice, timers, proxy, simple, follows, exporting, csv, lateTimer>>
  BY DEF ApplyFilter
<1>3. /\ mdl' \in [rows : RowSets, infos : AskedInfos]
      /\ snap' \in [rows : RowSets, infos : AskedInfos, finished : Nat, active : Nat, total : Nat]
      /\ batches' \subseteq AskedInfos /\ applicable' = FALSE
      /\ oldReply' \in BOOLEAN /\ onlyStored' \in BOOLEAN
      /\ snap' = Emptied(InfosOf(proxy))
  BY <1>1, <1>2, ApplyEffects
<1>4. HfTypes'
  BY <1>1, <1>2, <1>3 DEF HfTypes
<1>5. Listing'
  BY <1>1, <1>2, ApplyListing
<1>6. Exports'
  BY <1>1, <1>2, ExportsKept
<1>7. ProxyIsTheTabs'
  BY <1>2 DEF HfInv, ProxyIsTheTabs
<1>8. HistoryIsAsked'
  BY <1>2, <1>3 DEF HfInv, ProxyIsTheTabs, HistoryIsAsked, InfosOf, Emptied
<1> QED BY <1>4, <1>5, <1>6, <1>7, <1>8 DEF HfInv

LEMMA ChooseTabFilterKeeps ==
  ASSUME HfInv, NEW choice \in TabChoices, ChooseTabFilter(choice)
  PROVE  HfInv'
<1>1. HfTypes /\ Listing /\ Exports
  BY DEF HfInv
<1>2. /\ tabChoice' = [tabChoice EXCEPT ![tab] = choice] /\ proxy' = choice
      /\ applicable' = (applicable \/ tab = "history") /\ lateTimer' = FALSE
      /\ UNCHANGED <<stage, tab, timers, simple, mdl, snap, batches, follows, exporting, csv,
                     oldReply, onlyStored>>
  BY DEF ChooseTabFilter
<1>3. HfTypes'
  BY <1>1, <1>2 DEF HfTypes
<1>4. Listing'
  BY <1>1, <1>2, ListingKept
<1>5. Exports'
  BY <1>1, <1>2, ExportsKept
<1>6. ProxyIsTheTabs'
  BY <1>1, <1>2 DEF HfTypes, ProxyIsTheTabs
<1>7. HistoryIsAsked'
  BY <1>1, <1>2 DEF HistoryIsAsked
<1> QED BY <1>3, <1>4, <1>5, <1>6, <1>7 DEF HfInv

LEMMA HfOthersKept ==
  ASSUME HfInv, HfTypes', Exports',
         UNCHANGED <<tab, tabChoice, proxy, applicable, mdl, snap, oldReply, onlyStored, lateTimer>>
  PROVE  HfInv'
<1>1. Listing'
  BY ListingKept DEF HfInv
<1> QED BY <1>1 DEF HfInv, ProxyIsTheTabs, HistoryIsAsked, InfosOf

LEMMA SetModeKeeps == HfInv /\ SetMode => HfInv'
<1> SUFFICES ASSUME HfInv, SetMode PROVE HfInv'
  OBVIOUS
<1>1. Exports'
  BY ExportsKept DEF HfInv, SetMode
<1>2. HfTypes'
  BY DEF HfInv, HfTypes, SetMode, hfHistory
<1> QED BY <1>1, <1>2, HfOthersKept DEF SetMode, hfHistory

LEMMA WorldMovesKeeps ==
  ASSUME HfInv, NEW i \in Items, NEW s \in {"none", "open", "active", "done"}, WorldMoves(i, s)
  PROVE  HfInv'
<1>1. stage[i] # "done" /\ stage' = [stage EXCEPT ![i] = s] /\ UNCHANGED <<exporting, csv>>
  BY DEF WorldMoves, Moves
<1>2. \A j \in Items : stage[j] = "done" => stage'[j] = "done"
  BY <1>1 DEF HfInv, HfTypes
<1>3. Exports'
  BY <1>1, <1>2, ExportsKept DEF HfInv
<1>4. HfTypes'
  BY <1>1 DEF HfInv, HfTypes, WorldMoves, hfHistory
<1> QED BY <1>3, <1>4, HfOthersKept DEF WorldMoves, hfHistory

LEMMA CancelAllKeeps == HfInv /\ CancelAll => HfInv'
<1> SUFFICES ASSUME HfInv, CancelAll PROVE HfInv'
  OBVIOUS
<1>1. stage' = [i \in Items |-> IF i \in Visible /\ stage[i] = "open" THEN "none" ELSE stage[i]]
      /\ UNCHANGED <<exporting, csv>>
  BY DEF CancelAll
<1> HIDE DEF Visible
<1>2. \A i \in Items : stage[i] = "done" => stage'[i] = "done"
  BY <1>1
<1>3. Exports'
  BY <1>1, <1>2, ExportsKept DEF HfInv
<1>4. HfTypes'
  BY <1>1 DEF HfInv, HfTypes, CancelAll, hfHistory
<1> QED BY <1>3, <1>4, HfOthersKept DEF CancelAll, hfHistory

LEMMA TickFetchesKeeps == HfInv /\ TickFetches => HfInv'
<1> SUFFICES ASSUME HfInv, TickFetches PROVE HfInv'
  OBVIOUS
<1>1. Exports'
  BY ExportsKept DEF HfInv, TickFetches
<1>2. HfTypes'
  BY DEF HfInv, HfTypes, TickFetches, hfHistory
<1> QED BY <1>1, <1>2, HfOthersKept DEF TickFetches, hfHistory

\* The finished rows of a new snapshot pass its filter, and its counts are of one answer.
LEMMA BatchAnsweredKeeps ==
  ASSUME HfInv, NEW infos \in batches, BatchAnswered(infos)
  PROVE  HfInv'
<1> DEFINE passing == {i \in Swaps : DaemonPasses(infos, i)}
           there == {i \in Items : stage[i] = "open"} \cup ActiveSwaps \cup passing
           rows == [i \in there |-> stage[i]]
           total == Cardinality(passing)
           active == Cardinality(ActiveSwaps)
<1>1. HfTypes /\ Listing /\ Exports /\ infos \in AskedInfos
  BY DEF HfInv, HfTypes
<1>2. /\ snap' = [rows |-> rows, infos |-> infos,
                  finished |-> Finished(total, active), active |-> active, total |-> total]
      /\ follows' = TRUE /\ oldReply' = (oldReply \/ infos # snap.infos)
      /\ batches' \subseteq batches
      /\ UNCHANGED <<stage, tab, tabChoice, timers, proxy, applicable, simple, mdl, exporting,
                     csv, onlyStored, lateTimer>>
  BY DEF BatchAnswered
<1>3. /\ passing \subseteq Items /\ ActiveSwaps \subseteq Items /\ there \subseteq Items
      /\ \A i \in there : stage[i] \in Statuses
  BY <1>1 DEF HfTypes, Swaps, ActiveSwaps, Statuses
<1>4. \A i \in there : stage[i] = "done" => DaemonPasses(infos, i)
  BY DEF ActiveSwaps
<1>5. total \in Nat /\ active \in Nat /\ Cardinality(Items) \in Nat
  BY <1>3, ItemsAreFinite
<1>6. rows \in [there -> Statuses] /\ DOMAIN rows = there /\ \A i \in there : rows[i] = stage[i]
  BY <1>3
<1> HIDE DEF passing, there, rows, total, active
<1>7. rows \in RowSets
  BY <1>3, <1>6, RowSetsAre
<1>8. Finished(total, active) \in Nat
  BY <1>5 DEF Finished, Huge
<1>9. /\ snap' \in [rows : RowSets, infos : AskedInfos, finished : Nat, active : Nat, total : Nat]
      /\ snap'.rows = rows /\ snap'.infos = infos
      /\ snap'.finished = Finished(snap'.total, snap'.active)
  BY <1>1, <1>2, <1>5, <1>7, <1>8
<1>10. HfTypes'
  BY <1>1, <1>2, <1>9 DEF HfTypes
<1>11. DonePass(rows, infos)
  BY <1>4, <1>6 DEF DonePass
<1>12. SnapPasses' /\ SnapCounts'
  BY <1>9, <1>11 DEF SnapPasses, SnapCounts, DonePass, DaemonPasses, CoinMatches, Finished, Huge
<1>13. ~oldReply' => ~oldReply /\ infos = snap.infos
  BY <1>1, <1>2 DEF HfTypes
<1>14. RowsPass'
  BY <1>1, <1>2, <1>9, <1>13 DEF Listing, RowsPass, DonePass, DaemonPasses, CoinMatches
<1>15. ProxyIsTheTabs' /\ HistoryIsAsked'
  BY <1>2, <1>9, <1>13 DEF HfInv, ProxyIsTheTabs, HistoryIsAsked, InfosOf
<1>16. Exports'
  BY <1>1, <1>2, ExportsKept
<1> QED BY <1>10, <1>12, <1>14, <1>15, <1>16 DEF HfInv, Listing

LEMMA refresh_or_insertKeeps == HfInv /\ refresh_or_insert => HfInv'
<1> SUFFICES ASSUME HfInv, refresh_or_insert PROVE HfInv'
  OBVIOUS
<1> DEFINE kept == {i \in DOMAIN mdl.rows : mdl.rows[i] # "open"}
           merged == [i \in kept \cup DOMAIN snap.rows |->
                        IF i \in DOMAIN snap.rows THEN snap.rows[i] ELSE mdl.rows[i]]
<1>1. HfTypes /\ Listing /\ Exports /\ snap.rows \in RowSets /\ mdl.rows \in RowSets
      /\ snap.infos \in AskedInfos /\ mdl.infos \in AskedInfos
  BY DEF HfInv, HfTypes
<1>2. /\ follows' = FALSE
      /\ mdl' = IF mdl.rows = NoRows
                THEN IF snap.rows = NoRows THEN mdl ELSE [rows |-> snap.rows, infos |-> snap.infos]
                ELSE [mdl EXCEPT !.rows = merged]
      /\ UNCHANGED <<stage, tab, tabChoice, timers, proxy, applicable, simple, snap, batches,
                     exporting, csv, oldReply, onlyStored, lateTimer>>
  BY DEF refresh_or_insert, hfHistory
<1>3. /\ DOMAIN snap.rows \subseteq Items /\ \A i \in DOMAIN snap.rows : snap.rows[i] \in Statuses
      /\ DOMAIN mdl.rows \subseteq Items /\ \A i \in DOMAIN mdl.rows : mdl.rows[i] \in Statuses
  BY <1>1, RowSetsHave
<1>4. kept \subseteq DOMAIN mdl.rows
  OBVIOUS
<1>5. /\ merged \in [kept \cup DOMAIN snap.rows -> Statuses] /\ DOMAIN merged = kept \cup DOMAIN snap.rows
      /\ \A i \in DOMAIN merged : merged[i] = snap.rows[i] \/ (i \in DOMAIN mdl.rows /\ merged[i] = mdl.rows[i])
      /\ \A i \in DOMAIN merged : i \in DOMAIN snap.rows => merged[i] = snap.rows[i]
      /\ \A i \in DOMAIN merged : i \notin DOMAIN snap.rows => i \in DOMAIN mdl.rows /\ merged[i] = mdl.rows[i]
  BY <1>3, <1>4
<1>6. merged \in RowSets
  BY <1>3, <1>5, RowSetsAre
<1>7. ~oldReply => DonePass(snap.rows, snap.infos) /\ DonePass(mdl.rows, snap.infos)
  BY <1>1 DEF Listing, RowsPass, SnapPasses
<1>8. ~oldReply => DonePass(merged, snap.infos)
  BY <1>5, <1>7 DEF DonePass
<1> HIDE DEF kept, merged
<1>9. /\ mdl' \in [rows : RowSets, infos : AskedInfos]
      /\ mdl'.rows \in {mdl.rows, snap.rows, merged}
  BY <1>1, <1>2, <1>6 DEF HfTypes
<1>10. HfTypes'
  BY <1>1, <1>2, <1>9 DEF HfTypes
<1>11. ~oldReply' => DonePass(mdl'.rows, snap.infos)
  BY <1>2, <1>7, <1>8, <1>9
<1>12. RowsPass' /\ SnapPasses' /\ SnapCounts'
  BY <1>1, <1>2, <1>11
  DEF Listing, RowsPass, SnapPasses, SnapCounts, DonePass, DaemonPasses, CoinMatches, Finished, Huge
<1>13. ProxyIsTheTabs' /\ HistoryIsAsked'
  BY <1>2 DEF HfInv, ProxyIsTheTabs, HistoryIsAsked, InfosOf
<1>14. Exports'
  BY <1>1, <1>2, ExportsKept
<1> QED BY <1>10, <1>12, <1>13, <1>14 DEF HfInv, Listing

\* With no active swaps the count of finished ones is all of them.
LEMMA ExportKeeps == HfInv /\ export_swaps_history_to_csv => HfInv'
<1> SUFFICES ASSUME HfInv, export_swaps_history_to_csv PROVE HfInv'
  OBVIOUS
<1> DEFINE finishedOnes == {i \in Swaps : DaemonPasses(snap.infos, i)}
           notWhole == snap.rows = NoRows \/ snap.active > 0 \/ Cardinality(finishedOnes) # snap.total
<1>1. HfTypes /\ SnapCounts /\ Exports
  BY DEF HfInv, Listing
<1>2. /\ exporting' = [limit |-> snap.finished, infos |-> snap.infos, due |-> DoneNow(snap.infos),
                       seen |-> finishedOnes, on |-> TRUE, excused |-> notWhole]
      /\ UNCHANGED <<stage, tab, tabChoice, timers, proxy, applicable, simple, mdl, snap, batches,
                     follows, csv, oldReply, onlyStored, lateTimer>>
  BY DEF export_swaps_history_to_csv, ExportLimit, hfHistory
<1>3. finishedOnes \subseteq Items /\ DoneNow(snap.infos) \subseteq Items /\ notWhole \in BOOLEAN
  BY DEF Swaps, DoneNow
<1>4. \A i \in DoneNow(snap.infos) : stage[i] = "done" /\ DaemonPasses(snap.infos, i)
  BY DEF DoneNow
<1>5. /\ snap.finished \in Nat /\ snap.active \in Nat /\ snap.total \in Nat
      /\ snap.infos \in AskedInfos /\ snap.finished = Finished(snap.total, snap.active)
  BY <1>1 DEF HfTypes, SnapCounts
<1>6. ~notWhole => snap.finished = Cardinality(finishedOnes)
  <2> HIDE DEF finishedOnes
  <2> QED BY <1>5 DEF Finished
<1> HIDE DEF finishedOnes, notWhole
<1>7. /\ exporting' \in [limit : Nat, infos : AskedInfos \cup {NoInfos}, due : SUBSET Items,
                          seen : SUBSET Items, excused : BOOLEAN, on : BOOLEAN]
      /\ exporting'.limit = snap.finished /\ exporting'.infos = snap.infos
      /\ exporting'.due = DoneNow(snap.infos) /\ exporting'.seen = finishedOnes
      /\ exporting'.excused = notWhole
  BY <1>2, <1>3, <1>5
<1>8. HfTypes'
  BY <1>1, <1>2, <1>7 DEF HfTypes
<1>9. ExportCounts'
  BY <1>2, <1>4, <1>6, <1>7 DEF ExportCounts, DaemonPasses, CoinMatches
<1>10. ExportIsComplete'
  BY <1>1, <1>2 DEF Exports, ExportIsComplete
<1>11. Listing'
  BY <1>2, ListingKept DEF HfInv
<1>12. ProxyIsTheTabs' /\ HistoryIsAsked'
  BY <1>2 DEF HfInv, ProxyIsTheTabs, HistoryIsAsked, InfosOf
<1> QED BY <1>8, <1>9, <1>10, <1>11, <1>12 DEF HfInv, Exports

\* A swap is among the newest of a set when as many are asked for as the set has.
LEMMA AllAreAmongTheNewest ==
  ASSUME NEW S \in SUBSET Items, NEW i \in S
  PROVE  Cardinality({j \in S : j > i}) < Cardinality(S)
<1> DEFINE newer == {j \in S : j > i}
<1>1. i \in Nat
  BY NumbersOfItems
<1>2. newer \subseteq S /\ i \notin newer
  BY <1>1
<1>3. IsFiniteSet(S) /\ Cardinality(S) \in Nat /\ Cardinality(newer) \in Nat
  BY <1>2, ItemsAreFinite
<1> HIDE DEF newer
<1>4. Cardinality(newer) <= Cardinality(S) /\ (Cardinality(newer) = Cardinality(S) => newer = S)
  BY <1>2, <1>3, FS_Subset
<1>5. Cardinality(newer) < Cardinality(S)
  BY <1>2, <1>3, <1>4
<1> QED BY <1>5 DEF newer

LEMMA ExportAnsweredKeeps == HfInv /\ ExportAnswered => HfInv'
<1> SUFFICES ASSUME HfInv, ExportAnswered PROVE HfInv'
  OBVIOUS
<1> DEFINE passing == {i \in Swaps : DaemonPasses(exporting.infos, i)}
           ids == {i \in passing : Cardinality({j \in passing : j > i}) < exporting.limit}
<1>1. HfTypes /\ ExportCounts /\ exporting.on /\ exporting.due \subseteq Items /\ exporting.excused \in BOOLEAN
  BY DEF HfInv, Exports, HfTypes, ExportAnswered
<1>2. /\ exporting' = NotExporting
      /\ csv' = [ids |-> ids, due |-> exporting.due, excused |-> exporting.excused \/ passing # exporting.seen]
      /\ UNCHANGED <<stage, tab, tabChoice, timers, proxy, applicable, simple, mdl, snap, batches,
                     follows, oldReply, onlyStored, lateTimer>>
  BY DEF ExportAnswered, hfHistory
<1>3. passing \in SUBSET Items /\ ids \subseteq Items
  BY DEF Swaps
<1>4. exporting.due \subseteq passing
  BY <1>1 DEF ExportCounts, Swaps
<1>5. \A i \in passing : Cardinality({j \in passing : j > i}) < Cardinality(passing)
  <2> HIDE DEF passing
  <2> QED BY <1>3, AllAreAmongTheNewest
<1>6. ~exporting.excused /\ passing = exporting.seen => passing \subseteq ids
  <2> SUFFICES ASSUME ~exporting.excused, passing = exporting.seen PROVE passing \subseteq ids
    OBVIOUS
  <2>1. exporting.limit = Cardinality(passing)
    BY <1>1 DEF ExportCounts
  <2> HIDE DEF passing
  <2> QED BY <1>5, <2>1
<1> HIDE DEF passing, ids
<1>7. /\ csv' \in [ids : SUBSET Items, due : SUBSET Items, excused : BOOLEAN]
      /\ csv'.ids = ids /\ csv'.due = exporting.due
      /\ ~csv'.excused => ~exporting.excused /\ passing = exporting.seen
  BY <1>1, <1>2, <1>3
<1>8. /\ NotExporting \in [limit : Nat, infos : AskedInfos \cup {NoInfos}, due : SUBSET Items,
                           seen : SUBSET Items, excused : BOOLEAN, on : BOOLEAN]
      /\ ~NotExporting.on
  BY DEF NotExporting
<1>9. HfTypes'
  BY <1>1, <1>2, <1>7, <1>8 DEF HfTypes
<1>10. ExportCounts'
  BY <1>2, <1>8 DEF ExportCounts
<1>11. ExportIsComplete'
  BY <1>4, <1>6, <1>7 DEF ExportIsComplete
<1>12. Listing'
  BY <1>2, ListingKept DEF HfInv
<1>13. ProxyIsTheTabs' /\ HistoryIsAsked'
  BY <1>2 DEF HfInv, ProxyIsTheTabs, HistoryIsAsked, InfosOf
<1> QED BY <1>9, <1>10, <1>11, <1>12, <1>13 DEF HfInv, Exports

LEMMA ExportLostKeeps == HfInv /\ ExportLost => HfInv'
<1> SUFFICES ASSUME HfInv, ExportLost PROVE HfInv'
  OBVIOUS
<1>1. /\ NotExporting \in [limit : Nat, infos : AskedInfos \cup {NoInfos}, due : SUBSET Items,
                           seen : SUBSET Items, excused : BOOLEAN, on : BOOLEAN]
      /\ ~NotExporting.on
  BY DEF NotExporting
<1>2. HfTypes'
  BY <1>1 DEF HfInv, HfTypes, ExportLost, hfHistory
<1>3. Exports'
  BY <1>1 DEF HfInv, Exports, ExportCounts, ExportIsComplete, ExportLost
<1> QED BY <1>2, <1>3, HfOthersKept DEF ExportLost, hfHistory

\* The invariant of the filters holds after every step.
LEMMA HfStep == HfInv /\ [HfNext]_hfVars => HfInv'
<1> SUFFICES ASSUME HfInv, [HfNext]_hfVars PROVE HfInv'
  OBVIOUS
<1>1. CASE UNCHANGED hfVars
  <2>1. Exports' /\ HfTypes'
    BY <1>1, ExportsKept DEF HfInv, HfTypes, hfVars
  <2> QED BY <1>1, <2>1, HfOthersKept DEF hfVars
<1>2. ASSUME NEW t \in Tabs, EnterTab(t) \/ buttonDelay(t) PROVE HfInv'
  BY <1>2, EnterTabKeeps, buttonDelayKeeps
<1>3. ASSUME NEW c \in TabChoices, ChooseTabFilter(c) PROVE HfInv'
  BY <1>3, ChooseTabFilterKeeps
<1>4. ASSUME NEW i \in Items, NEW s \in {"none", "open", "active", "done"}, WorldMoves(i, s) PROVE HfInv'
  BY <1>4, WorldMovesKeeps
<1>5. ASSUME NEW infos \in batches, BatchAnswered(infos) PROVE HfInv'
  BY <1>5, BatchAnsweredKeeps
<1>6. ApplyFilter \/ SetMode \/ TickFetches \/ refresh_or_insert \/ CancelAll => HfInv'
  BY ApplyFilterKeeps, SetModeKeeps, TickFetchesKeeps, refresh_or_insertKeeps, CancelAllKeeps
<1>7. export_swaps_history_to_csv \/ ExportAnswered \/ ExportLost => HfInv'
  BY ExportKeeps, ExportAnsweredKeeps, ExportLostKeeps
<1> QED BY <1>1, <1>2, <1>3, <1>4, <1>5, <1>6, <1>7 DEF HfNext

LEMMA HfInvMeans == HfInv => ListsAreOfTheChoice
<1> SUFFICES ASSUME HfInv PROVE ListsAreOfTheChoice
  OBVIOUS
<1>1. ASSUME tab = "history", ~applicable, ~onlyStored, ~oldReply, ~lateTimer,
             NEW i \in Visible
      PROVE  DaemonPasses(InfosOf(tabChoice[tab]), i)
  <2>1. i \in DOMAIN mdl.rows /\ mdl.rows[i] = "done"
    BY <1>1 DEF Visible, Accepts
  <2>2. DaemonPasses(snap.infos, i) /\ snap.infos = InfosOf(tabChoice["history"])
    BY <1>1, <2>1 DEF HfInv, Listing, RowsPass, DonePass, HistoryIsAsked
  <2> QED BY <1>1, <2>2
<1>2. HistoryIsWhatWasChosen
  BY <1>1 DEF HistoryIsWhatWasChosen, InfosOf
<1>3. CancelAllIsOfTheChosen
  BY DEF HfInv, ProxyIsTheTabs, CancelAllIsOfTheChosen, Visible
<1> QED BY <1>2, <1>3 DEF HfInv, Exports, ListsAreOfTheChoice

\* For any items, filters and number of batches the two tabs list, and "Cancel All"
\* cancels, what the boxes say, and a file of the exporter is whole when its count
\* was of the swaps the daemon then finds.
THEOREM ListsStayOfTheChoice == HfSpec => []ListsAreOfTheChoice
<1> QED BY HfStart, HfStep, HfInvMeans, PTL DEF HfSpec

-----------------------------------------------------------------------------
(* The trading page: what the states are that its handlers work on. Each   *)
(* handler is an operator on such states, so its effect is stated of any   *)
(* state and the lemmas compose as the handlers do.                        *)

TradedPairs == Coins \X Coins
Modes == {"Buy", "Sell"}
Picked == [order : Listed, locked : BOOLEAN, capped : BOOLEAN, initial : Nat, theoretical : Int]
Questions == [pair : TradedPairs, mode : Modes, volume : Nat, price : Nat]
FeesCalls == [kind : {"fees"}, pair : TradedPairs, reset : BOOLEAN, form : Questions]
OtherCalls == [kind : {"book", "extras", "best", "order"}, pair : TradedPairs, reset : BOOLEAN]
CallSet == FeesCalls \cup OtherCalls
Books == [pair : TradedPairs \cup {NoPair}, orders : SUBSET Listed]

PageStates ==
  [left : Coins \ WalletOnly, right : Coins, market_mode : Modes, view : {"Pro", "Simple"},
   price : Nat, volume : Nat, max_volume : Nat, preferred : Picked \cup {NoOrder},
   fees : Questions \cup {NoFees},
   order_status : {"None", "BetterPriceAvailable", "OrderNotExistingAnymore"},
   actions : Nat, need_a_reset : BOOLEAN, rpc_busy : BOOLEAN, preimage_busy : BOOLEAN]
WrapperStates ==
  [rows : SUBSET Listed, rows_pair : TradedPairs \cup {NoPair}, best_orders : SUBSET Listed,
   best_infos : SUBSET Listed, best_busy : BOOLEAN, selected_best : WaitingOrders,
   base_max : MaxVolumes, rel_max : MaxVolumes, min_coins : TradedPairs \cup {NoPair}]
KdfStates ==
  [pair : TradedPairs, thread_active : BOOLEAN, book : Books, base_max : MaxVolumes,
   rel_max : MaxVolumes, min_coins : TradedPairs \cup {NoPair}]
AppStates == [p : PageStates, w : WrapperStates, k : KdfStates, c : Seq(CallSet)]

CallsIn(c) == {c[i] : i \in DOMAIN c}

\* What every handler leaves alone: the pair, the mode and the view, the rows and the
\* order that waits, kdf_service; and no call but for best orders or fees of the pair.
Steady(st, after) ==
  /\ after.k = st.k
  /\ after.p.left = st.p.left /\ after.p.right = st.p.right
  /\ after.p.market_mode = st.p.market_mode /\ after.p.view = st.p.view
  /\ after.w.rows = st.w.rows /\ after.w.rows_pair = st.w.rows_pair
  /\ after.w.selected_best = st.w.selected_best
  /\ CallsIn(st.c) \subseteq CallsIn(after.c)
  /\ \A call \in CallsIn(after.c) \ CallsIn(st.c) :
       call.kind = "best" \/ (call.kind = "fees" /\ call.form.pair = Pair(st.p))

\* No fees are asked for either.
Silent(st, after) ==
  /\ Steady(st, after)
  /\ \A call \in CallsIn(after.c) \ CallsIn(st.c) : call.kind = "best"

\* The fees, the status and the order, if one is left, are those there were.
Quiet(st, after) ==
  /\ Silent(st, after)
  /\ after.p.fees = st.p.fees /\ after.p.order_status = st.p.order_status
  /\ after.p.preferred = NoOrder
       \/ (st.p.preferred # NoOrder /\ after.p.preferred.order = st.p.preferred.order)

\* Handlers that call each other leave alone what each leaves alone.
LEMMA SteadyTwice ==
  ASSUME NEW a, NEW b, NEW c, Steady(a, b), Steady(b, c)
  PROVE  Steady(a, c)
BY DEF Steady, Pair

LEMMA SilentTwice ==
  ASSUME NEW a, NEW b, NEW c, Silent(a, b), Silent(b, c)
  PROVE  Silent(a, c)
BY SteadyTwice DEF Silent, Steady

LEMMA QuietTwice ==
  ASSUME NEW a, NEW b, NEW c, Quiet(a, b), Quiet(b, c)
  PROVE  Quiet(a, c)
BY SilentTwice DEF Quiet

\* A handler that returns early.
LEMMA QuietSelf == ASSUME NEW st PROVE Quiet(st, st)
BY DEF Quiet, Silent, Steady

\* A state of which only the page is another one.
LEMMA PageOnly ==
  ASSUME NEW st \in AppStates, NEW p \in PageStates
  PROVE  LET after == [st EXCEPT !.p = p]
         IN  /\ after \in AppStates
             /\ after.p = p /\ after.w = st.w /\ after.k = st.k /\ after.c = st.c
BY DEF AppStates

\* A state of which only the wrapper is another one.
LEMMA WrapperOnly ==
  ASSUME NEW st \in AppStates, NEW w \in WrapperStates
  PROVE  LET after == [st EXCEPT !.w = w]
         IN  /\ after \in AppStates
             /\ after.p = st.p /\ after.w = w /\ after.k = st.k /\ after.c = st.c
BY DEF AppStates

\* A call is appended to those there are.
LEMMA AppendedCalls ==
  ASSUME NEW S, NEW s \in Seq(S), NEW e \in S
  PROVE  Append(s, e) \in Seq(S) /\ CallsIn(Append(s, e)) = CallsIn(s) \cup {e}
<1> DEFINE longer == Append(s, e)
<1>1. /\ longer \in Seq(S) /\ Len(longer) = Len(s) + 1
      /\ \A i \in 1..Len(s) : longer[i] = s[i]
      /\ longer[Len(s) + 1] = e
  BY AppendProperties
<1>2. Len(s) \in Nat /\ DOMAIN s = 1..Len(s) /\ DOMAIN longer = 1..(Len(s) + 1)
  BY <1>1, LenProperties
<1> HIDE DEF longer
<1>3. \A i \in 1..(Len(s) + 1) : i \in 1..Len(s) \/ i = Len(s) + 1
  BY <1>2
<1>4. \A i \in 1..Len(s) : i \in 1..(Len(s) + 1)
  BY <1>2
<1>5. Len(s) + 1 \in 1..(Len(s) + 1)
  BY <1>2
<1>6. CallsIn(longer) = CallsIn(s) \cup {e}
  BY <1>1, <1>2, <1>3, <1>4, <1>5 DEF CallsIn
<1> QED BY <1>1, <1>6 DEF longer

\* A call is sent: nothing else changes.
LEMMA Asking ==
  ASSUME NEW st \in AppStates, NEW call \in CallSet
  PROVE  /\ Ask(st, call) \in AppStates
         /\ Ask(st, call).p = st.p /\ Ask(st, call).w = st.w /\ Ask(st, call).k = st.k
         /\ CallsIn(Ask(st, call).c) = CallsIn(st.c) \cup {call}
<1>1. st.c \in Seq(CallSet)
  BY DEF AppStates
<1>2. /\ Append(st.c, call) \in Seq(CallSet)
      /\ CallsIn(Append(st.c, call)) = CallsIn(st.c) \cup {call}
  BY <1>1, AppendedCalls
<1> QED BY <1>2 DEF Ask, AppStates

\* The handlers, from the smallest to those that are made of others:
\* process_best_orders.
LEMMA ScanEffect ==
  ASSUME NEW st \in AppStates
  PROVE  ProcessBestOrders(st) \in AppStates /\ Quiet(st, ProcessBestOrders(st))
<1> DEFINE w == [st.w EXCEPT !.best_busy = TRUE]
           busy == [st EXCEPT !.w = w]
           call == [kind |-> "best", pair |-> Pair(st.p), reset |-> FALSE]
<1>1. CASE st.w.best_busy \/ ~st.k.thread_active
  BY <1>1, QuietSelf DEF ProcessBestOrders
<1>2. CASE ~(st.w.best_busy \/ ~st.k.thread_active)
  <2>1. w \in WrapperStates
    BY DEF AppStates, WrapperStates
  <2>2. st.p.left \in Coins /\ st.p.right \in Coins
    BY DEF AppStates, PageStates
  <2>3. call \in CallSet
    BY <2>2 DEF CallSet, OtherCalls, Pair, TradedPairs
  <2>4. busy \in AppStates /\ busy.p = st.p /\ busy.w = w /\ busy.k = st.k /\ busy.c = st.c
    BY <2>1, WrapperOnly
  <2>5. ProcessBestOrders(st) = Ask(busy, call)
    BY <1>2 DEF ProcessBestOrders
  <2>6. w.rows = st.w.rows /\ w.rows_pair = st.w.rows_pair /\ w.selected_best = st.w.selected_best
    BY DEF AppStates, WrapperStates
  <2> HIDE DEF w, busy, call
  <2>7. /\ Ask(busy, call) \in AppStates
        /\ Ask(busy, call).p = st.p /\ Ask(busy, call).w = w /\ Ask(busy, call).k = st.k
        /\ CallsIn(Ask(busy, call).c) = CallsIn(st.c) \cup {call}
    BY <2>3, <2>4, Asking
  <2>8. call.kind = "best"
    BY DEF call
  <2>9. Quiet(st, Ask(busy, call))
    BY <2>6, <2>7, <2>8 DEF Quiet, Silent, Steady
  <2> QED BY <2>5, <2>7, <2>9
<1> QED BY <1>1, <1>2

\* A handler that writes the form and calls nothing.
LEMMA FormEffect ==
  ASSUME NEW st \in AppStates, NEW p \in PageStates,
         p.left = st.p.left, p.right = st.p.right, p.market_mode = st.p.market_mode,
         p.view = st.p.view, p.fees = st.p.fees, p.order_status = st.p.order_status,
         \/ p.preferred = NoOrder
         \/ st.p.preferred # NoOrder /\ p.preferred.order = st.p.preferred.order
  PROVE  [st EXCEPT !.p = p] \in AppStates /\ Quiet(st, [st EXCEPT !.p = p])
<1> DEFINE after == [st EXCEPT !.p = p]
<1>1. after \in AppStates /\ after.p = p /\ after.w = st.w /\ after.k = st.k /\ after.c = st.c
  BY PageOnly
<1> HIDE DEF after
<1>2. Quiet(st, after)
  BY <1>1 DEF Quiet, Silent, Steady
<1> QED BY <1>1, <1>2 DEF after

\* The volumes of the form are set.
LEMMA VolumesEffect ==
  ASSUME NEW st \in AppStates, NEW m \in Nat
  PROVE  /\ [st EXCEPT !.p.max_volume = m] \in AppStates
         /\ Quiet(st, [st EXCEPT !.p.max_volume = m])
         /\ [st EXCEPT !.p.volume = m] \in AppStates
         /\ Quiet(st, [st EXCEPT !.p.volume = m])
<1> DEFINE p == [st.p EXCEPT !.max_volume = m]
           q == [st.p EXCEPT !.volume = m]
<1>1. st.p \in PageStates
  BY DEF AppStates
<1>2. p \in PageStates /\ p.left = st.p.left /\ p.right = st.p.right
      /\ p.market_mode = st.p.market_mode /\ p.view = st.p.view /\ p.fees = st.p.fees
      /\ p.order_status = st.p.order_status /\ p.preferred = st.p.preferred
  BY <1>1 DEF PageStates
<1>3. q \in PageStates /\ q.left = st.p.left /\ q.right = st.p.right
      /\ q.market_mode = st.p.market_mode /\ q.view = st.p.view /\ q.fees = st.p.fees
      /\ q.order_status = st.p.order_status /\ q.preferred = st.p.preferred
  BY <1>1 DEF PageStates
<1>4. [st EXCEPT !.p.max_volume = m] = [st EXCEPT !.p = p]
  OBVIOUS
<1>5. [st EXCEPT !.p.volume = m] = [st EXCEPT !.p = q]
  OBVIOUS
<1> HIDE DEF p, q
<1>6. [st EXCEPT !.p = p] \in AppStates /\ Quiet(st, [st EXCEPT !.p = p])
  BY <1>2, FormEffect
<1>7. [st EXCEPT !.p = q] \in AppStates /\ Quiet(st, [st EXCEPT !.p = q])
  BY <1>3, FormEffect
<1> QED BY <1>4, <1>5, <1>6, <1>7

\* refresh_best_orders: without a volume there are none.
LEMMA RefreshBestEffect ==
  ASSUME NEW st \in AppStates
  PROVE  RefreshBestOrders(st) \in AppStates /\ Quiet(st, RefreshBestOrders(st))
<1>1. CASE st.p.volume > 0
  BY <1>1, ScanEffect DEF RefreshBestOrders
<1>2. CASE ~(st.p.volume > 0)
  <2> DEFINE w == [st.w EXCEPT !.best_orders = {}]
             after == [st EXCEPT !.w = w]
  <2>1. w \in WrapperStates /\ w.rows = st.w.rows /\ w.rows_pair = st.w.rows_pair
        /\ w.selected_best = st.w.selected_best
    BY DEF AppStates, WrapperStates
  <2>2. after \in AppStates /\ after.p = st.p /\ after.w = w /\ after.k = st.k /\ after.c = st.c
    BY <2>1, WrapperOnly
  <2>3. RefreshBestOrders(st) = after
    BY <1>2 DEF RefreshBestOrders
  <2> HIDE DEF w, after
  <2>4. Quiet(st, after)
    BY <2>1, <2>2 DEF Quiet, Silent, Steady
  <2> QED BY <2>2, <2>3, <2>4
<1> QED BY <1>1, <1>2

\* set_volume caps what it is given.
LEMMA SetVolumeEffect ==
  ASSUME NEW st \in AppStates, NEW volume \in Nat
  PROVE  SetVolume(st, volume) \in AppStates /\ Quiet(st, SetVolume(st, volume))
<1>1. CASE volume = st.p.volume
  BY <1>1, QuietSelf DEF SetVolume
<1>2. CASE volume # st.p.volume
  <2> DEFINE capped == IF st.p.max_volume # 0 THEN Least(volume, st.p.max_volume) ELSE volume
             b == [st EXCEPT !.p.volume = capped]
  <2>1. st.p.max_volume \in Nat
    BY DEF AppStates, PageStates
  <2>2. capped \in Nat
    BY <2>1 DEF Least
  <2>3. SetVolume(st, volume) = RefreshBestOrders(b)
    BY <1>2 DEF SetVolume
  <2> HIDE DEF capped
  <2>4. b \in AppStates /\ Quiet(st, b)
    BY <2>2, VolumesEffect
  <2> HIDE DEF b
  <2>5. RefreshBestOrders(b) \in AppStates /\ Quiet(b, RefreshBestOrders(b))
    BY <2>4, RefreshBestEffect
  <2> QED BY <2>3, <2>4, <2>5, QuietTwice
<1> QED BY <1>1, <1>2

\* cap_volume calls set_volume, with a volume that is not capped again.
LEMMA CapVolumeEffect ==
  ASSUME NEW st \in AppStates
  PROVE  CapVolume(st) \in AppStates /\ Quiet(st, CapVolume(st))
<1>1. st.p.max_volume \in Nat
  BY DEF AppStates, PageStates
<1> QED BY <1>1, SetVolumeEffect, QuietSelf DEF CapVolume

\* The volume that can be sold or bought is determined.
LEMMA CappedEffect ==
  ASSUME NEW st \in AppStates, NEW b \in AppStates, Quiet(st, b)
  PROVE  CapVolume(b) \in AppStates /\ Quiet(st, CapVolume(b))
BY CapVolumeEffect, QuietTwice

\* determine_max_volume writes into the selected order, but never another order.
LEMMA ChosenEffect ==
  ASSUME NEW st \in AppStates, st.p.preferred # NoOrder, NEW m \in Nat
  PROVE  /\ [st EXCEPT !.p.max_volume = m, !.p.preferred.capped = TRUE] \in AppStates
         /\ Quiet(st, [st EXCEPT !.p.max_volume = m, !.p.preferred.capped = TRUE])
         /\ [st EXCEPT !.p.max_volume = m, !.p.preferred.theoretical = m] \in AppStates
         /\ Quiet(st, [st EXCEPT !.p.max_volume = m, !.p.preferred.theoretical = m])
<1> DEFINE n == m
           a == [st.p.preferred EXCEPT !.capped = TRUE]
           b == [st.p.preferred EXCEPT !.theoretical = n]
           p == [st.p EXCEPT !.max_volume = m, !.preferred = a]
           q == [st.p EXCEPT !.max_volume = m, !.preferred = b]
<1>1. st.p \in PageStates
  BY DEF AppStates
<1>2. st.p.preferred \in Picked
  BY <1>1 DEF PageStates
<1>3. /\ a \in Picked /\ a.order = st.p.preferred.order
      /\ b \in Picked /\ b.order = st.p.preferred.order
  <2>1. n \in Int
    OBVIOUS
  <2> HIDE DEF n
  <2> QED BY <1>2, <2>1 DEF Picked
<1>4. /\ [st EXCEPT !.p.max_volume = m, !.p.preferred.capped = TRUE] = [st EXCEPT !.p = p]
      /\ [st EXCEPT !.p.max_volume = m, !.p.preferred.theoretical = n] = [st EXCEPT !.p = q]
  BY <1>1 DEF AppStates, PageStates
<1> HIDE DEF a, b
<1>5. p \in PageStates /\ p.left = st.p.left /\ p.right = st.p.right
      /\ p.market_mode = st.p.market_mode /\ p.view = st.p.view /\ p.fees = st.p.fees
      /\ p.order_status = st.p.order_status /\ p.preferred = a
  BY <1>1, <1>3 DEF PageStates
<1>6. q \in PageStates /\ q.left = st.p.left /\ q.right = st.p.right
      /\ q.market_mode = st.p.market_mode /\ q.view = st.p.view /\ q.fees = st.p.fees
      /\ q.order_status = st.p.order_status /\ q.preferred = b
  BY <1>1, <1>3 DEF PageStates
<1> HIDE DEF p, q
<1>7. [st EXCEPT !.p = p] \in AppStates /\ Quiet(st, [st EXCEPT !.p = p])
  BY <1>3, <1>5, FormEffect
<1>8. [st EXCEPT !.p = q] \in AppStates /\ Quiet(st, [st EXCEPT !.p = q])
  BY <1>3, <1>6, FormEffect
<1> QED BY <1>4, <1>7, <1>8

\* determine_max_volume of the two market modes.
LEMMA MaxToSellEffect ==
  ASSUME NEW st \in AppStates
  PROVE  MaxToSell(st) \in AppStates /\ Quiet(st, MaxToSell(st))
<1> DEFINE max == st.w.base_max
           preferred == st.p.preferred
           a == [st EXCEPT !.p.max_volume = 0]
           b == [st EXCEPT !.p.max_volume = max.volume]
           least == Least(1, max.volume)
           c == [st EXCEPT !.p.max_volume = least, !.p.preferred.capped = TRUE]
<1>1. max.volume \in Nat
  BY TradingAssumption DEF AppStates, WrapperStates, MaxVolumes, TradingAssumption
<1>2. least \in Nat
  BY <1>1 DEF Least
<1>3. a \in AppStates /\ Quiet(st, a) /\ b \in AppStates /\ Quiet(st, b)
  BY <1>1, VolumesEffect
<1>4. preferred # NoOrder => c \in AppStates /\ Quiet(st, c)
  <2> HIDE DEF least
  <2> SUFFICES ASSUME st.p.preferred # NoOrder PROVE c \in AppStates /\ Quiet(st, c)
    OBVIOUS
  <2> QED BY <1>2, ChosenEffect
<1>5. MaxToSell(st) = IF max.coin = NoPair THEN st
                      ELSE CapVolume(IF max.volume <= 0 \/ max.coin # st.p.left THEN a
                                     ELSE IF preferred = NoOrder THEN b
                                     ELSE IF preferred.capped THEN st
                                     ELSE c)
  BY DEF MaxToSell
<1> HIDE DEF a, b, c
<1> QED BY <1>3, <1>4, <1>5, CappedEffect, QuietSelf

\* A price is positive, so a volume divided by it is a number.
LEMMA MaxToBuyEffect ==
  ASSUME NEW st \in AppStates
  PROVE  MaxToBuy(st) \in AppStates /\ Quiet(st, MaxToBuy(st))
<1> DEFINE max == st.w.rel_max.volume
           preferred == st.p.preferred
           free == IF st.p.price > 0 THEN max \div st.p.price ELSE 0
           one == IF max <= 0 THEN 0 ELSE 1
           part == max \div preferred.order.price
           a == [st EXCEPT !.p.max_volume = free]
           b == [st EXCEPT !.p.max_volume = one]
           c == [st EXCEPT !.p.max_volume = part, !.p.preferred.theoretical = part]
           d == [st EXCEPT !.p.max_volume = max]
<1>1. max \in Nat /\ st.p.price \in Nat
  BY TradingAssumption DEF AppStates, PageStates, WrapperStates, MaxVolumes, TradingAssumption
<1>2. preferred # NoOrder => preferred.order.price \in Nat \ {0}
  BY TradingAssumption DEF AppStates, PageStates, Picked, TradingAssumption
<1>3. free \in Nat /\ one \in Nat /\ (preferred # NoOrder => part \in Nat /\ part \in Int)
  BY <1>1, <1>2, Quotient
<1>4. MaxToBuy(st) = CapVolume(IF preferred = NoOrder THEN a
                               ELSE IF max >= preferred.order.price \/ max <= 0 THEN b
                               ELSE IF st.p.price > 0 THEN c
                               ELSE d)
  BY DEF MaxToBuy
<1> HIDE DEF free, one, part
<1>5. a \in AppStates /\ Quiet(st, a) /\ b \in AppStates /\ Quiet(st, b) /\ d \in AppStates /\ Quiet(st, d)
  BY <1>1, <1>3, VolumesEffect
<1>6. preferred # NoOrder => c \in AppStates /\ Quiet(st, c)
  BY <1>3, ChosenEffect
<1> HIDE DEF a, b, c, d
<1> QED BY <1>4, <1>5, <1>6, CappedEffect

LEMMA DetermineMaxEffect ==
  ASSUME NEW st \in AppStates
  PROVE  DetermineMaxVolume(st) \in AppStates /\ Quiet(st, DetermineMaxVolume(st))
BY MaxToSellEffect, MaxToBuyEffect DEF DetermineMaxVolume

\* set_price may drop the selected order, and locks the one that stays.
LEMMA SetPriceEffect ==
  ASSUME NEW st \in AppStates, NEW price \in Nat
  PROVE  SetPrice(st, price) \in AppStates /\ Quiet(st, SetPrice(st, price))
<1>1. CASE price = st.p.price
  BY <1>1, QuietSelf DEF SetPrice
<1>2. CASE price # st.p.price
  <2> DEFINE left == IF st.p.preferred # NoOrder /\ st.p.preferred.locked THEN NoOrder ELSE st.p.preferred
             p == [st.p EXCEPT !.price = price, !.preferred = left]
             a == [st EXCEPT !.p = p]
             released == [st EXCEPT !.p.price = price,
                            !.p.preferred = IF @ # NoOrder /\ @.locked THEN NoOrder ELSE @]
             b == IF st.p.market_mode = "Buy" THEN DetermineMaxVolume(released) ELSE released
             order == [b.p.preferred EXCEPT !.locked = TRUE]
             q == [b.p EXCEPT !.preferred = order]
             c == [b EXCEPT !.p = q]
  <2>1. st.p \in PageStates
    BY DEF AppStates
  <2>2. left \in Picked \cup {NoOrder} /\ (left = NoOrder \/ (st.p.preferred # NoOrder /\ left = st.p.preferred))
    BY <2>1 DEF PageStates
  <2>3. released = a
    BY <2>1 DEF AppStates, PageStates
  <2>5. SetPrice(st, price) = IF b.p.preferred = NoOrder THEN b
                              ELSE [b EXCEPT !.p.preferred.locked = TRUE]
    BY <1>2 DEF SetPrice
  <2> HIDE DEF released
  <2> HIDE DEF left
  <2>6. p \in PageStates /\ p.left = st.p.left /\ p.right = st.p.right
        /\ p.market_mode = st.p.market_mode /\ p.view = st.p.view /\ p.fees = st.p.fees
        /\ p.order_status = st.p.order_status /\ p.preferred = left
    BY <2>1, <2>2 DEF PageStates
  <2> HIDE DEF p
  <2>7. a \in AppStates /\ Quiet(st, a)
    BY <2>2, <2>6, FormEffect
  <2> HIDE DEF a
  <2>8. b \in AppStates /\ Quiet(st, b)
    BY <2>3, <2>7, DetermineMaxEffect, QuietTwice
  <2> HIDE DEF b
  <2>9. CASE b.p.preferred = NoOrder
    BY <2>5, <2>8, <2>9
  <2>10. CASE b.p.preferred # NoOrder
    <3>1. b.p \in PageStates /\ b.p.preferred \in Picked
      BY <2>8, <2>10 DEF AppStates, PageStates
    <3>2. order \in Picked /\ order.order = b.p.preferred.order
      BY <3>1 DEF Picked
    <3>3. [b EXCEPT !.p.preferred.locked = TRUE] = c
      BY <2>8 DEF AppStates
    <3> HIDE DEF order
    <3>4. q \in PageStates /\ q.left = b.p.left /\ q.right = b.p.right
          /\ q.market_mode = b.p.market_mode /\ q.view = b.p.view /\ q.fees = b.p.fees
          /\ q.order_status = b.p.order_status /\ q.preferred = order
      BY <3>1, <3>2 DEF PageStates
    <3> HIDE DEF q
    <3>5. c \in AppStates /\ Quiet(b, c)
      BY <2>8, <2>10, <3>2, <3>4, FormEffect
    <3> HIDE DEF c
    <3>6. SetPrice(st, price) = [b EXCEPT !.p.preferred.locked = TRUE]
      BY <2>5, <2>10
    <3>7. Quiet(st, c)
      BY <2>8, <3>5, QuietTwice
    <3> QED BY <3>3, <3>5, <3>6, <3>7
  <2> QED BY <2>9, <2>10
<1> QED BY <1>1, <1>2

\* The form without an order, its fees and its status: what clear_forms ends with.
LEMMA ForgetEffect ==
  ASSUME NEW st \in AppStates, NEW b \in AppStates, Silent(st, b)
  PROVE  LET after == [b EXCEPT !.p.preferred = NoOrder, !.p.fees = NoFees, !.p.order_status = "None"]
         IN  /\ after \in AppStates /\ Silent(st, after)
             /\ after.p.preferred = NoOrder /\ after.p.fees = NoFees /\ after.p.order_status = "None"
<1> DEFINE p == [b.p EXCEPT !.preferred = NoOrder, !.fees = NoFees, !.order_status = "None"]
           after == [b EXCEPT !.p = p]
<1>1. p \in PageStates /\ p.left = b.p.left /\ p.right = b.p.right
      /\ p.market_mode = b.p.market_mode /\ p.view = b.p.view
      /\ p.preferred = NoOrder /\ p.fees = NoFees /\ p.order_status = "None"
  BY DEF AppStates, PageStates
<1>2. [b EXCEPT !.p.preferred = NoOrder, !.p.fees = NoFees, !.p.order_status = "None"] = after
  BY DEF AppStates, PageStates
<1> HIDE DEF p
<1>3. after \in AppStates /\ after.p = p /\ after.w = b.w /\ after.k = b.k /\ after.c = b.c
  BY <1>1, PageOnly
<1> HIDE DEF after
<1>4. Silent(st, after)
  BY <1>1, <1>3 DEF Silent, Steady, Pair
<1> QED BY <1>1, <1>2, <1>3, <1>4

\* clear_forms, in both views: no order, no fees, no status, and only scans are asked
\* for.
LEMMA ClearFormsEffect ==
  ASSUME NEW st \in AppStates
  PROVE  LET after == ClearForms(st)
         IN  /\ after \in AppStates /\ Silent(st, after)
             /\ after.p.preferred = NoOrder /\ after.p.fees = NoFees /\ after.p.order_status = "None"
<1> DEFINE cancelled == /\ st.p.preferred # NoOrder
                     /\ st.p.view = "Simple"
                     /\ st.p.order_status = "OrderNotExistingAnymore"
           kept == SetVolume(st, st.p.preferred.initial)
           m == st.w.base_max.volume
           a == [kept EXCEPT !.p.max_volume = m]
           b == SetPrice(a, 0)
           c == SetPrice(st, 0)
           d == [c EXCEPT !.p.max_volume = 0]
           e == SetVolume(d, 0)
           f == IF cancelled THEN b ELSE e
<1>1. ClearForms(st) = [f EXCEPT !.p.preferred = NoOrder, !.p.fees = NoFees, !.p.order_status = "None"]
  <2>1. CASE cancelled
    BY <2>1 DEF ClearForms
  <2>2. CASE ~cancelled
    BY <2>2 DEF ClearForms
  <2> QED BY <2>1, <2>2
<1>2. cancelled => b \in AppStates /\ Quiet(st, b)
  <2> SUFFICES ASSUME cancelled PROVE b \in AppStates /\ Quiet(st, b)
    OBVIOUS
  <2>1. st.p.preferred \in Picked
    BY DEF AppStates, PageStates
  <2>2. st.p.preferred.initial \in Nat
    BY <2>1 DEF Picked
  <2>3. m \in Nat
    BY TradingAssumption DEF AppStates, WrapperStates, MaxVolumes, TradingAssumption
  <2>4. kept \in AppStates /\ Quiet(st, kept)
    BY <2>2, SetVolumeEffect
  <2> HIDE DEF kept, m
  <2>5. a \in AppStates /\ Quiet(kept, a)
    BY <2>3, <2>4, VolumesEffect
  <2> HIDE DEF a
  <2>6. b \in AppStates /\ Quiet(a, b)
    BY <2>5, SetPriceEffect
  <2> HIDE DEF b
  <2> QED BY <2>4, <2>5, <2>6, QuietTwice
<1>3. e \in AppStates /\ Quiet(st, e)
  <2>1. c \in AppStates /\ Quiet(st, c)
    BY SetPriceEffect
  <2> HIDE DEF c
  <2>2. d \in AppStates /\ Quiet(c, d)
    BY <2>1, VolumesEffect
  <2> HIDE DEF d
  <2>3. e \in AppStates /\ Quiet(d, e)
    BY <2>2, SetVolumeEffect
  <2> HIDE DEF e
  <2> QED BY <2>1, <2>2, <2>3, QuietTwice
<1> HIDE DEF cancelled, b, e
<1>4. f \in AppStates /\ Silent(st, f)
  BY <1>2, <1>3 DEF Quiet
<1> HIDE DEF f
<1> QED BY <1>1, <1>4, ForgetEffect

\* determine_fees asks for the pair there is.
LEMMA FeesAsked ==
  ASSUME NEW st \in AppStates
  PROVE  LET after == DetermineFees(st)
         IN  /\ after \in AppStates /\ Steady(st, after)
             /\ after.p.fees = st.p.fees /\ after.p.order_status = st.p.order_status
             /\ after.p.preferred = st.p.preferred
<1> DEFINE p == [st.p EXCEPT !.preimage_busy = TRUE]
           busy == [st EXCEPT !.p = p]
           call == [kind |-> "fees", pair |-> Pair(st.p), reset |-> FALSE, form |-> FeesQuestion(st.p)]
           after == Ask(busy, call)
<1>1. CASE st.p.left = st.p.right \/ st.p.volume = 0 \/ st.p.price = 0
  BY <1>1, QuietSelf DEF DetermineFees, Quiet, Silent
<1>2. CASE ~(st.p.left = st.p.right \/ st.p.volume = 0 \/ st.p.price = 0)
  <2>1. st.p \in PageStates
    BY DEF AppStates
  <2>2. p \in PageStates /\ p.left = st.p.left /\ p.right = st.p.right
        /\ p.market_mode = st.p.market_mode /\ p.view = st.p.view /\ p.fees = st.p.fees
        /\ p.order_status = st.p.order_status /\ p.preferred = st.p.preferred
    BY <2>1 DEF PageStates
  <2>3. Pair(st.p) \in TradedPairs
    BY <2>1 DEF PageStates, Pair, TradedPairs
  <2>4. FeesQuestion(st.p) \in Questions /\ FeesQuestion(st.p).pair = Pair(st.p)
    BY <2>1, <2>3 DEF PageStates, Questions, FeesQuestion
  <2>5. call \in CallSet /\ call.kind = "fees" /\ call.form.pair = Pair(st.p)
    BY <2>3, <2>4 DEF CallSet, FeesCalls
  <2>6. DetermineFees(st) = after
    BY <1>2 DEF DetermineFees
  <2> HIDE DEF p, call
  <2>7. busy \in AppStates /\ busy.p = p /\ busy.w = st.w /\ busy.k = st.k /\ busy.c = st.c
    BY <2>2, PageOnly
  <2> HIDE DEF busy
  <2>8. after \in AppStates /\ after.p = p /\ after.w = st.w /\ after.k = st.k
        /\ CallsIn(after.c) = CallsIn(st.c) \cup {call}
    BY <2>5, <2>7, Asking
  <2> HIDE DEF after
  <2>9. Steady(st, after)
    BY <2>2, <2>5, <2>8 DEF Steady
  <2> QED BY <2>2, <2>6, <2>8, <2>9
<1> QED BY <1>1, <1>2

\* An order is taken into the form; what the form asks meanwhile may drop it again.
LEMMA SetPreferredEffect ==
  ASSUME NEW st \in AppStates, NEW order \in Listed, NEW initial \in Nat
  PROVE  LET after == SetPreferredOrder(st, order, initial)
         IN  /\ after \in AppStates /\ Steady(st, after)
             /\ after.p.fees = st.p.fees /\ after.p.order_status = st.p.order_status
             /\ after.p.preferred = NoOrder \/ after.p.preferred.order = order
<1> DEFINE pick == [order |-> order, locked |-> FALSE, capped |-> FALSE,
                      initial |-> initial, theoretical |-> -1]
           p == [st.p EXCEPT !.preferred = pick]
           a == [st EXCEPT !.p = p]
           b == SetPrice(a, order.price)
           c == DetermineMaxVolume(b)
           v == IF st.p.view = "Pro" THEN 1 ELSE initial
           d == SetVolume(c, v)
           e == RefreshBestOrders(d)
           after == DetermineFees(e)
<1>1. SetPreferredOrder(st, order, initial) = after
  BY DEF SetPreferredOrder
<1>2. pick \in Picked /\ pick.order = order
  BY DEF Picked
<1>3. order.price \in Nat /\ v \in Nat
  BY TradingAssumption DEF TradingAssumption
<1>4. st.p \in PageStates
  BY DEF AppStates
<1> HIDE DEF pick
<1>5. p \in PageStates /\ p.left = st.p.left /\ p.right = st.p.right
      /\ p.market_mode = st.p.market_mode /\ p.view = st.p.view /\ p.fees = st.p.fees
      /\ p.order_status = st.p.order_status /\ p.preferred = pick
  BY <1>2, <1>4 DEF PageStates
<1> HIDE DEF p
<1>6. a \in AppStates /\ a.p = p /\ a.w = st.w /\ a.k = st.k /\ a.c = st.c
  BY <1>5, PageOnly
<1> HIDE DEF a, v
<1>7. Steady(st, a) /\ a.p.fees = st.p.fees /\ a.p.order_status = st.p.order_status
      /\ a.p.preferred.order = order
  BY <1>2, <1>5, <1>6 DEF Steady
<1>8. b \in AppStates /\ Quiet(a, b)
  BY <1>3, <1>6, SetPriceEffect
<1> HIDE DEF b
<1>9. c \in AppStates /\ Quiet(b, c)
  BY <1>8, DetermineMaxEffect
<1> HIDE DEF c
<1>10. d \in AppStates /\ Quiet(c, d)
  BY <1>3, <1>9, SetVolumeEffect
<1> HIDE DEF d
<1>11. e \in AppStates /\ Quiet(d, e)
  BY <1>10, RefreshBestEffect
<1> HIDE DEF e
<1>12. /\ after \in AppStates /\ Steady(e, after) /\ after.p.fees = e.p.fees
       /\ after.p.order_status = e.p.order_status /\ after.p.preferred = e.p.preferred
  BY <1>11, FeesAsked
<1> HIDE DEF after
<1>13. Quiet(a, e)
  BY <1>8, <1>9, <1>10, <1>11, QuietTwice
<1>14. Steady(st, e)
  BY <1>7, <1>13, SteadyTwice DEF Quiet, Silent
<1> QED BY <1>1, <1>7, <1>12, <1>13, <1>14, SteadyTwice DEF Quiet

\* set_preferred_settings fills the form in, and selects no order.
LEMMA SettingsEffect ==
  ASSUME NEW st \in AppStates
  PROVE  SetPreferredSettings(st) \in AppStates /\ Quiet(st, SetPreferredSettings(st))
<1> DEFINE a == SetPrice(st, 1)
           b == DetermineMaxVolume(a)
           c == SetVolume(b, b.p.max_volume)
<1>1. SetPreferredSettings(st) = IF Pair(st.p) \notin BotPairs THEN st ELSE c
  BY DEF SetPreferredSettings
<1>2. a \in AppStates /\ Quiet(st, a)
  BY SetPriceEffect
<1> HIDE DEF a
<1>3. b \in AppStates /\ Quiet(a, b)
  BY <1>2, DetermineMaxEffect
<1> HIDE DEF b
<1>4. b.p.max_volume \in Nat
  BY <1>3 DEF AppStates, PageStates
<1>5. c \in AppStates /\ Quiet(b, c)
  BY <1>3, <1>4, SetVolumeEffect
<1> HIDE DEF c
<1> QED BY <1>1, <1>2, <1>3, <1>5, QuietTwice, QuietSelf

\* An event is pushed for the tick.
LEMMA PushEffect ==
  ASSUME NEW st \in AppStates, NEW is_a_reset \in BOOLEAN
  PROVE  PushFinished(st, is_a_reset) \in AppStates /\ Quiet(st, PushFinished(st, is_a_reset))
<1> DEFINE p == [st.p EXCEPT !.actions = @ + 1, !.need_a_reset = is_a_reset]
           a == [st EXCEPT !.p = p]
<1>1. PushFinished(st, is_a_reset) = DetermineMaxVolume(a)
  <2>1. [st EXCEPT !.p.actions = @ + 1, !.p.need_a_reset = is_a_reset] = a
    BY DEF AppStates, PageStates
  <2> HIDE DEF a
  <2> QED BY <2>1 DEF PushFinished
<1>2. st.p \in PageStates /\ st.p.actions \in Nat
  BY DEF AppStates, PageStates
<1>3. st.p.actions + 1 \in Nat
  BY <1>2
<1>4. p \in PageStates /\ p.left = st.p.left /\ p.right = st.p.right
      /\ p.market_mode = st.p.market_mode /\ p.view = st.p.view /\ p.fees = st.p.fees
      /\ p.order_status = st.p.order_status /\ p.preferred = st.p.preferred
  BY <1>2, <1>3 DEF PageStates
<1> HIDE DEF p
<1>5. a \in AppStates /\ Quiet(st, a)
  BY <1>4, FormEffect
<1> HIDE DEF a
<1> QED BY <1>1, <1>5, DetermineMaxEffect, QuietTwice

\* The pair becomes another one: the book of it is asked for, kdf_service has it, and
\* the form and the rows are cleared, or, in the simple view, stay.
Turned(st, after) ==
  LET coinPair == Pair(after.p) IN
  /\ after \in AppStates
  /\ after.k.pair = coinPair
  /\ after.p.view = st.p.view
  /\ after.p.market_mode = st.p.market_mode
  /\ after.w.selected_best = st.w.selected_best
  /\ after.k.book = st.k.book
  /\ \/ /\ after.p.preferred = NoOrder /\ after.p.fees = NoFees /\ after.w.rows = {}
     \/ /\ Pair(st.p) = coinPair \/ st.p.view = "Simple"
        /\ after.p.preferred = st.p.preferred /\ after.p.fees = st.p.fees
        /\ after.p.order_status = st.p.order_status
        /\ after.w.rows = st.w.rows /\ after.w.rows_pair = st.w.rows_pair
  /\ CallsIn(st.c) \subseteq CallsIn(after.c)
  /\ [kind |-> "book", pair |-> coinPair, reset |-> TRUE] \in CallsIn(after.c)
  /\ \A call \in CallsIn(after.c) \ CallsIn(st.c) :
       \/ call.kind = "best"
       \/ call.kind = "book" /\ call.pair = coinPair

\* kdf_service is given the pair, and asked for its book.
LEMMA RefreshPairEffect ==
  ASSUME NEW st \in AppStates, NEW coinPair \in TradedPairs
  PROVE  LET after == RefreshPair(st, coinPair)
         IN  /\ after \in AppStates /\ after.p = st.p /\ after.w = st.w
             /\ after.k.pair = coinPair /\ after.k.book = st.k.book
             /\ CallsIn(after.c) = CallsIn(st.c) \cup {[kind |-> "book", pair |-> coinPair, reset |-> TRUE]}
<1> DEFINE k == [st.k EXCEPT !.pair = coinPair]
           a == [st EXCEPT !.k = k]
           call == [kind |-> "book", pair |-> coinPair, reset |-> TRUE]
<1>1. RefreshPair(st, coinPair) = Ask(a, call)
  BY DEF RefreshPair
<1>2. k \in KdfStates /\ k.pair = coinPair /\ k.book = st.k.book
  BY DEF AppStates, KdfStates
<1>3. call \in CallSet
  BY DEF CallSet, OtherCalls
<1> HIDE DEF k, call
<1>4. a \in AppStates /\ a.p = st.p /\ a.w = st.w /\ a.k = k /\ a.c = st.c
  BY <1>2 DEF AppStates
<1> HIDE DEF a
<1>5. /\ Ask(a, call) \in AppStates /\ Ask(a, call).p = a.p /\ Ask(a, call).w = a.w
      /\ Ask(a, call).k = a.k /\ CallsIn(Ask(a, call).c) = CallsIn(a.c) \cup {call}
  BY <1>3, <1>4, Asking
<1> QED BY <1>1, <1>2, <1>4, <1>5 DEF call

\* set_current_orderbook: the pair turns, or the coin cannot be traded and nothing
\* happens.
LEMMA OrderbookEffect ==
  ASSUME NEW st \in AppStates, NEW left \in Coins, NEW right \in Coins
  PROVE  LET after == SetCurrentOrderbook(st, left, right)
         IN  IF left \in WalletOnly THEN after = st
             ELSE /\ Turned(st, after) /\ after.p.left = left /\ after.p.right = right
                  /\ st.p.view = "Pro" /\ Pair(st.p) # <<left, right>> =>
                       after.p.preferred = NoOrder /\ after.p.fees = NoFees /\ after.w.rows = {}
<1>1. CASE left \in WalletOnly
  BY <1>1 DEF SetCurrentOrderbook
<1>2. CASE left \notin WalletOnly
  <2> DEFINE coinPair == <<left, right>>
             call == [kind |-> "book", pair |-> coinPair, reset |-> TRUE]
             p == [st.p EXCEPT !.left = left, !.right = right]
             w == [st.w EXCEPT !.rows = {}, !.rows_pair = NoPair, !.best_orders = {}]
             a == [st EXCEPT !.p = p]
             b == [a EXCEPT !.w = w]
             clearing == Pair(st.p) # coinPair /\ st.p.view = "Pro"
             c == IF clearing THEN ClearForms(b) ELSE a
             after == RefreshPair(c, coinPair)
  <2>1. st.p \in PageStates /\ st.w \in WrapperStates
    BY DEF AppStates
  <2>2. SetCurrentOrderbook(st, left, right) = after
    <3>1. [st EXCEPT !.p.left = left, !.p.right = right] = a
      BY <2>1 DEF AppStates, PageStates
    <3>2. [a EXCEPT !.w.rows = {}, !.w.rows_pair = NoPair, !.w.best_orders = {}] = b
      BY <2>1 DEF AppStates, WrapperStates
    <3> DEFINE selected == [st EXCEPT !.p.left = left, !.p.right = right]
               emptied == [selected EXCEPT !.w.rows = {}, !.w.rows_pair = NoPair, !.w.best_orders = {}]
    <3>3. SetCurrentOrderbook(st, left, right)
            = RefreshPair(IF clearing THEN ClearForms(emptied) ELSE selected, coinPair)
      BY <1>2 DEF SetCurrentOrderbook
    <3> HIDE DEF a, b
    <3> QED BY <3>1, <3>2, <3>3
  <2>3. /\ p \in PageStates /\ p.left = left /\ p.right = right
        /\ p.market_mode = st.p.market_mode /\ p.view = st.p.view /\ p.fees = st.p.fees
        /\ p.order_status = st.p.order_status /\ p.preferred = st.p.preferred
    BY <1>2, <2>1 DEF PageStates
  <2>4. w \in WrapperStates /\ w.rows = {} /\ w.selected_best = st.w.selected_best
    BY <2>1 DEF WrapperStates
  <2> HIDE DEF p, w
  <2>5. a \in AppStates /\ a.p = p /\ a.w = st.w /\ a.k = st.k /\ a.c = st.c
    BY <2>3, PageOnly
  <2> HIDE DEF a
  <2>6. b \in AppStates /\ b.p = p /\ b.w = w /\ b.k = st.k /\ b.c = st.c
    BY <2>4, <2>5, WrapperOnly
  <2> HIDE DEF b
  <2>7. coinPair \in TradedPairs /\ Pair(p) = coinPair
    BY <2>3 DEF TradedPairs, Pair
  <2>8. /\ c \in AppStates /\ c.k = st.k /\ Pair(c.p) = coinPair /\ c.p.left = left /\ c.p.right = right
        /\ c.p.view = st.p.view /\ c.p.market_mode = st.p.market_mode
        /\ c.w.selected_best = st.w.selected_best
        /\ IF clearing
           THEN c.p.preferred = NoOrder /\ c.p.fees = NoFees /\ c.w.rows = {}
           ELSE /\ c.p.preferred = st.p.preferred /\ c.p.fees = st.p.fees
                /\ c.p.order_status = st.p.order_status
                /\ c.w.rows = st.w.rows /\ c.w.rows_pair = st.w.rows_pair
        /\ CallsIn(st.c) \subseteq CallsIn(c.c)
        /\ \A x \in CallsIn(c.c) \ CallsIn(st.c) :
             x.kind = "best"
    <3>1. CASE clearing
      <4>1. c = ClearForms(b)
        BY <3>1
      <4>2. /\ c \in AppStates /\ Silent(b, c) /\ c.p.preferred = NoOrder /\ c.p.fees = NoFees
        BY <2>6, <4>1, ClearFormsEffect
      <4> HIDE DEF c
      <4> QED BY <2>3, <2>4, <2>6, <2>7, <3>1, <4>2 DEF Silent, Steady, Pair
    <3>2. CASE ~clearing
      <4>1. c = a
        BY <3>2
      <4> HIDE DEF c
      <4> QED BY <2>3, <2>5, <2>7, <3>2, <4>1
    <3> QED BY <3>1, <3>2
  <2> HIDE DEF c, coinPair
  <2>9. /\ after \in AppStates /\ after.p = c.p /\ after.w = c.w
        /\ after.k.pair = coinPair /\ after.k.book = c.k.book
        /\ CallsIn(after.c) = CallsIn(c.c) \cup {call}
    BY <2>7, <2>8, RefreshPairEffect
  <2>10. call.kind = "book" /\ call.pair = coinPair
    OBVIOUS
  <2>11. clearing \/ Pair(st.p) = coinPair \/ st.p.view = "Simple"
    BY <2>1 DEF PageStates
  <2> DEFINE asked == call
  <2>12. asked = [kind |-> "book", pair |-> coinPair, reset |-> TRUE] /\ asked.kind = "book" /\ asked.pair = coinPair
    OBVIOUS
  <2> HIDE DEF after, asked, clearing
  <2>13. Turned(st, after)
    <3>1. CallsIn(after.c) = CallsIn(c.c) \cup {asked}
      BY <2>9, <2>12
    <3>2. asked \in CallsIn(after.c) /\ CallsIn(st.c) \subseteq CallsIn(after.c)
      BY <2>8, <3>1
    <3>3. \A x \in CallsIn(after.c) \ CallsIn(st.c) :
             x.kind = "best" \/ (x.kind = "book" /\ x.pair = coinPair)
      BY <2>8, <2>12, <3>1
    <3>4. Pair(after.p) = coinPair
      BY <2>8, <2>9
    <3> QED BY <2>8, <2>9, <2>11, <2>12, <3>2, <3>3, <3>4 DEF Turned
  <2>14. st.p.view = "Pro" /\ Pair(st.p) # coinPair => clearing
    BY DEF clearing
  <2> QED BY <1>2, <2>2, <2>8, <2>9, <2>13, <2>14 DEF coinPair
<1> QED BY <1>1, <1>2
-----------------------------------------------------------------------------
(* The inductive invariant. Each part speaks of a state and of the         *)
(* excuses there are, so that it can be shown of what a handler leaves     *)
(* before the step is over: a pair that is half turned, an order that      *)
(* waits while the pair is still the old one.                              *)

PairOf(o) == <<o.base, o.rel>>

\* The rows shown, and kdf_service's book, are of the pair they are labelled with.
RowsAreOfOnePair(st) ==
  /\ \A o \in st.w.rows : PairOf(o) = st.w.rows_pair
  /\ \A o \in st.k.book.orders : PairOf(o) = st.k.book.pair

\* The fees are of the pair, and so will be those that are being asked for.
FeesFollow(st, why) ==
  \/ why \cap {"late_fees", "kept_fees", "disabled"} # {}
  \/ /\ st.p.fees # NoFees => st.p.fees.pair = Pair(st.p)
     /\ \A call \in CallsIn(st.c) : call.kind = "fees" => call.form.pair = Pair(st.p)

\* The selected order is of the pair, and so is the one that waits for its book.
PickedFollows(st, why) ==
  \/ why \cap {"overtaken", "disabled", "other_book"} # {}
  \/ st.p.preferred = NoOrder
  \/ PairOf(st.p.preferred.order) = Pair(st.p)
  \/ st.p.view = "Simple" /\ st.w.selected_best # NoOrder

WaitingFollows(st, why) ==
  \/ why \cap {"overtaken", "disabled", "other_book"} # {}
  \/ st.w.selected_best = NoOrder
  \/ PairOf(st.w.selected_best.order) = Pair(st.p)

\* No answer is under way for another pair, and the volumes are of the pair or will
\* be: they are being asked for, or the book is whose answer asks for them.
VolumesFollow(st, why) ==
  \/ why \cap {"overlapped", "refused"} # {}
  \/ /\ \A call \in CallsIn(st.c) : call.kind \in {"book", "extras"} => call.pair = st.k.pair
     /\ \/ /\ st.k.base_max.coin = st.k.pair[1] /\ st.k.rel_max.coin = st.k.pair[2]
           /\ st.k.min_coins = st.k.pair
        \/ \E call \in CallsIn(st.c) : call.kind = "extras" \/ (call.kind = "book" /\ call.reset)

\* An order that is not among the rows has a status.
VanishedIsKnown(st, why) ==
  \/ "unnoticed" \in why
  \/ st.p.market_mode # "Sell" \/ st.p.preferred = NoOrder
  \/ st.p.preferred.order \in st.w.rows
  \/ st.p.order_status # "None"

\* What holds in any pair, and what holds besides when the pair is the page's.
Settled(st, why) ==
  /\ st \in AppStates
  /\ RowsAreOfOnePair(st) /\ FeesFollow(st, why) /\ PickedFollows(st, why) /\ VanishedIsKnown(st, why)

Sound(st, why) ==
  /\ Settled(st, why) /\ st.k.pair = Pair(st.p)
  /\ WaitingFollows(st, why) /\ VolumesFollow(st, why)

TradingInv ==
  /\ Sound(App, excuses)
  /\ market \subseteq Listed /\ funds \in [Coins -> 0..MaxFunds]

\* An excuse more makes nothing false.
LEMMA MoreExcuses ==
  ASSUME NEW st, NEW why, NEW more, Sound(st, why), why \subseteq more
  PROVE  Sound(st, more)
BY DEF Sound, Settled, FeesFollow, PickedFollows, WaitingFollows, VolumesFollow, VanishedIsKnown

\* The form is worked on, and the order it is filled from stays the same or goes.
LEMMA SteadySound ==
  ASSUME NEW st, NEW why, NEW after \in AppStates, Sound(st, why), Steady(st, after),
         after.p.fees = NoFees \/ after.p.fees = st.p.fees,
         \/ after.p.preferred = NoOrder
         \/ /\ st.p.preferred # NoOrder /\ after.p.preferred.order = st.p.preferred.order
            /\ after.p.order_status = st.p.order_status
  PROVE  Sound(after, why)
<1>1. Pair(after.p) = Pair(st.p) /\ after.k.pair = Pair(after.p)
  BY DEF Steady, Pair, Sound
<1>2. RowsAreOfOnePair(after)
  BY DEF Steady, Sound, Settled, RowsAreOfOnePair
<1>3. FeesFollow(after, why)
  BY <1>1 DEF Steady, Sound, Settled, FeesFollow
<1>4. PickedFollows(after, why) /\ WaitingFollows(after, why)
  BY <1>1 DEF Steady, Sound, Settled, PickedFollows, WaitingFollows
<1>5. VanishedIsKnown(after, why)
  BY DEF Steady, Sound, Settled, VanishedIsKnown
<1>6. VolumesFollow(after, why)
  BY <1>1 DEF Steady, Sound, VolumesFollow
<1> QED BY <1>1, <1>2, <1>3, <1>4, <1>5, <1>6 DEF Sound, Settled

\* So no handler that selects no order breaks the invariant.
LEMMA QuietSound ==
  ASSUME NEW st, NEW why, NEW after \in AppStates, Sound(st, why), Quiet(st, after)
  PROVE  Sound(after, why)
BY SteadySound DEF Quiet, Silent

\* Nor does clear_forms.
LEMMA ClearedSound ==
  ASSUME NEW st \in AppStates, NEW why, Sound(st, why)
  PROVE  Sound(ClearForms(st), why)
BY ClearFormsEffect, SteadySound DEF Silent

\* The pair is turned to another one, with an excuse for what is left behind.
LEMMA TurnedSound ==
  ASSUME NEW st, NEW why, NEW after, Settled(st, why), Turned(st, after),
         \/ why \cap {"overlapped", "refused"} # {}
         \/ \A call \in CallsIn(st.c) : call.kind \notin {"book", "extras"},
         \/ why \cap {"late_fees", "kept_fees", "disabled"} # {}
         \/ /\ \A call \in CallsIn(st.c) : call.kind # "fees"
            /\ st.p.view # "Simple" \/ st.p.fees = NoFees
         \/ Pair(st.p) = Pair(after.p),
         \/ why \cap {"overtaken", "disabled", "other_book"} # {}
         \/ st.p.view # "Simple" \/ st.p.preferred = NoOrder \/ st.w.selected_best # NoOrder
         \/ Pair(st.p) = Pair(after.p),
         \/ why \cap {"overtaken", "disabled", "other_book"} # {}
         \/ st.w.selected_best = NoOrder
         \/ PairOf(st.w.selected_best.order) = Pair(after.p)
  PROVE  Sound(after, why)
<1>1. after \in AppStates /\ after.k.pair = Pair(after.p)
  BY DEF Turned
<1>2. RowsAreOfOnePair(after)
  BY DEF Turned, Settled, RowsAreOfOnePair
<1>3. FeesFollow(after, why)
  BY DEF Turned, Settled, FeesFollow
<1>4. PickedFollows(after, why)
  BY DEF Turned, Settled, PickedFollows
<1>5. WaitingFollows(after, why)
  BY DEF Turned, WaitingFollows
<1>6. VanishedIsKnown(after, why)
  BY DEF Turned, Settled, VanishedIsKnown
<1>7. VolumesFollow(after, why)
  <2>1. CASE why \cap {"overlapped", "refused"} # {}
    BY <2>1 DEF VolumesFollow
  <2>2. CASE \A call \in CallsIn(st.c) : call.kind \notin {"book", "extras"}
    <3> DEFINE asked == [kind |-> "book", pair |-> Pair(after.p), reset |-> TRUE]
    <3>1. asked \in CallsIn(after.c) /\ asked.kind = "book" /\ asked.reset
      BY DEF Turned
    <3>2. \A call \in CallsIn(after.c) : call.kind \in {"book", "extras"} => call.pair = Pair(after.p)
      BY <2>2 DEF Turned
    <3> HIDE DEF asked
    <3> QED BY <1>1, <3>1, <3>2 DEF VolumesFollow
  <2> QED BY <2>1, <2>2
<1> QED BY <1>1, <1>2, <1>3, <1>4, <1>5, <1>6, <1>7 DEF Sound, Settled

\* The handlers that change the pair or the mode end in set_current_orderbook.
LEMMA SetPairEffect ==
  ASSUME NEW st \in AppStates, NEW is_left_side \in BOOLEAN, NEW coin \in Coins,
         coin # (IF is_left_side THEN st.p.left ELSE st.p.right)
  PROVE  LET after == SetPair(st, is_left_side, coin)
             coinPair == IF coin = (IF is_left_side THEN st.p.right ELSE st.p.left)
                     THEN <<st.p.right, st.p.left>>
                     ELSE IF is_left_side THEN <<coin, st.p.right>> ELSE <<st.p.left, coin>>
         IN  (after = st /\ coinPair[1] \in WalletOnly) \/ (Turned(st, after) /\ Pair(after.p) = coinPair)
<1>1. st.p.left \in Coins /\ st.p.right \in Coins
  BY DEF AppStates, PageStates
<1>2. ASSUME NEW l \in Coins, NEW r \in Coins
      PROVE  \/ SetCurrentOrderbook(st, l, r) = st /\ l \in WalletOnly
             \/ /\ Turned(st, SetCurrentOrderbook(st, l, r))
                /\ Pair(SetCurrentOrderbook(st, l, r).p) = <<l, r>>
  BY OrderbookEffect DEF Pair
<1> QED BY <1>1, <1>2 DEF SetPair

\* A step that commits a state ends in it.
LEMMA CommitsState == ASSUME NEW st \in AppStates, Commit(st) PROVE App' = st
BY DEF Commit, App, AppStates

\* The status only grows, and an order that leaves the rows gets one.
LEMMA StatusEffect ==
  ASSUME NEW st \in AppStates, NEW rows \in SUBSET Listed
  PROVE  LET status == StatusAfter(st, rows)
         IN  /\ status \in {"None", "BetterPriceAvailable", "OrderNotExistingAnymore"}
             /\ status = st.p.order_status \/ status # "None"
             /\ (/\ st.p.market_mode = "Sell" /\ st.p.preferred # NoOrder
                 /\ st.p.preferred.order \in st.w.rows \ rows) => status # "None"
<1>1. st.p.order_status \in {"None", "BetterPriceAvailable", "OrderNotExistingAnymore"}
  BY DEF AppStates, PageStates
<1> QED BY <1>1 DEF StatusAfter

\* The rows become those of kdf_service's book; the volumes come with them.
\* set_both_taker_vol copies the volumes of kdf_service.
LEMMA VolumesShown ==
  ASSUME NEW st \in AppStates
  PROVE  LET after == SetBothTakerVol(st)
         IN  /\ after \in AppStates /\ after.p = st.p /\ after.k = st.k /\ after.c = st.c
             /\ after.w.rows = st.w.rows /\ after.w.rows_pair = st.w.rows_pair
             /\ after.w.selected_best = st.w.selected_best
<1> DEFINE w == [st.w EXCEPT !.base_max = st.k.base_max, !.rel_max = st.k.rel_max,
                             !.min_coins = st.k.min_coins]
           a == [st EXCEPT !.w = w]
<1>1. st.w \in WrapperStates /\ st.k \in KdfStates
  BY DEF AppStates
<1>2. SetBothTakerVol(st) = a
  BY <1>1 DEF SetBothTakerVol, AppStates, WrapperStates
<1>3. /\ w \in WrapperStates /\ w.rows = st.w.rows /\ w.rows_pair = st.w.rows_pair
      /\ w.selected_best = st.w.selected_best
  BY <1>1 DEF WrapperStates, KdfStates
<1> HIDE DEF w
<1>4. a \in AppStates /\ a.p = st.p /\ a.w = w /\ a.k = st.k /\ a.c = st.c
  BY <1>3, WrapperOnly
<1> QED BY <1>2, <1>3, <1>4

\* refresh_orderbook: the rows become those of the book, and the status is theirs.
LEMMA RefreshEffect ==
  ASSUME NEW st \in AppStates
  PROVE  LET after == RefreshOrderbook(st, st.k.book)
         IN  /\ after \in AppStates /\ after.k = st.k /\ after.c = st.c
             /\ Pair(after.p) = Pair(st.p) /\ after.p.view = st.p.view
             /\ after.p.market_mode = st.p.market_mode
             /\ after.p.preferred = st.p.preferred /\ after.p.fees = st.p.fees
             /\ after.p.order_status = StatusAfter(st, st.k.book.orders)
             /\ after.w.rows = st.k.book.orders /\ after.w.rows_pair = st.k.book.pair
             /\ after.w.selected_best = st.w.selected_best
<1> DEFINE book == st.k.book
           status == StatusAfter(st, book.orders)
           p == [st.p EXCEPT !.order_status = status]
           w == [st.w EXCEPT !.rows = book.orders, !.rows_pair = book.pair,
                             !.best_orders = st.w.best_infos]
           a == [st EXCEPT !.p = p]
           b == [a EXCEPT !.w = w]
           raw == [st EXCEPT !.p.order_status = status,
                             !.w.rows = book.orders, !.w.rows_pair = book.pair,
                             !.w.best_orders = st.w.best_infos]
<1>1. st.p \in PageStates /\ st.w \in WrapperStates /\ book \in Books
  BY DEF AppStates, KdfStates
<1>2. book.orders \in SUBSET Listed /\ book.pair \in TradedPairs \cup {NoPair}
  BY <1>1 DEF Books
<1>3. RefreshOrderbook(st, st.k.book) = SetBothTakerVol(raw)
  BY DEF RefreshOrderbook
<1> HIDE DEF book
<1>4. status \in {"None", "BetterPriceAvailable", "OrderNotExistingAnymore"}
  BY <1>2, StatusEffect
<1> HIDE DEF status
<1>5. raw = b
  BY <1>1 DEF AppStates, PageStates, WrapperStates
<1> HIDE DEF raw
<1>6. /\ p \in PageStates /\ Pair(p) = Pair(st.p) /\ p.view = st.p.view
      /\ p.market_mode = st.p.market_mode /\ p.preferred = st.p.preferred
      /\ p.fees = st.p.fees /\ p.order_status = status
  BY <1>1, <1>4 DEF PageStates, Pair
<1>7. /\ w \in WrapperStates /\ w.rows = book.orders /\ w.rows_pair = book.pair
      /\ w.selected_best = st.w.selected_best
  BY <1>1, <1>2 DEF WrapperStates
<1> HIDE DEF p, w
<1>8. a \in AppStates /\ a.p = p /\ a.w = st.w /\ a.k = st.k /\ a.c = st.c
  BY <1>6, PageOnly
<1> HIDE DEF a
<1>9. b \in AppStates /\ b.p = p /\ b.w = w /\ b.k = st.k /\ b.c = st.c
  BY <1>7, <1>8, WrapperOnly
<1> HIDE DEF b
<1> QED BY <1>3, <1>5, <1>6, <1>7, <1>9, VolumesShown DEF book, status

\* What is left alone when the rows and the order that waits may change.
Fixed(st, after) ==
  /\ after.k = st.k
  /\ Pair(after.p) = Pair(st.p)
  /\ after.p.market_mode = st.p.market_mode /\ after.p.view = st.p.view
  /\ CallsIn(st.c) \subseteq CallsIn(after.c)
  /\ \A call \in CallsIn(after.c) \ CallsIn(st.c) :
       call.kind = "best" \/ (call.kind = "fees" /\ call.form.pair = Pair(st.p))

\* The same of handlers that call each other.
LEMMA FixedTwice ==
  ASSUME NEW a, NEW b, NEW c, Fixed(a, b), Fixed(b, c)
  PROVE  Fixed(a, c)
BY DEF Fixed

LEMMA SteadyFixed == ASSUME NEW a, NEW b, Steady(a, b) PROVE Fixed(a, b)
BY DEF Steady, Fixed, Pair

\* reset_orderbook: the rows become those of the book, and the order that waits is
\* selected.
LEMMA ResetEffect ==
  ASSUME NEW st \in AppStates
  PROVE  LET after == ResetOrderbook(st, st.k.book)
         IN  /\ after \in AppStates /\ Fixed(st, after)
             /\ after.p.fees = st.p.fees /\ after.p.order_status = st.p.order_status
             /\ after.w.rows = st.k.book.orders /\ after.w.rows_pair = st.k.book.pair
             /\ after.w.selected_best = NoOrder
             /\ \/ after.p.preferred = NoOrder
                \/ /\ st.w.selected_best = NoOrder /\ st.p.preferred # NoOrder
                   /\ after.p.preferred.order = st.p.preferred.order
                \/ /\ st.w.selected_best # NoOrder
                   /\ after.p.preferred.order = st.w.selected_best.order
<1> DEFINE book == st.k.book
           w == [st.w EXCEPT !.rows = book.orders, !.rows_pair = book.pair]
           a == [st EXCEPT !.w = w]
           raw == [st EXCEPT !.w.rows = book.orders, !.w.rows_pair = book.pair]
           b == SetBothTakerVol(a)
           best == st.w.selected_best
           c == IF best = NoOrder THEN b ELSE SetPreferredOrder(b, best.order, best.initial)
           v == [c.w EXCEPT !.selected_best = NoOrder, !.best_orders = {}]
           d == [c EXCEPT !.w = v]
           last == [c EXCEPT !.w.selected_best = NoOrder, !.w.best_orders = {}]
           after == ProcessBestOrders(d)
<1>1. st.w \in WrapperStates /\ book \in Books
  BY DEF AppStates, KdfStates
<1>2. book.orders \in SUBSET Listed /\ book.pair \in TradedPairs \cup {NoPair}
  BY <1>1 DEF Books
<1>3. best = NoOrder \/ (best.order \in Listed /\ best.initial \in Nat)
  BY <1>1 DEF WrapperStates, WaitingOrders
<1>4. raw = a
  BY <1>1 DEF AppStates, WrapperStates
<1>5. ResetOrderbook(st, book) = ProcessBestOrders(last)
  <2> DEFINE e == SetBothTakerVol(raw)
             f == IF best = NoOrder THEN e ELSE SetPreferredOrder(e, best.order, best.initial)
  <2>1. ResetOrderbook(st, book)
          = ProcessBestOrders([f EXCEPT !.w.selected_best = NoOrder, !.w.best_orders = {}])
    BY DEF ResetOrderbook
  <2>2. f = c
    <3> HIDE DEF raw, a
    <3> QED BY <1>4
  <2> HIDE DEF c, f
  <2> QED BY <2>1, <2>2
<1> HIDE DEF book
<1>6. /\ w \in WrapperStates /\ w.rows = book.orders /\ w.rows_pair = book.pair
      /\ w.selected_best = best
  BY <1>1, <1>2 DEF WrapperStates
<1> HIDE DEF w, raw
<1>7. a \in AppStates /\ a.p = st.p /\ a.w = w /\ a.k = st.k /\ a.c = st.c
  BY <1>6, WrapperOnly
<1> HIDE DEF a
<1>8. /\ b \in AppStates /\ b.p = st.p /\ b.k = st.k /\ b.c = st.c
      /\ b.w.rows = book.orders /\ b.w.rows_pair = book.pair /\ b.w.selected_best = best
  BY <1>6, <1>7, VolumesShown
<1> HIDE DEF b, best
<1>9. Fixed(st, b)
  BY <1>8 DEF Fixed
<1>10. /\ c \in AppStates /\ Steady(b, c)
       /\ c.p.fees = st.p.fees /\ c.p.order_status = st.p.order_status
       /\ \/ c.p.preferred = NoOrder
          \/ best = NoOrder /\ c.p.preferred = st.p.preferred
          \/ best # NoOrder /\ c.p.preferred.order = best.order
  <2>1. CASE best = NoOrder
    BY <1>8, <2>1, QuietSelf DEF Quiet, Silent
  <2>2. CASE best # NoOrder
    <3>1. c = SetPreferredOrder(b, best.order, best.initial)
      BY <2>2
    <3> HIDE DEF c
    <3> QED BY <1>3, <1>8, <2>2, <3>1, SetPreferredEffect
  <2> QED BY <2>1, <2>2
<1> HIDE DEF c
<1>11. c.w \in WrapperStates
  BY <1>10 DEF AppStates
<1>12. last = d
  BY <1>10, <1>11 DEF AppStates, WrapperStates
<1>13. v \in WrapperStates /\ v.rows = c.w.rows /\ v.rows_pair = c.w.rows_pair /\ v.selected_best = NoOrder
  BY <1>11 DEF WrapperStates, WaitingOrders
<1> HIDE DEF v, last
<1>14. d \in AppStates /\ d.p = c.p /\ d.w = v /\ d.k = c.k /\ d.c = c.c
  BY <1>10, <1>13, WrapperOnly
<1> HIDE DEF d
<1>15. Fixed(c, d)
  BY <1>14 DEF Fixed
<1>16. after \in AppStates /\ Quiet(d, after)
  BY <1>14, ScanEffect
<1> HIDE DEF after
<1>17. Fixed(st, after)
  <2>1. Fixed(b, c) /\ Fixed(d, after)
    BY <1>10, <1>16, SteadyFixed DEF Quiet, Silent
  <2> QED BY <1>9, <1>15, <2>1, FixedTwice
<1>18. /\ after.w.rows = book.orders /\ after.w.rows_pair = book.pair /\ after.w.selected_best = NoOrder
  BY <1>8, <1>10, <1>13, <1>14, <1>16 DEF Quiet, Silent, Steady
<1>19. /\ after.p.fees = st.p.fees /\ after.p.order_status = st.p.order_status
       /\ \/ after.p.preferred = NoOrder
          \/ /\ best = NoOrder /\ st.p.preferred # NoOrder
             /\ after.p.preferred.order = st.p.preferred.order
          \/ best # NoOrder /\ after.p.preferred.order = best.order
  BY <1>10, <1>14, <1>16 DEF Quiet
<1>20. ResetOrderbook(st, st.k.book) = after
  BY <1>5, <1>12 DEF book, after
<1> QED BY <1>16, <1>17, <1>18, <1>19, <1>20 DEF book, best

\* A call leaves the sequence: of the others none is lost.
LEMMA CallEnds ==
  ASSUME NEW S, NEW s \in Seq(S), NEW k \in DOMAIN s
  PROVE  /\ RemoveAt(s, k) \in Seq(S) /\ s[k] \in S /\ s[k] \in CallsIn(s)
         /\ CallsIn(RemoveAt(s, k)) \subseteq CallsIn(s)
         /\ CallsIn(s) \subseteq CallsIn(RemoveAt(s, k)) \cup {s[k]}
<1> DEFINE a == SubSeq(s, 1, k - 1)
           b == SubSeq(s, k + 1, Len(s))
<1>1. /\ Len(s) \in Nat /\ k \in Nat /\ 1 <= k /\ k <= Len(s)
      /\ DOMAIN s = 1..Len(s) /\ \A i \in 1..Len(s) : s[i] \in S
  BY LenProperties, ElementOfSeq
<1>2. /\ a \in Seq(S) /\ Len(a) = k - 1 /\ \A i \in 1..(k - 1) : a[i] = s[i]
  <2>1. \A i \in 1..(k - 1) : s[i] \in S
    BY <1>1
  <2>2. /\ a \in Seq(S) /\ Len(a) = IF 1 <= k - 1 THEN k - 1 - 1 + 1 ELSE 0
        /\ \A i \in 1..(k - 1 - 1 + 1) : a[i] = s[1 + i - 1]
    BY <1>1, <2>1, SubSeqProperties
  <2> QED BY <1>1, <2>2
<1>3. /\ b \in Seq(S) /\ Len(b) = Len(s) - k /\ \A i \in 1..(Len(s) - k) : b[i] = s[k + i]
  <2>1. \A i \in (k + 1)..Len(s) : s[i] \in S
    BY <1>1
  <2>2. /\ b \in Seq(S) /\ Len(b) = IF k + 1 <= Len(s) THEN Len(s) - (k + 1) + 1 ELSE 0
        /\ \A i \in 1..(Len(s) - (k + 1) + 1) : b[i] = s[k + 1 + i - 1]
    BY <1>1, <2>1, SubSeqProperties
  <2> QED BY <1>1, <2>2
<1> HIDE DEF a, b
<1>4. /\ a \o b \in Seq(S) /\ Len(a \o b) = Len(a) + Len(b)
      /\ \A i \in 1..(Len(a) + Len(b)) : (a \o b)[i] = IF i <= Len(a) THEN a[i] ELSE b[i - Len(a)]
  BY <1>2, <1>3, ConcatProperties
<1>5. Len(a \o b) = Len(s) - 1 /\ DOMAIN (a \o b) = 1..(Len(s) - 1)
  <2>1. Len(a) + Len(b) = Len(s) - 1
    BY <1>1, <1>2, <1>3
  <2>2. DOMAIN (a \o b) = 1..Len(a \o b)
    BY <1>4, LenProperties
  <2> QED BY <1>4, <2>1, <2>2
<1>6. ASSUME NEW i \in 1..(Len(s) - 1)
      PROVE  (a \o b)[i] = s[IF i < k THEN i ELSE i + 1]
  <2>1. (a \o b)[i] = IF i <= k - 1 THEN a[i] ELSE b[i - (k - 1)]
    BY <1>1, <1>2, <1>3, <1>4
  <2>2. CASE i < k
    BY <1>1, <1>2, <2>1, <2>2
  <2>3. CASE ~(i < k)
    <3>1. i - (k - 1) \in 1..(Len(s) - k) /\ k + (i - (k - 1)) = i + 1
      BY <1>1, <2>3
    <3> QED BY <1>1, <1>3, <2>1, <2>3, <3>1
  <2> QED BY <2>2, <2>3
<1>7. RemoveAt(s, k) = a \o b
  BY DEF RemoveAt, a, b
<1> DEFINE rest == a \o b
<1>8. rest \in Seq(S) /\ DOMAIN rest = 1..(Len(s) - 1)
      /\ \A i \in 1..(Len(s) - 1) : rest[i] = s[IF i < k THEN i ELSE i + 1]
  BY <1>4, <1>5, <1>6
<1> HIDE DEF rest
<1>9. CallsIn(rest) \subseteq CallsIn(s)
  <2> SUFFICES ASSUME NEW i \in 1..(Len(s) - 1) PROVE rest[i] \in CallsIn(s)
    BY <1>8 DEF CallsIn
  <2>1. (IF i < k THEN i ELSE i + 1) \in DOMAIN s
    BY <1>1
  <2> QED BY <1>8, <2>1 DEF CallsIn
<1>10. CallsIn(s) \subseteq CallsIn(rest) \cup {s[k]}
  <2> SUFFICES ASSUME NEW j \in 1..Len(s), j # k PROVE s[j] \in CallsIn(rest)
    BY <1>1 DEF CallsIn
  <2>1. CASE j < k
    <3>1. j \in 1..(Len(s) - 1) /\ rest[j] = s[j]
      BY <1>1, <1>8, <2>1
    <3> QED BY <1>8, <3>1 DEF CallsIn
  <2>2. CASE ~(j < k)
    <3>1. j - 1 \in 1..(Len(s) - 1) /\ ~(j - 1 < k) /\ j - 1 + 1 = j
      BY <1>1, <2>2
    <3>2. rest[j - 1] = s[j]
      BY <1>8, <3>1
    <3> QED BY <1>8, <3>1, <3>2 DEF CallsIn
  <2> QED BY <2>1, <2>2
<1> QED BY <1>1, <1>7, <1>8, <1>9, <1>10 DEF CallsIn, rest

\* The state in which an answer is treated.
LEMMA WithoutEffect ==
  ASSUME App \in AppStates, NEW i \in DOMAIN calls
  PROVE  /\ Without(i) \in AppStates /\ calls[i] \in CallSet /\ calls[i] \in CallsIn(calls)
         /\ Without(i).p = page /\ Without(i).w = wrapper /\ Without(i).k = kdf
         /\ CallsIn(Without(i).c) \subseteq CallsIn(calls)
         /\ CallsIn(calls) \subseteq CallsIn(Without(i).c) \cup {calls[i]}
<1> DEFINE rest == RemoveAt(calls, i)
<1>1. calls \in Seq(CallSet)
  BY DEF App, AppStates
<1>2. /\ rest \in Seq(CallSet) /\ calls[i] \in CallSet /\ calls[i] \in CallsIn(calls)
      /\ CallsIn(rest) \subseteq CallsIn(calls)
      /\ CallsIn(calls) \subseteq CallsIn(rest) \cup {calls[i]}
  BY <1>1, CallEnds
<1>3. Without(i) = [App EXCEPT !.c = rest]
  BY DEF Without, App
<1> HIDE DEF rest
<1>4. /\ Without(i) \in AppStates /\ Without(i).p = page /\ Without(i).w = wrapper
      /\ Without(i).k = kdf /\ Without(i).c = rest
  BY <1>2, <1>3 DEF App, AppStates
<1> QED BY <1>2, <1>4
-----------------------------------------------------------------------------
(* The actions, one lemma each: the handler gives a state, the state is    *)
(* sound, so the step keeps the invariant.                                 *)

\* A step that ends in a sound state keeps the invariant.
LEMMA StepSound ==
  ASSUME TradingInv, NEW after, Commit(after), Sound(after, excuses'),
         market' \subseteq Listed, funds' \in [Coins -> 0..MaxFunds]
  PROVE  TradingInv'
<1>1. after \in AppStates
  BY DEF Sound, Settled
<1>2. App' = after
  BY <1>1, CommitsState
<1> QED BY <1>2 DEF TradingInv

\* The same of what the user does.
LEMMA CommandSound ==
  ASSUME TradingInv, NEW after, NEW why, Command(after, why),
         Sound(after, excuses \cup why)
  PROVE  TradingInv'
<1>1. Commit(after) /\ excuses' = excuses \cup why /\ market' = market /\ funds' = funds
  BY DEF Command
<1> QED BY <1>1, StepSound DEF TradingInv

\* The state the handlers begin with.
LEMMA PageSound == ASSUME TradingInv
  PROVE /\ App \in AppStates /\ App.p = page /\ App.w = wrapper /\ App.k = kdf /\ App.c = calls
        /\ Sound(App, excuses) /\ \A why : Sound(App, excuses \cup why)
BY MoreExcuses DEF TradingInv, Sound, Settled, App

\* The user fills the form in.
LEMMA TypePriceStep ==
  ASSUME TradingInv, NEW price \in Amounts, TypePrice(price)
  PROVE  TradingInv'
<1>1. price \in Nat
  BY TradingAssumption DEF TradingAssumption
<1>2. SetPrice(App, price) \in AppStates /\ Quiet(App, SetPrice(App, price))
  BY <1>1, PageSound, SetPriceEffect
<1>3. Sound(SetPrice(App, price), excuses \cup {})
  BY <1>2, PageSound, QuietSound
<1> QED BY <1>3, CommandSound DEF TypePrice

LEMMA TypeVolumeStep ==
  ASSUME TradingInv, NEW volume \in Amounts, TypeVolume(volume)
  PROVE  TradingInv'
<1>1. volume \in Nat
  BY TradingAssumption DEF TradingAssumption
<1>2. SetVolume(App, volume) \in AppStates /\ Quiet(App, SetVolume(App, volume))
  BY <1>1, PageSound, SetVolumeEffect
<1>3. Sound(SetVolume(App, volume), excuses \cup {})
  BY <1>2, PageSound, QuietSound
<1> QED BY <1>3, CommandSound DEF TypeVolume

\* The user clears the form, asks for fees, leaves or enters the page.
LEMMA ResetOrderStep ==
  ASSUME TradingInv, ResetOrder
  PROVE  TradingInv'
<1>1. Sound(ClearForms(App), excuses \cup {})
  BY PageSound, ClearedSound
<1> QED BY <1>1, CommandSound DEF ResetOrder

LEMMA AskFeesStep ==
  ASSUME TradingInv, AskFees
  PROVE  TradingInv'
<1>1. Sound(DetermineFees(App), excuses \cup {})
  BY PageSound, FeesAsked, SteadySound
<1> QED BY <1>1, CommandSound DEF AskFees

LEMMA LeaveStep ==
  ASSUME TradingInv, LeaveOrEnterDex
  PROVE  TradingInv'
<1> DEFINE k == [kdf EXCEPT !.thread_active = ~@]
           a == [App EXCEPT !.k = k]
           raw == [App EXCEPT !.k.thread_active = ~@]
<1>1. App.k \in KdfStates /\ App \in AppStates
  BY PageSound DEF AppStates
<1>2. raw = a
  BY PageSound
<1>3. /\ k \in KdfStates /\ k.pair = kdf.pair /\ k.book = kdf.book
      /\ k.base_max = kdf.base_max /\ k.rel_max = kdf.rel_max /\ k.min_coins = kdf.min_coins
  BY <1>1, PageSound DEF KdfStates
<1> HIDE DEF k
<1>4. a \in AppStates /\ a.p = page /\ a.w = wrapper /\ a.k = k /\ a.c = calls
  BY <1>1, <1>3, PageSound DEF AppStates
<1> HIDE DEF a
<1>5. Sound(a, excuses \cup {})
  BY <1>3, <1>4, PageSound DEF Sound, Settled, RowsAreOfOnePair, FeesFollow, PickedFollows,
     VanishedIsKnown, WaitingFollows, VolumesFollow
<1>6. Sound(raw, excuses \cup {})
  BY <1>2, <1>5
<1> HIDE DEF raw
<1>7. Command(raw, {})
  BY DEF LeaveOrEnterDex, raw
<1> QED BY <1>6, <1>7, CommandSound

\* What LeftBehind excuses.
LEMMA LeftBehindExcuses ==
  ASSUME TradingInv
  PROVE  /\ wrapper.selected_best = NoOrder \/ "overtaken" \in LeftBehind
         /\ \A call \in CallsIn(calls) :
              /\ call.kind \in {"book", "extras"} => "overlapped" \in LeftBehind
              /\ call.kind = "fees" => "late_fees" \in LeftBehind
<1>1. ASSUME NEW call \in CallsIn(calls), call.kind \in {"fees", "book", "extras"}
      PROVE  (IF call.kind = "fees" THEN "late_fees" ELSE "overlapped") \in LeftBehind
  <2>1. PICK i \in DOMAIN calls : calls[i] = call
    BY DEF CallsIn
  <2>2. i \in {j \in DOMAIN calls : calls[j].kind \in {"fees", "book", "extras"}}
    BY <1>1, <2>1
  <2> QED BY <2>1, <2>2 DEF LeftBehind
<1>2. wrapper.selected_best # NoOrder => "overtaken" \in LeftBehind
  BY DEF LeftBehind
<1> QED BY <1>1, <1>2

\* The pair is changed in either view: what the new one leaves behind has an excuse.
LEMMA SelectPairStep ==
  ASSUME TradingInv, NEW is_left_side \in BOOLEAN, NEW coin \in Coins,
         SelectPair(is_left_side, coin)
  PROVE  TradingInv'
<1> DEFINE a == IF page.view = "Simple" THEN ClearForms(App) ELSE App
           after == SetPair(a, is_left_side, coin)
           more == excuses \cup LeftBehind
<1>1. coin # (IF is_left_side THEN page.left ELSE page.right) /\ Command(after, LeftBehind)
  BY DEF SelectPair
<1>2. /\ Sound(a, more) /\ a \in AppStates /\ Silent(App, a)
      /\ page.view # "Simple" \/ (a.p.fees = NoFees /\ a.p.preferred = NoOrder)
  <2>1. CASE page.view = "Simple"
    <3>1. a = ClearForms(App)
      BY <2>1
    <3>2. Sound(App, more)
      BY PageSound
    <3> HIDE DEF a, more
    <3> QED BY <3>1, <3>2, PageSound, ClearFormsEffect, ClearedSound
  <2>2. CASE page.view # "Simple"
    BY <2>2, PageSound, QuietSelf DEF Quiet
  <2> QED BY <2>1, <2>2
<1> HIDE DEF a
<1>3. /\ a.p.left = page.left /\ a.p.right = page.right /\ a.p.view = page.view
      /\ a.w.selected_best = wrapper.selected_best
      /\ \A call \in CallsIn(a.c) \ CallsIn(calls) : call.kind = "best"
  BY <1>2, PageSound DEF Silent, Steady
<1>4. after = a \/ Turned(a, after)
  BY <1>1, <1>2, <1>3, SetPairEffect
<1> HIDE DEF after
<1>5. Sound(after, more)
  <2>1. CASE after = a
    BY <1>2, <2>1
  <2>2. CASE Turned(a, after)
    <3>1. \/ more \cap {"overlapped", "refused"} # {}
          \/ \A call \in CallsIn(a.c) : call.kind \notin {"book", "extras"}
      BY <1>3, LeftBehindExcuses
    <3>2. \/ more \cap {"late_fees", "kept_fees", "disabled"} # {}
          \/ \A call \in CallsIn(a.c) : call.kind # "fees"
      BY <1>3, LeftBehindExcuses
    <3>3. more \cap {"overtaken", "disabled", "other_book"} # {} \/ a.w.selected_best = NoOrder
      BY <1>3, LeftBehindExcuses
    <3>4. Settled(a, more)
      BY <1>2 DEF Sound
    <3> HIDE DEF more
    <3> QED BY <1>2, <1>3, <2>2, <3>1, <3>2, <3>3, <3>4, TurnedSound
  <2> QED BY <1>4, <2>1, <2>2
<1> QED BY <1>1, <1>5, CommandSound

\* The market mode is set: the form is cleared, the pair asked for again.
LEMMA MarketModeSound ==
  ASSUME NEW st \in AppStates, NEW why, NEW mode \in Modes, Sound(st, why), st.p.left \notin WalletOnly,
         \/ why \cap {"overlapped", "refused"} # {}
         \/ \A call \in CallsIn(st.c) : call.kind \notin {"book", "extras"}
  PROVE  LET after == SetMarketMode(st, mode)
         IN  /\ Sound(after, why)
             /\ st.p.preferred = NoOrder /\ st.p.fees = NoFees =>
                  after.p.preferred = NoOrder /\ after.p.fees = NoFees
<1>1. CASE mode = st.p.market_mode
  BY <1>1 DEF SetMarketMode
<1>2. CASE mode # st.p.market_mode
  <2> DEFINE p == [st.p EXCEPT !.market_mode = mode]
             a == [st EXCEPT !.p = p]
             raw == [st EXCEPT !.p.market_mode = mode]
             b == ClearForms(a)
             after == SetCurrentOrderbook(b, st.p.left, st.p.right)
  <2>1. st.p \in PageStates /\ st.p.left \in Coins /\ st.p.right \in Coins
    BY DEF AppStates, PageStates
  <2>2. raw = a
    OBVIOUS
  <2>3. SetMarketMode(st, mode) = SetCurrentOrderbook(ClearForms(raw), st.p.left, st.p.right)
    BY <1>2 DEF SetMarketMode
  <2> HIDE DEF raw
  <2>4. /\ p \in PageStates /\ p.left = st.p.left /\ p.right = st.p.right /\ p.view = st.p.view
        /\ p.fees = st.p.fees /\ p.order_status = st.p.order_status /\ p.preferred = st.p.preferred
    BY <2>1 DEF PageStates
  <2> HIDE DEF p
  <2>5. a \in AppStates /\ a.p = p /\ a.w = st.w /\ a.k = st.k /\ a.c = st.c
    BY <2>4, PageOnly
  <2> HIDE DEF a
  <2>6. /\ b \in AppStates /\ Silent(a, b) /\ b.p.preferred = NoOrder /\ b.p.fees = NoFees
    BY <2>5, ClearFormsEffect
  <2> HIDE DEF b
  <2>7. /\ Pair(b.p) = Pair(st.p) /\ b.w.rows = st.w.rows /\ b.w.rows_pair = st.w.rows_pair
        /\ b.k = st.k /\ b.w.selected_best = st.w.selected_best
        /\ \A call \in CallsIn(b.c) \ CallsIn(st.c) : call.kind = "best"
    BY <2>4, <2>5, <2>6 DEF Silent, Steady, Pair
  <2>8. Settled(b, why)
    <3>1. RowsAreOfOnePair(b)
      BY <2>7 DEF Sound, Settled, RowsAreOfOnePair
    <3>2. FeesFollow(b, why)
      BY <2>6, <2>7 DEF Sound, Settled, FeesFollow
    <3>3. PickedFollows(b, why) /\ VanishedIsKnown(b, why)
      BY <2>6 DEF PickedFollows, VanishedIsKnown
    <3> QED BY <2>6, <3>1, <3>2, <3>3 DEF Settled
  <2>9. /\ Turned(b, after) /\ after.p.left = st.p.left /\ after.p.right = st.p.right
    BY <2>1, <2>6, OrderbookEffect
  <2> HIDE DEF after
  <2>10. Pair(b.p) = Pair(after.p)
    BY <2>7, <2>9 DEF Pair
  <2>11. \/ why \cap {"overtaken", "disabled", "other_book"} # {}
         \/ b.w.selected_best = NoOrder
         \/ PairOf(b.w.selected_best.order) = Pair(after.p)
    BY <2>7, <2>10 DEF Sound, WaitingFollows
  <2>12. \/ why \cap {"overlapped", "refused"} # {}
         \/ \A call \in CallsIn(b.c) : call.kind \notin {"book", "extras"}
    BY <2>7
  <2>13. Sound(after, why)
    BY <2>8, <2>9, <2>10, <2>11, <2>12, TurnedSound
  <2>14. after.p.preferred = NoOrder /\ after.p.fees = NoFees
    BY <2>6, <2>9 DEF Turned
  <2> QED BY <2>2, <2>3, <2>13, <2>14 DEF after, b
<1> QED BY <1>1, <1>2

\* The mode is changed, and the view: the pair stays.
LEMMA ChooseMarketModeStep ==
  ASSUME TradingInv, NEW mode \in Modes, ChooseMarketMode(mode)
  PROVE  TradingInv'
<1> DEFINE more == excuses \cup LeftBehind
<1>1. Sound(App, more) /\ App \in AppStates /\ App.p.left \notin WalletOnly
  BY PageSound DEF AppStates, PageStates
<1>2. \/ more \cap {"overlapped", "refused"} # {}
      \/ \A call \in CallsIn(App.c) : call.kind \notin {"book", "extras"}
  BY PageSound, LeftBehindExcuses
<1>3. Sound(SetMarketMode(App, mode), more)
  <2> HIDE DEF more
  <2> QED BY <1>1, <1>2, MarketModeSound
<1> QED BY <1>3, CommandSound DEF ChooseMarketMode

LEMMA ChooseViewStep ==
  ASSUME TradingInv, NEW view \in {"Pro", "Simple"}, ChooseView(view)
  PROVE  TradingInv'
<1> DEFINE more == excuses \cup LeftBehind
           a == ClearForms(App)
           b == SetMarketMode(a, "Sell")
           p == [b.p EXCEPT !.view = view]
           after == [b EXCEPT !.p = p]
           raw == [b EXCEPT !.p.view = view]
<1>1. Sound(App, more) /\ App \in AppStates
  BY PageSound
<1>2. /\ Sound(a, more) /\ a \in AppStates /\ Silent(App, a) /\ a.p.preferred = NoOrder /\ a.p.fees = NoFees
  <2> HIDE DEF more
  <2> QED BY <1>1, ClearFormsEffect, ClearedSound
<1> HIDE DEF a
<1>3. a.p.left \notin WalletOnly
  BY <1>2 DEF AppStates, PageStates
<1>4. \/ more \cap {"overlapped", "refused"} # {}
      \/ \A call \in CallsIn(a.c) : call.kind \notin {"book", "extras"}
  BY <1>2, PageSound, LeftBehindExcuses DEF Silent
<1>5. Sound(b, more) /\ b.p.preferred = NoOrder /\ b.p.fees = NoFees
  <2> HIDE DEF more
  <2>1. "Sell" \in Modes
    BY DEF Modes
  <2> QED BY <1>2, <1>3, <1>4, <2>1, MarketModeSound
<1> HIDE DEF b
<1>6. b \in AppStates /\ b.p \in PageStates
  BY <1>5 DEF Sound, Settled, AppStates
<1>7. raw = after
  OBVIOUS
<1>8. /\ p \in PageStates /\ Pair(p) = Pair(b.p) /\ p.fees = NoFees /\ p.preferred = NoOrder
  BY <1>5, <1>6 DEF PageStates, Pair
<1> HIDE DEF p
<1>9. after \in AppStates /\ after.p = p /\ after.w = b.w /\ after.k = b.k /\ after.c = b.c
  BY <1>6, <1>8, PageOnly
<1> HIDE DEF after, more
<1>10. Sound(after, more)
  BY <1>5, <1>8, <1>9 DEF Sound, Settled, RowsAreOfOnePair, FeesFollow, PickedFollows,
     VanishedIsKnown, WaitingFollows, VolumesFollow
<1>11. Command(raw, LeftBehind)
  BY DEF ChooseView, raw, b, a
<1> HIDE DEF raw
<1> QED BY <1>7, <1>10, <1>11, CommandSound DEF more

\* An order of the rows is selected.
LEMMA SelectOrderStep ==
  ASSUME TradingInv, NEW order \in Listed, SelectOrder(order)
  PROVE  TradingInv'
<1> DEFINE why == IF wrapper.rows_pair # Pair(page) THEN {"other_book"} ELSE {}
           more == excuses \cup why
           after == SetPreferredOrder(App, order, 0)
<1>1. order \in wrapper.rows /\ Command(after, why)
  BY DEF SelectOrder
<1>2. App \in AppStates /\ Sound(App, more)
  BY PageSound
<1>3. /\ after \in AppStates /\ Steady(App, after)
      /\ after.p.fees = page.fees /\ after.p.order_status = page.order_status
      /\ after.p.preferred = NoOrder \/ after.p.preferred.order = order
  BY <1>2, PageSound, SetPreferredEffect
<1> HIDE DEF after
<1>4. "other_book" \in more \/ PairOf(order) = Pair(page)
  BY <1>1, PageSound DEF Sound, Settled, RowsAreOfOnePair
<1> HIDE DEF more
<1>5. Pair(after.p) = Pair(page)
  BY <1>3, PageSound DEF Steady, Pair
<1>6. /\ RowsAreOfOnePair(after) /\ WaitingFollows(after, more) /\ VolumesFollow(after, more)
      /\ FeesFollow(after, more) /\ after.k.pair = Pair(after.p)
  BY <1>2, <1>3, <1>5, PageSound DEF Steady, Sound, Settled, RowsAreOfOnePair, WaitingFollows,
     VolumesFollow, FeesFollow
<1>7. PickedFollows(after, more)
  BY <1>3, <1>4, <1>5 DEF PickedFollows
<1>8. VanishedIsKnown(after, more)
  BY <1>1, <1>3, PageSound DEF VanishedIsKnown, Steady
<1>9. Sound(after, more)
  BY <1>3, <1>6, <1>7, <1>8 DEF Sound, Settled
<1> QED BY <1>1, <1>9, CommandSound DEF more

\* An order that is picked waits for its book.
LEMMA WaitingEffect ==
  ASSUME NEW st \in AppStates, NEW order \in Listed
  PROVE  LET after == [st EXCEPT !.w.selected_best = [order |-> order, initial |-> st.p.volume]]
         IN  /\ after \in AppStates /\ after.p = st.p /\ after.k = st.k /\ after.c = st.c
             /\ after.w.rows = st.w.rows /\ after.w.rows_pair = st.w.rows_pair
             /\ after.w.selected_best # NoOrder /\ after.w.selected_best.order = order
<1> DEFINE best == [order |-> order, initial |-> st.p.volume]
           w == [st.w EXCEPT !.selected_best = best]
           a == [st EXCEPT !.w = w]
<1>1. st.p.volume \in Nat /\ st.w \in WrapperStates
  BY DEF AppStates, PageStates
<1>2. best \in WaitingOrders /\ best.order = order /\ best # NoOrder
  <2>1. best \in [order : Listed, initial : Nat] /\ best.order = order
    BY <1>1
  <2> HIDE DEF best
  <2> QED BY <2>1, TradingAssumption DEF WaitingOrders, TradingAssumption
<1>3. [st EXCEPT !.w.selected_best = best] = a
  OBVIOUS
<1> HIDE DEF best
<1>4. /\ w \in WrapperStates /\ w.rows = st.w.rows /\ w.rows_pair = st.w.rows_pair
      /\ w.selected_best = best
  BY <1>1, <1>2 DEF WrapperStates
<1> HIDE DEF w
<1>5. a \in AppStates /\ a.p = st.p /\ a.w = w /\ a.k = st.k /\ a.c = st.c
  BY <1>4, WrapperOnly
<1> HIDE DEF a
<1> QED BY <1>2, <1>3, <1>4, <1>5 DEF best

\* An order of any pair is picked: of the right coin it is selected at once, of another
\* it waits.
LEMMA ChooseBestOrderStep ==
  ASSUME TradingInv, NEW order \in Listed, ChooseBestOrder(order)
  PROVE  TradingInv'
<1> DEFINE why == (IF order.rel # page.right THEN LeftBehind \ {"overtaken"} ELSE {"unnoticed"})
                    \union (IF order.base # page.left THEN {"other_book"} ELSE {})
                    \union (IF order.rel # page.right /\ page.view = "Simple" THEN {"kept_fees"} ELSE {})
           more == excuses \cup why
           waiting == [App EXCEPT !.w.selected_best = [order |-> order, initial |-> App.p.volume]]
           after == SelectBestOrder(App, order)
           last == IF page.view = "Simple" THEN DetermineFees(after) ELSE after
<1>1. Command(last, why)
  BY DEF ChooseBestOrder
<1>2. App \in AppStates /\ Sound(App, more) /\ App.p.volume \in Nat /\ order.rel \in Coins
  BY PageSound, TradingAssumption DEF AppStates, PageStates, TradingAssumption
<1>3. after = IF order.rel = page.right THEN SetPreferredOrder(waiting, order, App.p.volume)
              ELSE SetPair(waiting, FALSE, order.rel)
  BY PageSound DEF SelectBestOrder
<1> HIDE DEF after
<1>4. /\ waiting \in AppStates /\ waiting.p = page /\ waiting.k = kdf /\ waiting.c = calls
      /\ waiting.w.rows = wrapper.rows /\ waiting.w.rows_pair = wrapper.rows_pair
      /\ waiting.w.selected_best # NoOrder /\ waiting.w.selected_best.order = order
  BY <1>2, PageSound, WaitingEffect
<1> HIDE DEF waiting
<1>5. order.base = page.left \/ "other_book" \in more
  OBVIOUS
<1>6. order.base # order.rel
  BY TradingAssumption DEF TradingAssumption
<1>7. order.rel # page.right =>
        /\ \/ more \cap {"overlapped", "refused"} # {}
           \/ \A call \in CallsIn(calls) : call.kind \notin {"book", "extras"}
        /\ \/ more \cap {"late_fees", "kept_fees", "disabled"} # {}
           \/ (\A call \in CallsIn(calls) : call.kind # "fees") /\ page.view # "Simple"
  BY LeftBehindExcuses
<1>8. order.rel = page.right => "unnoticed" \in more
  OBVIOUS
<1> HIDE DEF more
<1>9. Sound(after, more)
  <2>1. CASE order.rel = page.right
    <3>1. /\ after \in AppStates /\ Steady(waiting, after)
          /\ after.p.fees = page.fees
          /\ after.p.preferred = NoOrder \/ after.p.preferred.order = order
      <4>1. after = SetPreferredOrder(waiting, order, App.p.volume)
        BY <1>3, <2>1
      <4> QED BY <1>2, <1>4, <4>1, SetPreferredEffect
    <3>2. Pair(after.p) = Pair(page)
      BY <1>4, <3>1 DEF Steady, Pair
    <3>3. more \cap {"overtaken", "disabled", "other_book"} # {} \/ PairOf(order) = Pair(page)
      BY <1>5, <2>1 DEF PairOf, Pair
    <3>4. /\ RowsAreOfOnePair(after) /\ VolumesFollow(after, more)
          /\ FeesFollow(after, more) /\ after.k.pair = Pair(after.p)
      BY <1>2, <1>4, <3>1, <3>2, PageSound DEF Steady, Sound, Settled, RowsAreOfOnePair,
         VolumesFollow, FeesFollow
    <3>5. PickedFollows(after, more)
      BY <3>1, <3>2, <3>3 DEF PickedFollows
    <3>6. WaitingFollows(after, more)
      BY <1>4, <3>1, <3>2, <3>3 DEF WaitingFollows, Steady
    <3>7. VanishedIsKnown(after, more)
      BY <1>8, <2>1 DEF VanishedIsKnown
    <3> QED BY <3>1, <3>4, <3>5, <3>6, <3>7 DEF Sound, Settled
  <2>2. CASE order.rel # page.right
    <3> DEFINE coinPair == IF order.rel = page.left THEN <<page.right, page.left>>
                       ELSE <<page.left, order.rel>>
    <3>1. \/ after = waiting /\ coinPair[1] \in WalletOnly
          \/ Turned(waiting, after) /\ Pair(after.p) = coinPair
      <4>1. after = SetPair(waiting, FALSE, order.rel)
        BY <1>3, <2>2
      <4> QED BY <1>2, <1>4, <2>2, <4>1, SetPairEffect
    <3>2. Settled(waiting, more)
      <4>1. RowsAreOfOnePair(waiting)
        BY <1>2, <1>4, PageSound DEF Sound, Settled, RowsAreOfOnePair
      <4>2. FeesFollow(waiting, more)
        BY <1>2, <1>4, PageSound DEF Sound, Settled, FeesFollow
      <4>3. VanishedIsKnown(waiting, more)
        BY <1>2, <1>4, PageSound DEF Sound, Settled, VanishedIsKnown
      <4>4. PickedFollows(waiting, more)
        BY <1>2, <1>4, PageSound DEF Sound, Settled, PickedFollows
      <4> QED BY <1>4, <4>1, <4>2, <4>3, <4>4 DEF Settled
    <3>3. CASE after = waiting /\ coinPair[1] \in WalletOnly
      <4>1. page.left \notin WalletOnly
        BY <1>2, PageSound DEF AppStates, PageStates
      <4>2. "other_book" \in more
        BY <1>5, <1>6, <3>3, <4>1
      <4>3. WaitingFollows(after, more)
        BY <4>2 DEF WaitingFollows
      <4>4. after.k.pair = Pair(after.p) /\ VolumesFollow(after, more)
        BY <1>2, <1>4, <3>3, PageSound DEF Sound, VolumesFollow
      <4> QED BY <3>2, <3>3, <4>3, <4>4 DEF Sound
    <3>4. CASE Turned(waiting, after) /\ Pair(after.p) = coinPair
      <4>1. more \cap {"overtaken", "disabled", "other_book"} # {} \/ PairOf(order) = coinPair
        BY <1>5, <1>6 DEF PairOf
      <4>2. \/ more \cap {"late_fees", "kept_fees", "disabled"} # {}
            \/ (\A call \in CallsIn(waiting.c) : call.kind # "fees") /\ waiting.p.view # "Simple"
        BY <1>4, <1>7, <2>2
      <4>3. \/ more \cap {"overlapped", "refused"} # {}
            \/ \A call \in CallsIn(waiting.c) : call.kind \notin {"book", "extras"}
        BY <1>4, <1>7, <2>2
      <4> HIDE DEF coinPair
      <4> QED BY <1>4, <3>2, <3>4, <4>1, <4>2, <4>3, TurnedSound
    <3> QED BY <3>1, <3>3, <3>4
  <2> QED BY <2>1, <2>2
<1>10. Sound(last, more)
  <2>1. CASE page.view = "Simple"
    <3>1. after \in AppStates
      BY <1>9 DEF Sound, Settled
    <3>2. last = DetermineFees(after)
      BY <2>1
    <3> QED BY <1>9, <3>1, <3>2, FeesAsked, SteadySound
  <2>2. CASE page.view # "Simple"
    BY <1>9, <2>2
  <2> QED BY <2>1, <2>2
<1> HIDE DEF last
<1> QED BY <1>1, <1>10, CommandSound DEF more

\* A coin of the pair is disabled: the default pair, and an excuse for all the rest.
LEMMA DisableCoinStep ==
  ASSUME TradingInv, NEW coin \in Coins, DisableCoin(coin)
  PROVE  TradingInv'
<1> DEFINE why == LeftBehind \union {"disabled"}
           more == excuses \cup why
           p == [page EXCEPT !.left = SecondCoin, !.right = FirstCoin]
           a == [App EXCEPT !.p = p]
           raw == [App EXCEPT !.p.left = SecondCoin, !.p.right = FirstCoin]
           after == SetCurrentOrderbook(raw, SecondCoin, FirstCoin)
<1>1. Command(after, why)
  BY DEF DisableCoin
<1>2. App \in AppStates /\ Sound(App, more) /\ page \in PageStates
  BY PageSound DEF AppStates
<1>3. SecondCoin \in Coins \ WalletOnly /\ FirstCoin \in Coins
  BY TradingAssumption DEF TradingAssumption
<1>4. raw = a
  BY <1>2, PageSound DEF PageStates
<1> HIDE DEF raw
<1>5. /\ p \in PageStates /\ p.view = page.view /\ p.market_mode = page.market_mode
      /\ p.preferred = page.preferred /\ p.order_status = page.order_status
  BY <1>2, <1>3 DEF PageStates
<1> HIDE DEF p
<1>6. a \in AppStates /\ a.p = p /\ a.w = wrapper /\ a.k = kdf /\ a.c = calls
  BY <1>2, <1>5, PageOnly, PageSound
<1> HIDE DEF a
<1>7. Turned(a, after)
  BY <1>3, <1>4, <1>6, OrderbookEffect
<1> HIDE DEF after
<1>8. "disabled" \in more
  OBVIOUS
<1>9. \/ more \cap {"overlapped", "refused"} # {}
      \/ \A call \in CallsIn(a.c) : call.kind \notin {"book", "extras"}
  BY <1>6, LeftBehindExcuses
<1> HIDE DEF more
<1>10. Settled(a, more)
  <2>1. RowsAreOfOnePair(a)
    BY <1>2, <1>6, PageSound DEF Sound, Settled, RowsAreOfOnePair
  <2>2. FeesFollow(a, more) /\ PickedFollows(a, more)
    BY <1>8 DEF FeesFollow, PickedFollows
  <2>3. VanishedIsKnown(a, more)
    BY <1>2, <1>5, <1>6, PageSound DEF Sound, Settled, VanishedIsKnown
  <2> QED BY <1>6, <2>1, <2>2, <2>3 DEF Settled
<1>11. Sound(after, more)
  <2>1. /\ more \cap {"late_fees", "kept_fees", "disabled"} # {}
        /\ more \cap {"overtaken", "disabled", "other_book"} # {}
    BY <1>8
  <2> QED BY <1>7, <1>9, <1>10, <2>1, TurnedSound
<1> QED BY <1>1, <1>11, CommandSound DEF more

\* A call that nothing of the invariant is about is sent, or one for the pair there is.
LEMMA AskedSound ==
  ASSUME NEW st \in AppStates, NEW why, NEW call \in CallSet, Sound(st, why),
         \/ call.kind \in {"best", "order"}
         \/ call.kind \in {"book", "extras"} /\ call.pair = st.k.pair
  PROVE  Sound(Ask(st, call), why)
<1> DEFINE after == Ask(st, call)
<1>1. /\ after \in AppStates /\ after.p = st.p /\ after.w = st.w /\ after.k = st.k
      /\ CallsIn(after.c) = CallsIn(st.c) \cup {call}
  BY Asking
<1> HIDE DEF after
<1>2. RowsAreOfOnePair(after) /\ PickedFollows(after, why) /\ VanishedIsKnown(after, why)
      /\ WaitingFollows(after, why) /\ after.k.pair = Pair(after.p)
  BY <1>1 DEF Sound, Settled, RowsAreOfOnePair, PickedFollows, VanishedIsKnown, WaitingFollows
<1>3. FeesFollow(after, why)
  BY <1>1 DEF Sound, Settled, FeesFollow
<1>4. VolumesFollow(after, why)
  BY <1>1 DEF Sound, VolumesFollow
<1>5. Sound(after, why)
  BY <1>1, <1>2, <1>3, <1>4 DEF Sound, Settled
<1> QED BY <1>5 DEF after

\* An order is sent, and the services fetch.
LEMMA PlaceOrderStep ==
  ASSUME TradingInv, NEW kind \in {"sell", "buy", "setprice"}, PlaceOrder(kind)
  PROVE  TradingInv'
<1> DEFINE p == [page EXCEPT !.rpc_busy = TRUE]
           a == [App EXCEPT !.p = p]
           raw == [App EXCEPT !.p.rpc_busy = TRUE]
           call == [kind |-> "order", pair |-> Pair(page), reset |-> FALSE]
<1>1. Commit(Ask(raw, call)) /\ excuses' = excuses /\ market' = market /\ funds' = funds
  BY DEF PlaceOrder
<1>2. App \in AppStates /\ Sound(App, excuses) /\ page \in PageStates
  BY PageSound DEF AppStates
<1>3. raw = a
  BY PageSound
<1> HIDE DEF raw
<1>4. call \in CallSet /\ call.kind = "order"
  <2>1. Pair(page) \in TradedPairs
    BY <1>2 DEF PageStates, Pair, TradedPairs
  <2> QED BY <2>1 DEF CallSet, OtherCalls
<1>5. p \in PageStates /\ p.left = page.left /\ p.right = page.right
      /\ p.market_mode = page.market_mode /\ p.view = page.view /\ p.fees = page.fees
      /\ p.order_status = page.order_status /\ p.preferred = page.preferred
  BY <1>2 DEF PageStates
<1> HIDE DEF p, call
<1>6. a \in AppStates /\ Quiet(App, a)
  BY <1>2, <1>5, FormEffect, PageSound
<1> HIDE DEF a
<1>7. Sound(a, excuses)
  BY <1>2, <1>6, QuietSound
<1>8. Sound(Ask(a, call), excuses)
  BY <1>4, <1>6, <1>7, AskedSound
<1> QED BY <1>1, <1>3, <1>8, StepSound DEF TradingInv

LEMMA PeriodicFetchStep ==
  ASSUME TradingInv, PeriodicFetch
  PROVE  TradingInv'
<1> DEFINE call == [kind |-> "book", pair |-> kdf.pair, reset |-> FALSE]
<1>1. Commit(Ask(App, call)) /\ excuses' = excuses /\ market' = market /\ funds' = funds
  BY DEF PeriodicFetch
<1>2. App \in AppStates /\ Sound(App, excuses) /\ kdf \in KdfStates
  BY PageSound DEF AppStates
<1>3. call \in CallSet /\ call.kind = "book" /\ call.pair = kdf.pair
  BY <1>2 DEF CallSet, OtherCalls, KdfStates
<1> HIDE DEF call
<1>4. Sound(Ask(App, call), excuses)
  BY <1>2, <1>3, AskedSound, PageSound
<1> QED BY <1>1, <1>4, StepSound DEF TradingInv

LEMMA PeriodicScanStep ==
  ASSUME TradingInv, PeriodicScan
  PROVE  TradingInv'
<1>1. Commit(ProcessBestOrders(App)) /\ excuses' = excuses /\ market' = market /\ funds' = funds
  BY DEF PeriodicScan
<1>2. Sound(ProcessBestOrders(App), excuses)
  BY PageSound, ScanEffect, QuietSound
<1> QED BY <1>1, <1>2, StepSound DEF TradingInv

\* A call is over of which no volumes are awaited.
LEMMA WithoutSound ==
  ASSUME TradingInv, NEW i \in DOMAIN calls, NEW why, Sound(App, why),
         \/ calls[i].kind \in {"best", "fees", "order"}
         \/ calls[i].kind = "book" /\ ~calls[i].reset
         \/ "refused" \in why
  PROVE  Sound(Without(i), why)
<1> DEFINE after == Without(i)
<1>1. /\ after \in AppStates /\ after.p = page /\ after.w = wrapper /\ after.k = kdf
      /\ CallsIn(after.c) \subseteq CallsIn(calls)
      /\ CallsIn(calls) \subseteq CallsIn(after.c) \cup {calls[i]}
  BY PageSound, WithoutEffect
<1> HIDE DEF after
<1>2. RowsAreOfOnePair(after) /\ PickedFollows(after, why) /\ VanishedIsKnown(after, why)
      /\ WaitingFollows(after, why) /\ after.k.pair = Pair(after.p)
  BY <1>1, PageSound DEF Sound, Settled, RowsAreOfOnePair, PickedFollows, VanishedIsKnown,
     WaitingFollows
<1>3. FeesFollow(after, why)
  BY <1>1, PageSound DEF Sound, Settled, FeesFollow
<1>4. VolumesFollow(after, why)
  <2>1. CASE "refused" \in why
    BY <2>1 DEF VolumesFollow
  <2>2. CASE "refused" \notin why
    <3>1. \A call : (call.kind = "extras" \/ (call.kind = "book" /\ call.reset)) => call # calls[i]
      BY <2>2
    <3> QED BY <1>1, <3>1, PageSound DEF Sound, VolumesFollow
  <2> QED BY <2>1, <2>2
<1>5. Sound(after, why)
  BY <1>1, <1>2, <1>3, <1>4 DEF Sound, Settled
<1> QED BY <1>5 DEF after

\* The answers of the calls for fees, and the end of an order.
LEMMA FeesStoredSound ==
  ASSUME TradingInv, NEW i \in DOMAIN calls, calls[i].kind = "fees"
  PROVE  Sound([Without(i) EXCEPT !.p.fees = calls[i].form, !.p.preimage_busy = FALSE], excuses)
<1> DEFINE a == Without(i)
           question == calls[i].form
           p == [a.p EXCEPT !.fees = question, !.preimage_busy = FALSE]
           after == [a EXCEPT !.p = p]
           raw == [a EXCEPT !.p.fees = question, !.p.preimage_busy = FALSE]
<1>1. /\ a \in AppStates /\ a.p = page /\ calls[i] \in CallSet /\ calls[i] \in CallsIn(calls)
  BY PageSound, WithoutEffect
<1>2. Sound(a, excuses)
  BY PageSound, WithoutSound
<1> HIDE DEF a
<1>3. question \in Questions
  BY <1>1 DEF CallSet, FeesCalls, OtherCalls
<1>4. excuses \cap {"late_fees", "kept_fees", "disabled"} # {} \/ question.pair = Pair(page)
  BY <1>1, PageSound DEF Sound, Settled, FeesFollow
<1> HIDE DEF question
<1>5. a.p \in PageStates
  BY <1>1 DEF AppStates
<1>6. raw = after
  BY <1>1, <1>5 DEF AppStates, PageStates
<1>7. p \in PageStates /\ p.left = page.left /\ p.right = page.right
      /\ p.market_mode = page.market_mode /\ p.view = page.view /\ p.fees = question
      /\ p.order_status = page.order_status /\ p.preferred = page.preferred
  BY <1>1, <1>3, <1>5 DEF PageStates
<1> HIDE DEF p, raw
<1>8. after \in AppStates /\ after.p = p /\ after.w = a.w /\ after.k = a.k /\ after.c = a.c
  BY <1>1, <1>7, PageOnly
<1> HIDE DEF after
<1>9. Pair(after.p) = Pair(page) /\ Pair(a.p) = Pair(page)
  BY <1>1, <1>7, <1>8 DEF Pair
<1>10. FeesFollow(after, excuses)
  BY <1>2, <1>4, <1>7, <1>8, <1>9 DEF Sound, Settled, FeesFollow
<1>11. Sound(after, excuses)
  BY <1>1, <1>2, <1>7, <1>8, <1>9, <1>10 DEF Sound, Settled, RowsAreOfOnePair, PickedFollows,
     VanishedIsKnown, WaitingFollows, VolumesFollow
<1> QED BY <1>6, <1>11 DEF raw, a, question

LEMMA OrderEndsSound ==
  ASSUME TradingInv, NEW i \in DOMAIN calls, calls[i].kind = "order"
  PROVE  Sound(ClearForms([Without(i) EXCEPT !.p.rpc_busy = FALSE]), excuses)
<1> DEFINE a == Without(i)
           p == [a.p EXCEPT !.rpc_busy = FALSE]
           b == [a EXCEPT !.p = p]
           raw == [a EXCEPT !.p.rpc_busy = FALSE]
<1>1. a \in AppStates
  BY PageSound, WithoutEffect
<1>2. Sound(a, excuses)
  BY PageSound, WithoutSound
<1> HIDE DEF a
<1>3. raw = b
  OBVIOUS
<1>4. a.p \in PageStates
  BY <1>1 DEF AppStates
<1>5. p \in PageStates /\ p.left = a.p.left /\ p.right = a.p.right
      /\ p.market_mode = a.p.market_mode /\ p.view = a.p.view /\ p.fees = a.p.fees
      /\ p.order_status = a.p.order_status /\ p.preferred = a.p.preferred
  BY <1>4 DEF PageStates
<1> HIDE DEF p, raw
<1>6. b \in AppStates /\ Quiet(a, b)
  BY <1>1, <1>5, FormEffect
<1> HIDE DEF b
<1>7. Sound(ClearForms(b), excuses)
  BY <1>2, <1>6, QuietSound, ClearedSound
<1> QED BY <1>3, <1>7 DEF raw, a

\* A scan is over, with or without orders.
LEMMA ScanOverSound ==
  ASSUME TradingInv, NEW i \in DOMAIN calls, calls[i].kind = "best", market \subseteq Listed
  PROVE  /\ Sound(ScanStored(i), excuses)
         /\ Sound(PushFinished([Without(i) EXCEPT !.w.best_busy = FALSE], TRUE), excuses)
<1> DEFINE a == Without(i)
           infos == OrdersOf(calls[i])
           w == [a.w EXCEPT !.best_infos = infos, !.best_busy = FALSE]
           v == [a.w EXCEPT !.best_busy = FALSE]
           b == [a EXCEPT !.w = w]
           c == [a EXCEPT !.w = v]
           rawb == [a EXCEPT !.w.best_infos = infos, !.w.best_busy = FALSE]
           rawc == [a EXCEPT !.w.best_busy = FALSE]
<1>1. a \in AppStates /\ a.w \in WrapperStates
  BY PageSound, WithoutEffect DEF AppStates
<1>2. Sound(a, excuses)
  BY PageSound, WithoutSound
<1>3. infos \in SUBSET Listed
  BY DEF OrdersOf
<1>4. ScanStored(i) = PushFinished(rawb, FALSE)
  BY DEF ScanStored
<1> HIDE DEF a, infos
<1>5. rawb = b /\ rawc = c
  BY <1>1 DEF AppStates, WrapperStates
<1>6. /\ w \in WrapperStates /\ v \in WrapperStates
      /\ w.rows = a.w.rows /\ w.rows_pair = a.w.rows_pair /\ w.selected_best = a.w.selected_best
      /\ v.rows = a.w.rows /\ v.rows_pair = a.w.rows_pair /\ v.selected_best = a.w.selected_best
  BY <1>1, <1>3 DEF WrapperStates
<1> HIDE DEF w, v, rawb, rawc
<1>7. /\ b \in AppStates /\ b.p = a.p /\ b.w = w /\ b.k = a.k /\ b.c = a.c
      /\ c \in AppStates /\ c.p = a.p /\ c.w = v /\ c.k = a.k /\ c.c = a.c
  BY <1>1, <1>6, WrapperOnly
<1> HIDE DEF b, c
<1>8. Quiet(a, b) /\ Quiet(a, c)
  BY <1>6, <1>7 DEF Quiet, Silent, Steady
<1>9. Sound(PushFinished(b, FALSE), excuses) /\ Sound(PushFinished(c, TRUE), excuses)
  BY <1>2, <1>7, <1>8, QuietSound, PushEffect
<1> QED BY <1>4, <1>5, <1>9 DEF rawc, a

\* A book is stored, whatever pair it is of, and a reset asks for the volumes.
LEMMA BookStoredSound ==
  ASSUME TradingInv, NEW i \in DOMAIN calls, calls[i].kind = "book"
  PROVE  Sound(BookStored(i), excuses)
<1> DEFINE call == calls[i]
           a == Without(i)
           extras == [kind |-> "extras", pair |-> kdf.pair, reset |-> TRUE]
           b == IF call.reset THEN Ask(a, extras) ELSE a
           book == [pair |-> call.pair, orders |-> OrdersOf(call)]
           k == [b.k EXCEPT !.book = book]
           c == [b EXCEPT !.k = k]
           raw == [b EXCEPT !.k.book = book]
<1>1. /\ a \in AppStates /\ a.p = page /\ a.w = wrapper /\ a.k = kdf
      /\ CallsIn(a.c) \subseteq CallsIn(calls) /\ call \in CallSet
      /\ CallsIn(calls) \subseteq CallsIn(a.c) \cup {call}
  BY PageSound, WithoutEffect
<1>2. call.reset \in BOOLEAN /\ call.pair \in TradedPairs /\ kdf.pair \in TradedPairs
  BY <1>1 DEF CallSet, FeesCalls, OtherCalls, AppStates, KdfStates
<1>3. book \in Books /\ \A o \in book.orders : PairOf(o) = book.pair
  <2>1. OrdersOf(call) \in SUBSET Listed /\ \A o \in OrdersOf(call) : PairOf(o) = call.pair
    BY DEF OrdersOf, TradingInv, PairOf
  <2> HIDE DEF call
  <2> QED BY <1>2, <2>1 DEF Books
<1>4. BookStored(i) = PushFinished(raw, call.reset)
  BY DEF BookStored
<1> HIDE DEF book, a
<1>5. /\ b \in AppStates /\ b.p = page /\ b.w = wrapper /\ b.k = kdf /\ Sound(b, excuses)
  <2>1. CASE ~call.reset
    <3>1. b = a
      BY <2>1
    <3>2. Sound(a, excuses)
      BY <2>1, PageSound, WithoutSound DEF a
    <3> QED BY <1>1, <3>1, <3>2
  <2>2. CASE call.reset
    <3>1. b = Ask(a, extras)
      BY <2>2
    <3>2. extras \in CallSet /\ extras.kind = "extras" /\ extras.pair = kdf.pair
      BY <1>2 DEF CallSet, OtherCalls
    <3> HIDE DEF extras, b, call
    <3>3. /\ b \in AppStates /\ b.p = page /\ b.w = wrapper /\ b.k = kdf
          /\ CallsIn(b.c) = CallsIn(a.c) \cup {extras}
      BY <1>1, <3>1, <3>2, Asking
    <3>4. RowsAreOfOnePair(b) /\ PickedFollows(b, excuses) /\ VanishedIsKnown(b, excuses)
          /\ WaitingFollows(b, excuses) /\ b.k.pair = Pair(b.p)
      BY <3>3, PageSound DEF Sound, Settled, RowsAreOfOnePair, PickedFollows, VanishedIsKnown,
         WaitingFollows
    <3>5. FeesFollow(b, excuses)
      BY <1>1, <3>2, <3>3, PageSound DEF Sound, Settled, FeesFollow
    <3>6. VolumesFollow(b, excuses)
      BY <1>1, <3>2, <3>3, PageSound DEF Sound, VolumesFollow
    <3> QED BY <3>3, <3>4, <3>5, <3>6 DEF Sound, Settled
  <2> QED BY <1>2, <2>1, <2>2
<1> HIDE DEF b, call
<1>6. raw = c
  OBVIOUS
<1>7. /\ k \in KdfStates /\ k.pair = kdf.pair /\ k.book = book /\ k.base_max = kdf.base_max
      /\ k.rel_max = kdf.rel_max /\ k.min_coins = kdf.min_coins
  BY <1>3, <1>5 DEF AppStates, KdfStates
<1> HIDE DEF k, raw
<1>8. c \in AppStates /\ c.p = b.p /\ c.w = b.w /\ c.k = k /\ c.c = b.c
  BY <1>5, <1>7 DEF AppStates
<1> HIDE DEF c
<1>9. Sound(c, excuses)
  <2>1. RowsAreOfOnePair(c)
    BY <1>3, <1>5, <1>7, <1>8 DEF Sound, Settled, RowsAreOfOnePair
  <2> QED BY <1>5, <1>7, <1>8, <2>1 DEF Sound, Settled, FeesFollow, PickedFollows, VanishedIsKnown,
         WaitingFollows, VolumesFollow
<1>10. Sound(PushFinished(c, call.reset), excuses)
  BY <1>2, <1>8, <1>9, PushEffect, QuietSound
<1> QED BY <1>4, <1>6, <1>10

\* The volumes are stored that are of the pair there is now.
LEMMA ExtrasStoredSound ==
  ASSUME TradingInv, NEW i \in DOMAIN calls, calls[i].kind = "extras"
  PROVE  Sound(ExtrasStored(i), excuses)
<1> DEFINE coinPair == calls[i].pair
           a == Without(i)
           base == IF coinPair[1] = kdf.pair[1] THEN [coin |-> coinPair[1], volume |-> funds[coinPair[1]]]
                   ELSE kdf.base_max
           rel == IF coinPair[2] = kdf.pair[2] THEN [coin |-> coinPair[2], volume |-> funds[coinPair[2]]]
                  ELSE kdf.rel_max
           k == [kdf EXCEPT !.base_max = base, !.rel_max = rel, !.min_coins = coinPair]
           after == [a EXCEPT !.k = k]
<1>1. /\ a \in AppStates /\ a.p = page /\ a.w = wrapper /\ a.k = kdf
      /\ CallsIn(a.c) \subseteq CallsIn(calls) /\ calls[i] \in CallSet /\ calls[i] \in CallsIn(calls)
      /\ CallsIn(calls) \subseteq CallsIn(a.c) \cup {calls[i]}
  BY PageSound, WithoutEffect
<1>2. coinPair \in TradedPairs /\ kdf \in KdfStates
  BY <1>1 DEF CallSet, FeesCalls, OtherCalls, AppStates
<1>3. coinPair[1] \in Coins /\ coinPair[2] \in Coins
  BY <1>2 DEF TradedPairs
<1>4. base \in MaxVolumes /\ rel \in MaxVolumes
  <2>1. funds[coinPair[1]] \in 0..MaxFunds /\ funds[coinPair[2]] \in 0..MaxFunds
    BY <1>3 DEF TradingInv
  <2>2. kdf.base_max \in MaxVolumes /\ kdf.rel_max \in MaxVolumes
    BY <1>2 DEF KdfStates
  <2> HIDE DEF coinPair
  <2> QED BY <1>3, <2>1, <2>2 DEF MaxVolumes
<1>5. ExtrasStored(i) = after
  <2> DEFINE raw == [a EXCEPT !.k.base_max = IF coinPair[1] = kdf.pair[1]
                                THEN [coin |-> coinPair[1], volume |-> funds[coinPair[1]]] ELSE @,
                              !.k.rel_max = IF coinPair[2] = kdf.pair[2]
                                THEN [coin |-> coinPair[2], volume |-> funds[coinPair[2]]] ELSE @,
                              !.k.min_coins = coinPair]
  <2>1. ExtrasStored(i) = raw
    BY DEF ExtrasStored
  <2> HIDE DEF a, coinPair
  <2>2. raw = after
    BY <1>1, <1>2 DEF AppStates, KdfStates
  <2> QED BY <2>1, <2>2
<1>6. /\ excuses \cap {"overlapped", "refused"} # {} \/ coinPair = kdf.pair
  BY <1>1, PageSound DEF Sound, VolumesFollow
<1>7. coinPair = kdf.pair => base.coin = kdf.pair[1] /\ rel.coin = kdf.pair[2]
  OBVIOUS
<1> HIDE DEF a, base, rel, coinPair
<1>8. /\ k \in KdfStates /\ k.pair = kdf.pair /\ k.book = kdf.book /\ k.base_max = base
      /\ k.rel_max = rel /\ k.min_coins = coinPair
  BY <1>2, <1>4 DEF KdfStates
<1> HIDE DEF k
<1>9. after \in AppStates /\ after.p = page /\ after.w = wrapper /\ after.k = k /\ after.c = a.c
  BY <1>1, <1>8 DEF AppStates
<1> HIDE DEF after
<1>10. RowsAreOfOnePair(after) /\ PickedFollows(after, excuses) /\ VanishedIsKnown(after, excuses)
       /\ WaitingFollows(after, excuses) /\ after.k.pair = Pair(after.p)
  BY <1>8, <1>9, PageSound DEF Sound, Settled, RowsAreOfOnePair, PickedFollows, VanishedIsKnown,
     WaitingFollows
<1>11. FeesFollow(after, excuses)
  BY <1>1, <1>9, PageSound DEF Sound, Settled, FeesFollow
<1>12. VolumesFollow(after, excuses)
  BY <1>1, <1>6, <1>7, <1>8, <1>9, PageSound DEF Sound, VolumesFollow
<1>13. Sound(after, excuses)
  BY <1>9, <1>10, <1>11, <1>12 DEF Sound, Settled
<1> QED BY <1>5, <1>13

\* A call is answered, refused or lost.
LEMMA AnsweredStep ==
  ASSUME TradingInv, NEW i \in DOMAIN calls, Answered(i)
  PROVE  TradingInv'
<1> DEFINE fees == [Without(i) EXCEPT !.p.fees = calls[i].form, !.p.preimage_busy = FALSE]
           ended == ClearForms([Without(i) EXCEPT !.p.rpc_busy = FALSE])
           after == CASE calls[i].kind = "book" -> BookStored(i)
                      [] calls[i].kind = "extras" -> ExtrasStored(i)
                      [] calls[i].kind = "best" -> ScanStored(i)
                      [] calls[i].kind = "fees" -> fees
                      [] calls[i].kind = "order" -> ended
<1>1. Commit(after) /\ excuses' = excuses /\ market' = market /\ funds' = funds
  BY DEF Answered
<1>2. calls[i].kind \in {"book", "extras", "best", "fees", "order"}
  BY PageSound, WithoutEffect DEF CallSet, FeesCalls, OtherCalls
<1>3. calls[i].kind = "fees" => Sound(fees, excuses)
  BY FeesStoredSound
<1>4. calls[i].kind = "order" => Sound(ended, excuses)
  BY OrderEndsSound
<1>5. calls[i].kind = "best" => Sound(ScanStored(i), excuses)
  BY ScanOverSound DEF TradingInv
<1> HIDE DEF fees, ended
<1>6. Sound(after, excuses)
  <2>1. CASE calls[i].kind = "book"
    BY <2>1, BookStoredSound
  <2>2. CASE calls[i].kind = "extras"
    BY <2>2, ExtrasStoredSound
  <2>3. CASE calls[i].kind = "best"
    BY <2>3, <1>5
  <2>4. CASE calls[i].kind = "fees"
    BY <2>4, <1>3
  <2>5. CASE calls[i].kind = "order"
    BY <2>5, <1>4
  <2> QED BY <1>2, <2>1, <2>2, <2>3, <2>4, <2>5
<1> HIDE DEF after
<1> QED BY <1>1, <1>6, StepSound DEF TradingInv

LEMMA RefusedStep ==
  ASSUME TradingInv, NEW i \in DOMAIN calls, Refused(i)
  PROVE  TradingInv'
<1> DEFINE fees == [Without(i) EXCEPT !.p.fees = calls[i].form, !.p.preimage_busy = FALSE]
           scanned == PushFinished([Without(i) EXCEPT !.w.best_busy = FALSE], TRUE)
           after == CASE calls[i].kind = "best" -> scanned
                      [] calls[i].kind = "fees" -> fees
                      [] OTHER -> Without(i)
           more == excuses \cup (IF calls[i].kind \in {"book", "extras"} THEN {"refused"} ELSE {})
<1>1. /\ Commit(after) /\ excuses' = more /\ market' = market /\ funds' = funds
      /\ calls[i].kind # "order"
  BY DEF Refused
<1>2. calls[i].kind \in {"book", "extras", "best", "fees"}
  BY <1>1, PageSound, WithoutEffect DEF CallSet, FeesCalls, OtherCalls
<1>3. calls[i].kind = "fees" => Sound(fees, excuses)
  BY FeesStoredSound
<1>4. calls[i].kind = "best" => Sound(scanned, excuses)
  BY ScanOverSound DEF TradingInv
<1> HIDE DEF fees, scanned
<1>5. Sound(after, more)
  <2>1. CASE calls[i].kind = "best"
    <3>1. after = scanned /\ more = excuses
      BY <2>1
    <3> QED BY <1>4, <2>1, <3>1
  <2>2. CASE calls[i].kind = "fees"
    <3>1. after = fees /\ more = excuses
      BY <2>2
    <3> QED BY <1>3, <2>2, <3>1
  <2>3. CASE calls[i].kind \in {"book", "extras"}
    <3>1. after = Without(i) /\ "refused" \in more
      BY <2>3
    <3>2. Sound(App, more)
      BY PageSound
    <3> HIDE DEF after, more
    <3> QED BY <3>1, <3>2, WithoutSound
  <2> QED BY <1>2, <2>1, <2>2, <2>3
<1> HIDE DEF after, more
<1> QED BY <1>1, <1>5, StepSound DEF TradingInv

LEMMA LostStep ==
  ASSUME TradingInv, NEW i \in DOMAIN calls, Lost(i)
  PROVE  TradingInv'
<1> DEFINE ended == ClearForms([Without(i) EXCEPT !.p.rpc_busy = FALSE])
           after == IF calls[i].kind = "order" THEN ended ELSE Without(i)
           why == CASE calls[i].kind \in {"book", "extras"} -> {"refused"}
                    [] calls[i].kind = "best" -> {"lost_scan"}
                    [] calls[i].kind = "fees" -> {"lost_fees"}
                    [] calls[i].kind = "order" -> {}
           more == excuses \cup why
<1>1. Commit(after) /\ excuses' = more /\ market' = market /\ funds' = funds
  BY DEF Lost
<1>2. calls[i].kind \in {"book", "extras", "best", "fees", "order"}
  BY PageSound, WithoutEffect DEF CallSet, FeesCalls, OtherCalls
<1>3. calls[i].kind = "order" => Sound(ended, excuses)
  BY OrderEndsSound
<1>4. calls[i].kind \in {"book", "extras"} => "refused" \in why
  OBVIOUS
<1> HIDE DEF ended, why
<1>5. Sound(after, more)
  <2>1. CASE calls[i].kind = "order"
    <3>1. after = ended
      BY <2>1
    <3>2. Sound(ended, excuses) /\ excuses \subseteq more
      BY <1>3, <2>1
    <3> HIDE DEF after, more
    <3> QED BY <3>1, <3>2, MoreExcuses
  <2>2. CASE calls[i].kind # "order"
    <3>1. after = Without(i)
      BY <2>2
    <3>2. Sound(App, more)
      BY PageSound
    <3>3. calls[i].kind \in {"best", "fees", "order"} \/ "refused" \in more
      BY <1>2, <1>4
    <3> HIDE DEF after, more
    <3> QED BY <3>1, <3>2, <3>3, WithoutSound
  <2> QED BY <2>1, <2>2
<1> HIDE DEF after, more
<1> QED BY <1>1, <1>5, StepSound DEF TradingInv

\* The tick shows kdf_service's book, as the flag of the last event says.
LEMMA ShownSound ==
  ASSUME NEW st \in AppStates, NEW why, Sound(st, why)
  PROVE  Sound(RefreshOrderbook(st, st.k.book), why)
<1> DEFINE after == RefreshOrderbook(st, st.k.book)
<1>1. st.k.book.orders \in SUBSET Listed
  BY DEF AppStates, KdfStates, Books
<1>2. /\ after \in AppStates /\ after.k = st.k /\ after.c = st.c
      /\ Pair(after.p) = Pair(st.p) /\ after.p.view = st.p.view
      /\ after.p.market_mode = st.p.market_mode
      /\ after.p.preferred = st.p.preferred /\ after.p.fees = st.p.fees
      /\ after.p.order_status = StatusAfter(st, st.k.book.orders)
      /\ after.w.rows = st.k.book.orders /\ after.w.rows_pair = st.k.book.pair
      /\ after.w.selected_best = st.w.selected_best
  BY RefreshEffect
<1> HIDE DEF after
<1>3. /\ after.p.order_status = st.p.order_status \/ after.p.order_status # "None"
      /\ (/\ st.p.market_mode = "Sell" /\ st.p.preferred # NoOrder
          /\ st.p.preferred.order \in st.w.rows \ st.k.book.orders) => after.p.order_status # "None"
  BY <1>1, <1>2, StatusEffect
<1>4. VanishedIsKnown(after, why)
  BY <1>2, <1>3 DEF Sound, Settled, VanishedIsKnown
<1>5. RowsAreOfOnePair(after)
  BY <1>2 DEF Sound, Settled, RowsAreOfOnePair
<1>6. Sound(after, why)
  BY <1>2, <1>4, <1>5 DEF Sound, Settled, FeesFollow, PickedFollows, WaitingFollows, VolumesFollow
<1> QED BY <1>6 DEF after

\* A reset selects the order that waits, and does not look at the rows that go.
LEMMA ResetSound ==
  ASSUME NEW st \in AppStates, NEW why, Sound(st, why),
         st.p.preferred # NoOrder \/ st.w.selected_best # NoOrder => "unnoticed" \in why
  PROVE  Sound(ResetOrderbook(st, st.k.book), why)
<1> DEFINE after == ResetOrderbook(st, st.k.book)
<1>1. /\ after \in AppStates /\ Fixed(st, after)
      /\ after.p.fees = st.p.fees /\ after.p.order_status = st.p.order_status
      /\ after.w.rows = st.k.book.orders /\ after.w.rows_pair = st.k.book.pair
      /\ after.w.selected_best = NoOrder
      /\ \/ after.p.preferred = NoOrder
         \/ /\ st.w.selected_best = NoOrder /\ st.p.preferred # NoOrder
            /\ after.p.preferred.order = st.p.preferred.order
         \/ /\ st.w.selected_best # NoOrder
            /\ after.p.preferred.order = st.w.selected_best.order
  BY ResetEffect
<1> HIDE DEF after
<1>2. Pair(after.p) = Pair(st.p) /\ after.k.pair = Pair(after.p)
  BY <1>1 DEF Fixed, Sound
<1>3. VanishedIsKnown(after, why)
  BY <1>1 DEF VanishedIsKnown
<1>4. RowsAreOfOnePair(after)
  BY <1>1 DEF Fixed, Sound, Settled, RowsAreOfOnePair
<1>5. FeesFollow(after, why)
  BY <1>1, <1>2 DEF Fixed, Sound, Settled, FeesFollow
<1>6. PickedFollows(after, why) /\ WaitingFollows(after, why)
  BY <1>1, <1>2 DEF Fixed, Sound, Settled, PickedFollows, WaitingFollows
<1>7. VolumesFollow(after, why)
  BY <1>1 DEF Fixed, Sound, VolumesFollow
<1>8. Sound(after, why)
  BY <1>1, <1>2, <1>3, <1>4, <1>5, <1>6, <1>7 DEF Sound, Settled
<1> QED BY <1>8 DEF after

\* process_action: a book that is not accepted changes nothing but the counter.
LEMMA ProcessActionStep ==
  ASSUME TradingInv, ProcessAction
  PROVE  TradingInv'
<1> DEFINE more == excuses \cup Unnoticed
           n == page.actions - 1
           p == [page EXCEPT !.actions = n]
           popped == [App EXCEPT !.p = p]
           raw == [App EXCEPT !.p.actions = @ - 1]
           Result(st, shown) == IF ~BookIsAccepted(st) THEN st
                                ELSE IF page.need_a_reset /\ page.view = "Pro"
                                THEN SetPreferredSettings(shown) ELSE shown
           Shown(st) == IF page.need_a_reset THEN ResetOrderbook(st, kdf.book)
                        ELSE RefreshOrderbook(st, kdf.book)
<1>1. page.actions > 0 /\ excuses' = more /\ market' = market /\ funds' = funds
  BY DEF ProcessAction
<1>2. Commit(Result(raw, Shown(raw)))
  BY DEF ProcessAction
<1>3. App \in AppStates /\ Sound(App, more) /\ page \in PageStates
  BY PageSound DEF AppStates
<1>4. raw = popped
  BY PageSound
<1>5. n \in Nat
  BY <1>1, <1>3 DEF PageStates
<1>6. page.need_a_reset => (page.preferred # NoOrder \/ wrapper.selected_best # NoOrder => "unnoticed" \in more)
  BY DEF Unnoticed
<1> HIDE DEF n, raw
<1>7. p \in PageStates /\ p.left = page.left /\ p.right = page.right
      /\ p.market_mode = page.market_mode /\ p.view = page.view /\ p.fees = page.fees
      /\ p.order_status = page.order_status /\ p.preferred = page.preferred
  BY <1>3, <1>5 DEF PageStates
<1> HIDE DEF p, more
<1>8. popped \in AppStates /\ Quiet(App, popped)
  BY <1>3, <1>7, FormEffect, PageSound
<1>9. popped.p = p /\ popped.k = kdf /\ popped.w = wrapper
  BY <1>3, <1>7, PageOnly, PageSound
<1> HIDE DEF popped
<1>10. Sound(popped, more)
  BY <1>3, <1>8, QuietSound
<1>11. Sound(Shown(popped), more)
  <2>1. CASE page.need_a_reset
    <3>1. Shown(popped) = ResetOrderbook(popped, popped.k.book)
      BY <1>9, <2>1
    <3>2. popped.p.preferred # NoOrder \/ popped.w.selected_best # NoOrder => "unnoticed" \in more
      BY <1>6, <1>7, <1>9, <2>1
    <3> HIDE DEF Shown
    <3> QED BY <1>8, <1>10, <3>1, <3>2, ResetSound
  <2>2. CASE ~page.need_a_reset
    <3>1. Shown(popped) = RefreshOrderbook(popped, popped.k.book)
      BY <1>9, <2>2
    <3> HIDE DEF Shown
    <3> QED BY <1>8, <1>10, <3>1, ShownSound
  <2> QED BY <2>1, <2>2
<1> DEFINE shown == Shown(popped)
           after == Result(popped, shown)
<1>12. Commit(after)
  BY <1>2, <1>4
<1>13. Sound(shown, more) /\ shown \in AppStates
  BY <1>11 DEF Sound, Settled
<1> HIDE DEF Shown, shown
<1>14. Sound(SetPreferredSettings(shown), more)
  BY <1>13, SettingsEffect, QuietSound
<1>15. Sound(after, more)
  BY <1>10, <1>13, <1>14
<1> HIDE DEF after, Result
<1> QED BY <1>1, <1>12, <1>15, StepSound DEF TradingInv

\* What happens outside.
LEMMA MarketStep ==
  ASSUME TradingInv, NEW order \in Listed, MarketChanges(order)
  PROVE  TradingInv'
<1>1. App' = App /\ excuses' = excuses /\ funds' = funds /\ market' \subseteq Listed
  BY DEF MarketChanges, App, TradingInv
<1> QED BY <1>1 DEF TradingInv

LEMMA SpendingStep ==
  ASSUME TradingInv, NEW coin \in Coins, CoinIsSpent(coin)
  PROVE  TradingInv'
<1>1. App' = App /\ excuses' = excuses \cup {"spent"} /\ market' = market
  BY DEF CoinIsSpent, App
<1>2. funds' \in [Coins -> 0..MaxFunds]
  BY TradingAssumption DEF CoinIsSpent, TradingInv, TradingAssumption
<1>3. Sound(App, excuses \cup {"spent"})
  BY PageSound
<1> QED BY <1>1, <1>2, <1>3 DEF TradingInv

\* The invariant holds at first: the default pair, whose book is being asked for.
LEMMA TradingInit ==
  ASSUME Init
  PROVE  TradingInv
<1>1. /\ SecondCoin \in Coins \ WalletOnly /\ FirstCoin \in Coins /\ MaxFunds \in Nat
  BY TradingAssumption DEF TradingAssumption
<1>2. page \in PageStates
  BY <1>1 DEF Init, PageStates, Modes
<1>3. Unknown \in MaxVolumes
  BY <1>1 DEF Unknown, MaxVolumes
<1>4. wrapper \in WrapperStates
  BY <1>3 DEF Init, WrapperStates, WaitingOrders
<1>5. kdf \in KdfStates
  <2>1. <<SecondCoin, FirstCoin>> \in TradedPairs
    BY <1>1 DEF TradedPairs
  <2>2. [pair |-> NoPair, orders |-> {}] \in Books
    BY DEF Books
  <2> QED BY <1>3, <2>1, <2>2 DEF Init, KdfStates
<1> DEFINE call == [kind |-> "book", pair |-> <<SecondCoin, FirstCoin>>, reset |-> TRUE]
<1>6. call \in CallSet /\ call.kind = "book" /\ call.reset /\ call.pair = <<SecondCoin, FirstCoin>>
  BY <1>1 DEF CallSet, OtherCalls, TradedPairs
<1>7. calls = <<call>>
  BY DEF Init
<1> HIDE DEF call
<1>8. calls \in Seq(CallSet) /\ CallsIn(calls) = {call}
  BY <1>6, <1>7 DEF CallsIn
<1>9. App \in AppStates /\ App.p = page /\ App.w = wrapper /\ App.k = kdf /\ App.c = calls
  BY <1>2, <1>4, <1>5, <1>8 DEF App, AppStates
<1>10. /\ page.preferred = NoOrder /\ page.fees = NoFees /\ wrapper.rows = {}
       /\ wrapper.selected_best = NoOrder /\ kdf.book.orders = {}
       /\ kdf.pair = <<SecondCoin, FirstCoin>> /\ Pair(page) = <<SecondCoin, FirstCoin>>
  BY DEF Init, Pair
<1>11. Settled(App, excuses)
  BY <1>6, <1>8, <1>9, <1>10 DEF Settled, RowsAreOfOnePair, FeesFollow, PickedFollows, VanishedIsKnown
<1>12. Sound(App, excuses)
  BY <1>6, <1>8, <1>9, <1>10, <1>11 DEF Sound, WaitingFollows, VolumesFollow
<1>13. market \subseteq Listed /\ funds \in [Coins -> 0..MaxFunds]
  BY <1>1 DEF Init
<1> QED BY <1>12, <1>13 DEF TradingInv

\* Every step keeps the parts of the trading page of one pair, or has an excuse.
THEOREM TradingInductive == Spec => []TradingInv
<1>1. Init => TradingInv
  BY TradingInit
<1>2. TradingInv /\ [Next]_vars => TradingInv'
  <2> SUFFICES ASSUME TradingInv, [Next]_vars PROVE TradingInv'
    OBVIOUS
  <2>1. CASE UserActs
    BY <2>1, SelectPairStep, ChooseMarketModeStep, ChooseViewStep, TypePriceStep, TypeVolumeStep,
       ResetOrderStep, SelectOrderStep, ChooseBestOrderStep, AskFeesStep, LeaveStep,
       DisableCoinStep, PlaceOrderStep DEF UserActs, Modes
  <2>2. CASE PeriodicFetch \/ PeriodicScan
    BY <2>2, PeriodicFetchStep, PeriodicScanStep
  <2>3. CASE \E i \in DOMAIN calls : Answered(i) \/ Refused(i) \/ Lost(i)
    BY <2>3, AnsweredStep, RefusedStep, LostStep
  <2>4. CASE ProcessAction
    BY <2>4, ProcessActionStep
  <2>5. CASE \E order \in Listed : MarketChanges(order)
    BY <2>5, MarketStep
  <2>6. CASE \E coin \in Coins : CoinIsSpent(coin)
    BY <2>6, SpendingStep
  <2>7. CASE UNCHANGED vars
    <3>1. App' = App /\ excuses' = excuses /\ market' = market /\ funds' = funds
      BY <2>7 DEF vars, App
    <3> QED BY <3>1 DEF TradingInv
  <2> QED BY <2>1, <2>2, <2>3, <2>4, <2>5, <2>6, <2>7 DEF Next
<1> QED BY <1>1, <1>2, PTL DEF Spec

\* The invariant says what FormIsOfThePair says, with every call answered.
LEMMA InvGivesForm == ASSUME TradingInv PROVE FormIsOfThePair
<1>1. Sound(App, excuses) /\ App \in AppStates /\ App.p = page /\ App.w = wrapper
      /\ App.k = kdf /\ App.c = calls
  BY PageSound
<1>2. page \in PageStates /\ wrapper \in WrapperStates /\ kdf \in KdfStates /\ calls \in Seq(CallSet)
  BY <1>1 DEF AppStates
<1>3. TypeOK
  <2>1. page.left \in Coins \ WalletOnly /\ page.right \in Coins
        /\ {page.price, page.volume, page.max_volume, page.actions} \subseteq Nat
        /\ page.order_status \in {"None", "BetterPriceAvailable", "OrderNotExistingAnymore"}
    BY <1>2 DEF PageStates
  <2>2. page.preferred # NoOrder => page.preferred.order \in Listed
    BY <1>2 DEF PageStates, Picked
  <2>3. wrapper.rows \subseteq Listed /\ wrapper.best_orders \subseteq Listed
        /\ wrapper.selected_best \in WaitingOrders
    BY <1>2 DEF WrapperStates
  <2>4. {wrapper.base_max, wrapper.rel_max, kdf.base_max, kdf.rel_max} \subseteq MaxVolumes
    BY <1>2 DEF WrapperStates, KdfStates
  <2>5. kdf.pair \in Coins \X Coins
    BY <1>2 DEF KdfStates, TradedPairs
  <2>6. \A i \in DOMAIN calls : calls[i].kind \in {"book", "extras", "best", "fees", "order"}
    BY <1>1, WithoutEffect DEF CallSet, FeesCalls, OtherCalls
  <2> QED BY <2>1, <2>2, <2>3, <2>4, <2>5, <2>6 DEF TypeOK
<1>4. PreferredIsOfThePair
  BY <1>1 DEF Sound, Settled, PickedFollows, PreferredIsOfThePair, PairOf
<1>5. FeesAreOfThePair
  BY <1>1 DEF Sound, Settled, FeesFollow, FeesAreOfThePair
<1>6. VolumesAreOfThePair
  <2>1. calls = <<>> => CallsIn(calls) = {}
    BY DEF CallsIn
  <2> QED BY <1>1, <2>1 DEF Sound, VolumesFollow, VolumesAreOfThePair, Pair
<1> QED BY <1>3, <1>4, <1>5, <1>6 DEF FormIsOfThePair

\* The selected order, the fees and the volumes behind the form are of the pair the
\* page shows, for any coins, orders and bounds, however the answers of
\* prepare_orderbook, process_orderbook_extras and determine_fees come: but for the
\* excuses TradingPage names.
THEOREM FormIsAlwaysOfThePair == Spec => []FormIsOfThePair
<1>1. TradingInv => FormIsOfThePair
  BY InvGivesForm
<1> QED BY <1>1, TradingInductive, PTL

\* A selected order that leaves the book is reported by removeRows or
\* check_for_better_order, for any books and however often they are refreshed: but for
\* a reset and an order the book never had.
THEOREM VanishedOrdersAreReported == Spec => []VanishedOrderIsReported
<1>1. TradingInv => VanishedOrderIsReported
  BY PageSound DEF Sound, Settled, VanishedIsKnown, VanishedOrderIsReported
<1> QED BY <1>1, TradingInductive, PTL
=============================================================================
