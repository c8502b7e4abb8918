---------------------------- MODULE CustomTokens ----------------------------
(***************************************************************************)
(* Tokens the user adds by contract address.  The dialog asks a proxy what *)
(* the contract is; the answer becomes m_custom_token_data, to which the   *)
(* preview belongs; Submit writes it into two files: custom-tokens of the  *)
(* wallet and coins.json, which the daemon reads and all wallets share.    *)
(* What is missing in each is judged by the registries, read when the      *)
(* session began.  Every change ends in a restart; the process may end     *)
(* before, between and in the writes.                                      *)
(*                                                                         *)
(* Abstracted: the fields of a token, its icon; a custom tokens file cut   *)
(* short, which CoinStatusFile has.                                        *)
(***************************************************************************)
EXTENDS Naturals, FiniteSets

CONSTANTS Tokens,        \* contracts, each with its ticker
          TokenWallets,
          NoToken,       \* neither a token nor a wallet
          MaxStarts      \* bound: sessions per behaviour

ASSUME TokensAssumption ==
  IsFiniteSet(Tokens) /\ NoToken \notin Tokens \cup TokenWallets /\ MaxStarts \in Nat

VARIABLES
  tokenFiles,  \* custom-tokens.<wallet>.json
  coinsFile,   \* coins.json: absent, cut or whole; the official coins; the added ones
  wallet,      \* of the session
  normalCfg,   \* m_coins_informations: the tokens in it
  rawCfg,      \* m_kdf_raw_coins_cfg: the official coins, the tokens
  tokenAsked,  \* the contract whose question is on its way
  tokenBusy,   \* fetching_custom_token_data_busy
  tokenData,   \* m_custom_token_data
  tokenPage,   \* the dialog: closed, an earlier page, the address, the preview
  tokenWrite,  \* the function that writes the files, and where it is
  tokenLost,   \* history: an answer of this process was lost or threw
  orphaned,    \* history: tokens that coins.json lost while some wallet kept them
  starts       \* bound

formVars == <<tokenAsked, tokenBusy, tokenData, tokenPage, tokenLost>>
cfgVars  == <<wallet, normalCfg, rawCfg>>
diskVars == <<tokenFiles, coinsFile>>
tokenVars == <<diskVars, cfgVars, formVars, tokenWrite, orphaned, starts>>

NoData == [token |-> NoToken, adex |-> FALSE, kdf |-> FALSE]
NoWrite == [op |-> "none", data |-> NoData, pc |-> "idle"]
Shipped == [state |-> "whole", official |-> TRUE, tokens |-> [t \in Tokens |-> 0]]

TokensInit ==
  /\ tokenFiles = [w \in TokenWallets |-> {}]
  /\ coinsFile = [Shipped EXCEPT !.state = "absent"]
  /\ wallet = NoToken /\ normalCfg = {} /\ rawCfg = [official |-> FALSE, tokens |-> {}]
  /\ tokenAsked = NoToken /\ tokenBusy = FALSE /\ tokenData = NoData
  /\ tokenPage = "closed" /\ tokenLost = FALSE
  /\ tokenWrite = NoWrite /\ orphaned = {} /\ starts = 0

InSession == wallet # NoToken /\ tokenWrite.pc = "idle"

Kept == UNION {tokenFiles[w] : w \in TokenWallets}

-----------------------------------------------------------------------------
\* parse_raw_kdf_coins_file: copies the shipped file where there is none; one that
\* is cut short leaves the registry empty.
parse_raw_kdf_coins_file ==
  LET file == IF coinsFile.state = "absent" THEN Shipped ELSE coinsFile
      whole == file.state = "whole"
  IN /\ coinsFile' = file
     /\ rawCfg' = [official |-> whole /\ file.official,
                   tokens |-> IF whole THEN {t \in Tokens : file.tokens[t] > 0} ELSE {}]

\* Whether the daemon takes a file that is cut short, nothing here relies on.
OpenSession(w) ==
  /\ wallet = NoToken /\ starts < MaxStarts /\ starts' = starts + 1
  /\ parse_raw_kdf_coins_file
  /\ wallet' = w /\ normalCfg' = tokenFiles[w]
  /\ UNCHANGED <<tokenFiles, formVars, tokenWrite, orphaned>>

\* The dialog goes with the dashboard; the question and its flag stay.
CloseSession ==
  /\ InSession
  /\ wallet' = NoToken /\ tokenPage' = "closed"
  /\ UNCHANGED <<diskVars, normalCfg, rawCfg, tokenAsked, tokenBusy, tokenData, tokenLost,
                 tokenWrite, orphaned, starts>>

\* The restart that ends a change, or the end of the process anywhere.
CutShort == {t \in Tokens : tokenWrite.pc \in {"open coins", "fill coins"}
                            /\ (t = tokenWrite.data.token \/ coinsFile.state = "cut")}
ProcessEnds ==
  /\ wallet # NoToken
  /\ wallet' = NoToken /\ normalCfg' = {} /\ rawCfg' = [official |-> FALSE, tokens |-> {}]
  /\ tokenAsked' = NoToken /\ tokenBusy' = FALSE /\ tokenData' = NoData
  /\ tokenPage' = "closed" /\ tokenLost' = FALSE /\ tokenWrite' = NoWrite
  /\ orphaned' = orphaned \cup (Kept \cap CutShort)
  /\ UNCHANGED <<diskVars, starts>>

\* coins.json lies in the folder of the version.
NewVersion ==
  /\ wallet = NoToken /\ coinsFile.state # "absent"
  /\ coinsFile' = [Shipped EXCEPT !.state = "absent"]
  /\ orphaned' = Kept
  /\ UNCHANGED <<tokenFiles, cfgVars, formVars, tokenWrite, starts>>

-----------------------------------------------------------------------------
\* AddCustomCoinModal: the dialog opens, walks its pages, closes.
TurnPage(to) ==
  /\ InSession /\ to # tokenPage
  /\ <<tokenPage, to>> \in {<<"closed", "earlier">>, <<"earlier", "address">>,
       <<"address", "earlier">>, <<"preview", "address">>} \cup
       {<<p, "closed">> : p \in {"earlier", "address", "preview"}}
  /\ tokenPage' = to
  /\ UNCHANGED <<diskVars, cfgVars, tokenAsked, tokenBusy, tokenData, tokenLost, tokenWrite,
                 orphaned, starts>>

\* The Preview button: process_token_add.
process_token_add(t) ==
  /\ InSession /\ tokenPage = "address" /\ ~tokenBusy
  /\ tokenAsked' = t /\ tokenBusy' = TRUE
  /\ UNCHANGED <<diskVars, cfgVars, tokenData, tokenPage, tokenLost, tokenWrite, orphaned, starts>>

\* The answer, on a thread of the client.  What is missing is found out now; both
\* parts copy fields of the parent's entry in coins.json, and throw without it.
MutMissing(t) == [token |-> t, adex |-> t \notin normalCfg, kdf |-> t \notin normalCfg]
Missing(t) == [token |-> t, adex |-> t \notin normalCfg, kdf |-> t \notin rawCfg.tokens]

MutParentKnown(data) == TRUE
ParentKnown(data) == (data.adex \/ data.kdf) => rawCfg.official

NextPage == CASE tokenPage = "earlier" -> "address"
              [] tokenPage = "address" -> "preview"
              [] OTHER                 -> tokenPage

TokenAnswered ==
  /\ tokenAsked # NoToken /\ InSession /\ ParentKnown(Missing(tokenAsked))
  /\ tokenData' = Missing(tokenAsked) /\ tokenBusy' = FALSE
  /\ tokenAsked' = NoToken /\ tokenPage' = NextPage
  /\ UNCHANGED <<diskVars, cfgVars, tokenLost, tokenWrite, orphaned, starts>>

MutTokenRefused ==
  /\ tokenAsked # NoToken /\ InSession
  /\ tokenData' = NoData
  /\ tokenAsked' = NoToken /\ tokenPage' = NextPage
  /\ UNCHANGED <<diskVars, cfgVars, tokenBusy, tokenLost, tokenWrite, orphaned, starts>>
\* No such contract: the answer is shown, Submit is not offered.
TokenRefused ==
  /\ tokenAsked # NoToken /\ InSession
  /\ tokenData' = NoData /\ tokenBusy' = FALSE
  /\ tokenAsked' = NoToken /\ tokenPage' = NextPage
  /\ UNCHANGED <<diskVars, cfgVars, tokenLost, tokenWrite, orphaned, starts>>

\* Nothing continues a request that fails or an answer that throws.
TokenLost ==
  /\ tokenAsked # NoToken /\ InSession
  /\ tokenAsked' = NoToken /\ tokenLost' = TRUE
  /\ UNCHANGED <<diskVars, cfgVars, tokenBusy, tokenData, tokenPage, tokenWrite, orphaned, starts>>

-----------------------------------------------------------------------------
(* Writing.                                                                *)

\* add_new_coin judges by the registries again.
CustomMissing(data) == data.adex /\ data.token \notin normalCfg
RawMissing(data)    == data.kdf /\ data.token \notin rawCfg.tokens

Submit ==
  /\ InSession /\ tokenPage = "preview" /\ tokenData # NoData
  /\ tokenWrite' = [op |-> "add", data |-> tokenData,
       pc |-> IF CustomMissing(tokenData)   THEN "custom"
              ELSE IF RawMissing(tokenData) THEN "open coins"
              ELSE "restart"]
  /\ tokenData' = NoData /\ tokenPage' = "closed"
  /\ UNCHANGED <<diskVars, cfgVars, tokenAsked, tokenBusy, tokenLost, orphaned, starts>>

\* "Disable and Delete" of a custom coin.
remove_custom_coin(t) ==
  /\ InSession /\ t \in normalCfg
  /\ normalCfg' = normalCfg \ {t}
  /\ tokenWrite' = [op |-> "remove", data |-> [NoData EXCEPT !.token = t], pc |-> "custom"]
  /\ UNCHANGED <<diskVars, wallet, rawCfg, formVars, orphaned, starts>>

\* reset_coin_cfg: coins.json goes, the wallets' tokens stay.
reset_coin_cfg ==
  /\ InSession
  /\ coinsFile' = [Shipped EXCEPT !.state = "absent"]
  /\ orphaned' = Kept
  /\ tokenWrite' = [NoWrite EXCEPT !.op = "reset", !.pc = "restart"]
  /\ UNCHANGED <<tokenFiles, cfgVars, formVars, starts>>

CoinsToWrite ==
  IF tokenWrite.op = "add" THEN RawMissing(tokenWrite.data)
                           ELSE tokenWrite.data.token \in rawCfg.tokens

WriteCustom ==
  /\ tokenWrite.pc = "custom"
  /\ tokenFiles' = [tokenFiles EXCEPT ![wallet] =
       IF tokenWrite.op = "add" THEN @ \cup {tokenWrite.data.token} ELSE @ \ {tokenWrite.data.token}]
  /\ tokenWrite' = [tokenWrite EXCEPT !.pc = IF CoinsToWrite THEN "open coins" ELSE "restart"]
  /\ UNCHANGED <<coinsFile, cfgVars, formVars, orphaned, starts>>

\* coins.json is read before it is truncated: what is written is what was read.
OpenCoins ==
  /\ tokenWrite.pc = "open coins"
  /\ tokenWrite.op = "remove" => coinsFile.state = "whole"
  /\ coinsFile' = [coinsFile EXCEPT !.state = "cut", !.official = @ /\ coinsFile.state = "whole"]
  /\ tokenWrite' = [tokenWrite EXCEPT !.pc = "fill coins"]
  /\ UNCHANGED <<tokenFiles, cfgVars, formVars, orphaned, starts>>

\* Removing takes the first entry of that name out.
MutErased(t) == CHOOSE u \in Tokens : coinsFile.tokens[u] > 0
Erased(t) == t

FillCoins ==
  LET t == tokenWrite.data.token
      tokens == coinsFile.tokens
  IN
  /\ tokenWrite.pc = "fill coins"
  /\ coinsFile' = [coinsFile EXCEPT !.state = "whole",
                     !.tokens = IF tokenWrite.op = "add" THEN [tokens EXCEPT ![t] = @ + 1]
                                ELSE [tokens EXCEPT ![Erased(t)] = @ - 1]]
  /\ tokenWrite' = [tokenWrite EXCEPT !.pc = "restart"]
  /\ orphaned' = IF tokenWrite.op = "add" THEN orphaned \ {t}
                 ELSE orphaned \cup (Kept \cap {t})
  /\ UNCHANGED <<tokenFiles, cfgVars, formVars, starts>>

TokensNext ==
  \/ \E w \in TokenWallets : OpenSession(w)
  \/ CloseSession \/ ProcessEnds \/ NewVersion
  \/ \E to \in {"closed", "earlier", "address"} : TurnPage(to)
  \/ \E t \in Tokens : process_token_add(t) \/ remove_custom_coin(t)
  \/ TokenAnswered \/ TokenRefused \/ TokenLost
  \/ Submit \/ reset_coin_cfg
  \/ WriteCustom \/ OpenCoins \/ FillCoins

-----------------------------------------------------------------------------
\* Types.  No token is twice in coins.json: removing takes out one entry only.
TokensTypeOK ==
  /\ tokenFiles \in [TokenWallets -> SUBSET Tokens]
  /\ coinsFile \in [state : {"absent", "cut", "whole"}, official : BOOLEAN, tokens : [Tokens -> 0..1]]
  /\ wallet \in TokenWallets \cup {NoToken} /\ normalCfg \subseteq Tokens
  /\ rawCfg \in [official : BOOLEAN, tokens : SUBSET Tokens]
  /\ tokenAsked \in Tokens \cup {NoToken} /\ tokenBusy \in BOOLEAN /\ tokenLost \in BOOLEAN
  /\ tokenData \in [token : Tokens \cup {NoToken}, adex : BOOLEAN, kdf : BOOLEAN]
  /\ tokenPage \in {"closed", "earlier", "address", "preview"}
  /\ tokenWrite.pc \in {"idle", "custom", "open coins", "fill coins", "restart"}
  /\ orphaned \subseteq Tokens

\* A token that a wallet keeps is one the daemon finds in coins.json, but for those
\* that another wallet removed, a reset or a new version dropped, or the end of the
\* process between two writes left out.
KeptTokensAreKnown ==
  wallet # NoToken /\ tokenWrite.pc = "idle" /\ coinsFile.state = "whole"
    => \A t \in Kept \ orphaned : coinsFile.tokens[t] = 1

\* Adding a token again repairs it: whatever was lost before, a submit that
\* reaches its end leaves the token in the wallet's file and once in coins.json.
SubmitRepairs ==
  [][tokenWrite'.op = "add" /\ tokenWrite'.pc = "restart" =>
       /\ tokenWrite'.data.token \in tokenFiles'[wallet]
       /\ coinsFile'.state = "whole" /\ coinsFile'.tokens[tokenWrite'.data.token] = 1]_tokenVars

\* A coins.json that is whole has the official coins: no token is ever written
\* over a file that was cut short, though add_new_coin would start a new one.
OfficialCoinsAreKept == coinsFile.state = "whole" => coinsFile.official

\* The dialog waits for an answer that can still come, unless one was lost: then
\* the Preview button stays disabled until the process ends.
BusyIsAsked == tokenBusy /\ ~tokenLost => tokenAsked # NoToken

\* The two files a custom token is written to agree whatever the wallets, resets, new
\* versions and ends of the process did between, and the form waits for an answer only.
TokensAreKept == KeptTokensAreKnown /\ OfficialCoinsAreKept /\ BusyIsAsked
=============================================================================
