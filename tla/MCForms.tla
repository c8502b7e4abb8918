------------------------------- MODULE MCForms --------------------------------
(* The parts that stand between the user and a form: custom tokens, the     *)
(* settings, the recipient of a sending, the claim of rewards, the filter   *)
(* of the history, the numbers of the pair, the pages of orders and swaps.  *)
(* They share nothing; a behaviour runs the one that "which" names, and the *)
(* others stay as they began.                                               *)
EXTENDS MCOrdersModel, CustomTokens, Preferences, HistoryFilter, Recipient,
        Claims, PairStats

MCCheckpoints == {[height |-> 5, time |-> 10], [height |-> 1, time |-> 10]}

MCDayOf(i) == i
MCCoinsOf(i) == IF i = 2 THEN <<"B", "C">> ELSE <<"A", "C">>
MCIsMaker(i) == i = 1
MCDates == {<<1, 2>>, <<1, 3>>, <<2, 3>>}
MCPatterns == {<<"All", "All">>, <<"A", "All">>}
MCFirstChoice == [dates |-> <<1, 2>>, pattern |-> <<"All", "All">>]

MCVerdict(a) == CASE a = "A" -> "good" [] a \in {"", "x"} -> "bad" [] OTHER -> "convertible"
MCConverted(a) == IF a = "a" THEN "A" ELSE "B"

\* Two chains of one coin, as for BTC and BTC-segwit.
MCMainTicker(c) == IF c = "A-x" THEN "A" ELSE c
MCEntry(v, t) == [volume |-> v, trades |-> t]
MCAnswers == <<[k \in {<<"A", "B">>} |-> MCEntry(1, 1)], [k \in {<<"B", "A">>} |-> MCEntry(2, 3)]>>
MCRates == <<[c \in {"A", "A-x", "B"} |-> IF c = "B" THEN 2 ELSE 1],
             [c \in {"A", "A-x", "B"} |-> IF c = "A" THEN 2 ELSE 1]>>

VARIABLE which

formsVars == <<tokenVars, prefVars, hfVars, recipientVars, claimVars, statVars, ordersVars>>

MCInit ==
    /\ TokensInit /\ PrefInit /\ HfInit /\ RecipientInit /\ ClaimsInit /\ StatsInit
    /\ OrdersInit
    /\ which \in {"tokens", "settings", "history", "recipient", "claims", "pair", "orders"}
    /\ which # "history" => simple
MCNext ==
    \/ which = "tokens" /\ TokensNext
       /\ UNCHANGED <<prefVars, hfVars, recipientVars, claimVars, statVars, ordersVars, which>>
    \/ which = "settings" /\ PrefNext
       /\ UNCHANGED <<tokenVars, hfVars, recipientVars, claimVars, statVars, ordersVars, which>>
    \/ which = "history" /\ HfNext
       /\ UNCHANGED <<tokenVars, prefVars, recipientVars, claimVars, statVars, ordersVars, which>>
    \/ which = "recipient" /\ RecipientNext
       /\ UNCHANGED <<tokenVars, prefVars, hfVars, claimVars, statVars, ordersVars, which>>
    \/ which = "claims" /\ ClaimsNext
       /\ UNCHANGED <<tokenVars, prefVars, hfVars, recipientVars, statVars, ordersVars, which>>
    \/ which = "pair" /\ StatsNext
       /\ UNCHANGED <<tokenVars, prefVars, hfVars, recipientVars, claimVars, ordersVars, which>>
    \/ which = "orders" /\ OrdersNext
       /\ UNCHANGED <<tokenVars, prefVars, hfVars, recipientVars, claimVars, statVars, which>>
MCSpec == MCInit /\ [][MCNext]_<<formsVars, which>>
==============================================================================
