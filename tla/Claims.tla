-------------------------------- MODULE Claims ------------------------------
(***************************************************************************)
(* Rewards.  ClaimRewardsModal asks for a withdrawal of all KMD to itself; *)
(* a worker thread stores the answer and lowers the busy flag; Confirm     *)
(* broadcasts the transaction the form shows.  The loader makes the form   *)
(* anew each time it opens, and a new form takes whatever answer the page  *)
(* still has until it resets itself, which it does only if no claim is     *)
(* under way.                                                              *)
(*                                                                         *)
(* Abstracted: a transaction is the count of broadcasts the daemon took    *)
(* before it was made (an older one spends what is spent); amounts, the    *)
(* table of outputs.                                                       *)
(***************************************************************************)
EXTENDS Naturals, Sequences

CONSTANT MaxClaims    \* bound: claims and broadcasts

ASSUME ClaimsAssumption == MaxClaims \in Nat

VARIABLES
  claimData,   \* m_claiming_rpc_result: empty or failed, or a transaction
  claimBusy,   \* m_is_claiming_busy
  claim,       \* the claim under way
  sending,     \* the broadcast under way
  sendBusy,    \* m_is_broadcast_busy
  sendData,    \* m_broadcast_rpc_result: empty or not
  form,        \* ClaimRewardsModal
  signals,     \* of worker threads, not yet taken by the GUI
  late,        \* of these, the ones the user's last event overtook
  taken,       \* external: broadcasts the daemon has taken
  openedBusy,  \* history: the form was opened while a claim was under way, or its signals
  claims       \* bound

claimVars == <<claimData, claimBusy, claim, sending, sendBusy, sendData, form, signals, late, taken,
               openedBusy, claims>>

Nothing == [made |-> 0, at |-> "none"]
NoCall == [made |-> 0, at |-> "idle"]
Made(n) == [made |-> n, at |-> "tx"]

\* can_claim and is_broadcast_busy are what the form has been told.
Loaded(shown) == [open |-> TRUE, page |-> 0, shown |-> shown, busy |-> claimBusy, sendBusy |-> sendBusy]
Unloaded == [open |-> FALSE, page |-> 0, shown |-> Nothing, busy |-> FALSE, sendBusy |-> FALSE]

ClaimsInit ==
  /\ claimData = Nothing /\ claimBusy = FALSE /\ claim = NoCall
  /\ sending = NoCall /\ sendBusy = FALSE /\ sendData = FALSE
  /\ form = Unloaded /\ signals = <<>> /\ late = 0 /\ taken = 0 /\ openedBusy = FALSE /\ claims = 0

\* Posted signals are handled before the next event of the user.
ClaimActs == late = 0 /\ late' = Len(signals)
Spent == claims < MaxClaims /\ claims' = claims + 1

\* claim_rewards
AskClaim ==
  Spent /\ claim.at = "idle" /\ claim' = [made |-> 0, at |-> "asked"] /\ claimBusy' = TRUE

\* prepareClaimRewards
MutPrepared(f) == [f EXCEPT !.busy = TRUE]
Prepared(f) == [f EXCEPT !.page = 0, !.shown = Nothing, !.busy = TRUE]

\* The Rewards button.  The loaded form has run onClaim_rpc_resultChanged or not.
OpenForm ==
  /\ ClaimActs /\ ~form.open
  /\ \E shown \in {claimData, Nothing} :
       IF claimBusy
       THEN form' = Loaded(shown) /\ openedBusy' = TRUE /\ UNCHANGED <<claim, claimBusy, claims>>
       ELSE AskClaim /\ form' = Prepared(Loaded(shown)) /\ openedBusy' = (signals # <<>>)
  /\ UNCHANGED <<claimData, sending, sendBusy, sendData, signals, taken>>

Refresh ==
  /\ ClaimActs /\ form.open /\ form.page = 0 /\ ~form.busy /\ ~claimBusy
  /\ AskClaim /\ form' = Prepared(form) /\ openedBusy' = FALSE
  /\ UNCHANGED <<claimData, sending, sendBusy, sendData, signals, taken>>

CloseForm ==
  /\ ClaimActs /\ form.open /\ form' = Unloaded
  /\ UNCHANGED <<claimData, claimBusy, claim, sending, sendBusy, sendData, signals, taken,
                 openedBusy, claims>>

\* The daemon makes the transaction.
DaemonPrepares ==
  /\ claim.at = "asked" /\ claim' = [made |-> taken, at |-> "made"]
  /\ UNCHANGED <<late, claimData, claimBusy, sending, sendBusy, sendData, form, signals, taken,
                 openedBusy, claims>>

\* Answer, error or exception: the data, then the flag.
ClaimStored ==
  /\ \/ claim.at = "made" /\ claimData' = Made(claim.made)
     \/ claim.at \in {"asked", "made"} /\ claimData' = Nothing
  /\ claim' = [claim EXCEPT !.at = "stored"] /\ signals' = Append(signals, "claimData")
  /\ UNCHANGED <<late, claimBusy, sending, sendBusy, sendData, form, taken, openedBusy, claims>>

ClaimEnds ==
  /\ claim.at = "stored" /\ claim' = NoCall
  /\ claimBusy' = FALSE /\ signals' = Append(signals, "claimBusy")
  /\ UNCHANGED <<late, claimData, sending, sendBusy, sendData, form, taken, openedBusy, claims>>

-----------------------------------------------------------------------------
(* Broadcast.                                                              *)

\* can_confirm
CanConfirm == form.open /\ form.page = 0 /\ form.shown.at = "tx" /\ ~form.sendBusy

claimRewards ==
  /\ ClaimActs /\ CanConfirm /\ Spent /\ sending.at = "idle"
  /\ sending' = [made |-> form.shown.made, at |-> "asked"]
  /\ sendBusy' = TRUE /\ sendData' = FALSE /\ form' = [form EXCEPT !.sendBusy = TRUE]
  /\ UNCHANGED <<claimData, claimBusy, claim, signals, taken, openedBusy>>

\* A transaction whose inputs are spent is refused; any may be.
DaemonTakes ==
  /\ sending.at = "asked"
  /\ \/ sending.made = taken /\ taken' = taken + 1
     \/ UNCHANGED taken
  /\ sending' = [sending EXCEPT !.at = "taken"]
  /\ UNCHANGED <<late, claimData, claimBusy, claim, sendBusy, sendData, form, signals, openedBusy, claims>>

\* A hash or the text of an error.
SendStored ==
  /\ sending.at \in {"asked", "taken"} /\ sending' = [sending EXCEPT !.at = "stored"]
  /\ sendData' = TRUE /\ signals' = Append(signals, "sendData")
  /\ UNCHANGED <<late, claimData, claimBusy, claim, sendBusy, form, taken, openedBusy, claims>>

SendEnds ==
  /\ sending.at = "stored" /\ sending' = NoCall
  /\ sendBusy' = FALSE /\ signals' = Append(signals, "sendBusy")
  /\ UNCHANGED <<late, claimData, claimBusy, claim, sendData, form, taken, openedBusy, claims>>

-----------------------------------------------------------------------------
MutSeen(f, s) ==
  IF s = "sendBusy" THEN [f EXCEPT !.sendBusy = sendBusy]
  ELSE IF s = "claimBusy" THEN [f EXCEPT !.busy = claimBusy]
  ELSE IF s = "claimData" THEN [f EXCEPT !.shown = claimData] ELSE f

\* onClaim_rpc_resultChanged, onBroadcast_resultChanged, and the flags.
Seen(f, s) ==
  CASE s = "claimData" -> [f EXCEPT !.shown = claimData]
    [] s = "claimBusy" -> [f EXCEPT !.busy = claimBusy]
    [] s = "sendData"  -> IF sendData THEN [f EXCEPT !.page = 1] ELSE f
    [] s = "sendBusy"  -> [f EXCEPT !.sendBusy = sendBusy]

TakeSignal ==
  /\ signals # <<>> /\ signals' = Tail(signals)
  /\ late' = IF late = 0 THEN 0 ELSE late - 1
  /\ form' = IF form.open THEN Seen(form, Head(signals)) ELSE form
  /\ UNCHANGED <<claimData, claimBusy, claim, sending, sendBusy, sendData, taken, openedBusy, claims>>

ClaimsNext ==
  \/ OpenForm \/ Refresh \/ CloseForm \/ DaemonPrepares \/ ClaimStored \/ ClaimEnds
  \/ claimRewards \/ DaemonTakes \/ SendStored \/ SendEnds \/ TakeSignal
-----------------------------------------------------------------------------
\* What Confirm would broadcast was made after the last broadcast the daemon took,
\* unless the form was opened while a claim, or the signals of one, were under way:
\* then it is not reset and may show the transaction that was already sent.
ClaimsAreFresh == CanConfirm /\ ~openedBusy => form.shown.made = taken
=============================================================================
