------------------------------ MODULE Recipient -----------------------------
(***************************************************************************)
(* The recipient of SendModal.  Every change of the field asks the daemon  *)
(* to validate it; an answer is stored by a worker thread, which then      *)
(* lowers the one busy flag.  The form reads the verdict when it sees the  *)
(* flag go down: signals of a worker are queued to the GUI, and a flag     *)
(* that did not change sends none.  An address that can be repaired gets a *)
(* button that asks for a conversion, and the field takes converted_address*)
(* when that flag goes down.                                               *)
(*                                                                         *)
(* Abstracted: the reasons of a verdict, the ticker (one per form), the    *)
(* session (it is open while the form is).                                 *)
(***************************************************************************)
EXTENDS Naturals, Sequences

CONSTANTS Addresses,     \* what is typed; "" is the empty field
          Verdict(_),    \* the daemon's: good, convertible or bad
          Converted(_),  \* the daemon's mixed case or cash address
          MaxQuestions   \* bound: validations, conversions and failures

ASSUME RecipientAssumption ==
  /\ "" \in Addresses /\ MaxQuestions \in Nat
  /\ \A a \in Addresses : /\ Verdict(a) \in {"good", "convertible", "bad"}
                          /\ Verdict(a) = "convertible" => Converted(a) \in Addresses

VARIABLES
  text,        \* input_address.text
  validations, \* validations under way: address, number, and how far
  validBusy,   \* m_validate_address_busy
  result,      \* m_validate_address_result
  conversions, \* conversions under way
  convertBusy, \* m_convert_address_busy
  converted,   \* m_converted_address
  seen,        \* the form: its copies of the two flags, address_data, needFix
  notices,     \* signals of worker threads that the GUI has not taken
  overlapped,  \* history: a validation was asked while one was under way
  validLost,   \* history: a validation was lost
  fixed,       \* history: whose conversion filled the field, and what went wrong
  failedFix,   \* history: of the conversions asked since the flag was last down
  questions    \* bound

validVars == <<validations, validBusy, result, overlapped, validLost>>
fixVars == <<conversions, convertBusy, converted, failedFix>>
recipientVars == <<text, validVars, fixVars, seen, notices, fixed, questions>>

NoResult == [of |-> "", kind |-> "none"]
NoFix == [on |-> FALSE, of |-> "", excused |-> FALSE, refused |-> FALSE]
NoFailure == [of |-> "", several |-> FALSE, refused |-> FALSE, edited |-> FALSE]
\* A new SendModal.
NewForm(valid, convert) ==
  [valid |-> valid, convert |-> convert, data |-> NoResult, needFix |-> FALSE]

RecipientInit ==
  /\ text = "" /\ validations = {} /\ validBusy = FALSE /\ result = NoResult
  /\ conversions = {} /\ convertBusy = FALSE /\ converted = ""
  /\ seen = NewForm(FALSE, FALSE) /\ notices = <<>>
  /\ overlapped = FALSE /\ validLost = FALSE /\ fixed = NoFix /\ failedFix = NoFailure
  /\ questions = 0

\* errorView
MutErrorView == seen.data.kind = "convertible"
ErrorView == seen.data.kind \in {"convertible", "bad", "trouble"}

MutRaised(busy) == busy
Raised(busy) == TRUE

\* validate_address of the GUI: it sees the flag it raises at once.
validate_address(a, form) ==
  /\ questions < MaxQuestions /\ questions' = questions + 1
  /\ validations' = validations \cup {[of |-> a, nr |-> questions, at |-> "asked"]}
  /\ overlapped' = (validations # {})
  /\ validLost' = (validLost /\ validBusy)
  /\ validBusy' = Raised(validBusy) /\ seen' = [form EXCEPT !.valid = validBusy']
  /\ UNCHANGED result

\* onTextChanged
SetText(a, form) ==
  IF a = text THEN seen' = form /\ UNCHANGED <<text, validVars, questions>>
  ELSE text' = a /\ validate_address(a, form)

Type(a) ==
  /\ a # text /\ SetText(a, seen)
  /\ fixed' = NoFix /\ failedFix' = [failedFix EXCEPT !.edited = convertBusy]
  /\ UNCHANGED <<conversions, convertBusy, converted, notices>>

\* onClosed resets the form, and the loader makes another.
Reopen ==
  /\ text # "" /\ text' = ""
  /\ validate_address("", NewForm(TRUE, convertBusy))
  /\ fixed' = NoFix /\ failedFix' = [failedFix EXCEPT !.edited = convertBusy]
  /\ UNCHANGED <<conversions, convertBusy, converted, notices>>

-----------------------------------------------------------------------------
(* Validation.                                                             *)

MutStored(q, kind) == IF kind = "good" THEN result ELSE [of |-> q.of, kind |-> kind]
Stored(q, kind) == [of |-> q.of, kind |-> kind]

\* The verdict, or trouble with the connection or the coin.
ValidateAnswered(q) ==
  /\ q \in validations /\ q.at = "asked"
  /\ validations' = (validations \ {q}) \cup {[q EXCEPT !.at = "stored"]}
  /\ \E kind \in {Verdict(q.of), "trouble"} : result' = Stored(q, kind)
  /\ UNCHANGED <<text, validBusy, overlapped, validLost, fixVars, seen, notices, fixed, questions>>

ValidateEnds(q) ==
  /\ q \in validations /\ q.at = "stored" /\ validations' = validations \ {q}
  /\ validBusy' = FALSE
  /\ notices' = IF validBusy THEN Append(notices, "valid") ELSE notices
  /\ UNCHANGED <<text, result, overlapped, validLost, fixVars, seen, fixed, questions>>

\* No continuation lowers the flag of a request that failed.
ValidateLost(q) ==
  /\ q \in validations /\ q.at = "asked" /\ validations' = validations \ {q}
  /\ validLost' = TRUE
  /\ UNCHANGED <<text, validBusy, result, overlapped, fixVars, seen, notices, fixed, questions>>

\* onIs_validate_address_busyChanged
ValidNotice ==
  /\ notices # <<>> /\ Head(notices) = "valid" /\ notices' = Tail(notices)
  /\ seen' = IF seen.valid /\ ~validBusy
             THEN [seen EXCEPT !.valid = FALSE, !.data = result,
                               !.needFix = (result.kind = "convertible")]
             ELSE [seen EXCEPT !.valid = validBusy]
  /\ UNCHANGED <<text, validVars, fixVars, fixed, questions>>

-----------------------------------------------------------------------------
(* Conversion.                                                             *)

\* The Fix button.
convert_address ==
  /\ questions < MaxQuestions /\ questions' = questions + 1
  /\ seen.needFix /\ ErrorView /\ text # ""
  /\ conversions' = conversions \cup {[of |-> text, nr |-> questions, at |-> "asked"]}
  /\ convertBusy' = TRUE /\ seen' = [seen EXCEPT !.convert = TRUE]
  /\ failedFix' = [of |-> text, several |-> conversions # {} \/ convertBusy,
                   refused |-> failedFix.refused /\ convertBusy, edited |-> FALSE]
  /\ fixed' = NoFix
  /\ UNCHANGED <<text, validVars, converted, notices>>

MutFieldAfter(q) == converted
FieldAfter(q) == Converted(q.of)

ConvertAnswered(q) ==
  /\ q \in conversions /\ q.at = "asked"
  /\ conversions' = (conversions \ {q}) \cup {[q EXCEPT !.at = "stored"]}
  /\ \/ Verdict(q.of) = "convertible" /\ converted' = FieldAfter(q) /\ UNCHANGED failedFix
     \/ failedFix' = [failedFix EXCEPT !.refused = TRUE] /\ UNCHANGED converted
  /\ UNCHANGED <<text, validVars, convertBusy, seen, notices, fixed, questions>>

\* Also when the daemon refused.
ConvertEnds(q) ==
  /\ q \in conversions /\ q.at = "stored" /\ conversions' = conversions \ {q}
  /\ convertBusy' = FALSE
  /\ notices' = IF convertBusy THEN Append(notices, "convert") ELSE notices
  /\ UNCHANGED <<text, validVars, converted, failedFix, seen, fixed, questions>>

ConvertLost(q) ==
  /\ q \in conversions /\ q.at = "asked" /\ conversions' = conversions \ {q}
  /\ UNCHANGED <<text, validVars, convertBusy, converted, failedFix, seen, notices, fixed, questions>>

\* onIs_convert_address_busyChanged
ConvertNotice ==
  /\ notices # <<>> /\ Head(notices) = "convert" /\ notices' = Tail(notices)
  /\ IF seen.convert /\ ~convertBusy /\ seen.needFix
     THEN /\ SetText(converted, [seen EXCEPT !.convert = FALSE, !.needFix = FALSE])
          /\ fixed' = [on |-> TRUE, of |-> failedFix.of, refused |-> failedFix.refused,
                       excused |-> failedFix.several \/ failedFix.edited]
     ELSE /\ seen' = [seen EXCEPT !.convert = convertBusy]
          /\ UNCHANGED <<text, validVars, fixed, questions>>
  /\ UNCHANGED fixVars

RecipientNext ==
  \/ \E a \in Addresses : Type(a)
  \/ Reopen \/ convert_address \/ ValidNotice \/ ConvertNotice
  \/ \E q \in validations : ValidateAnswered(q) \/ ValidateEnds(q) \/ ValidateLost(q)
  \/ \E q \in conversions : ConvertAnswered(q) \/ ConvertEnds(q) \/ ConvertLost(q)
-----------------------------------------------------------------------------
AtRest == validations = {} /\ notices = <<>>

\* When nothing is under way the form shows the verdict of what is in the field,
\* unless a validation was lost or asked while another was under way: then the first
\* answer's lowering of the flag is the only one the form hears of.
VerdictIsOfTheTyped == AtRest /\ ~overlapped /\ ~validLost /\ text # "" => seen.data.of = text

\* So an address the daemon found wrong cannot be sent to.
WrongIsNotSent ==
  AtRest /\ ~overlapped /\ ~validLost /\ text # "" /\ Verdict(text) # "good" => ErrorView

\* What Fix puts into the field is the conversion of the address it was pressed for,
\* unless it was refused, pressed again before the answer or the field was edited.
FixConverts == fixed.on /\ ~fixed.excused /\ ~fixed.refused => text = Converted(fixed.of)

\* The same of a conversion that may be refused.
FixNeverMisleads == fixed.on /\ ~fixed.excused => text = Converted(fixed.of)

\* The verdict of validate_address and the conversion of convert_address that the form
\* uses are of the address in its field.
VerdictHolds == VerdictIsOfTheTyped /\ WrongIsNotSent /\ FixConverts
=============================================================================
