----------------------------- MODULE OrderbookRows -----------------------------
(***************************************************************************)
(* The rows of an orderbook_model, the bids while the user sells: how an   *)
(* answer of the daemon becomes rows, how a later answer updates, adds and *)
(* removes them, when that tells the user of a better order or of one that *)
(* is gone, and what is sent to the daemon for an order picked from a row. *)
(* TradingPage has the page and the pair around it; there a book is a set  *)
(* of orders, and here a row has its fields.                               *)
(*                                                                         *)
(* Abstracted: of the volumes the largest one is kept; the exchange rates  *)
(* and the filter of the best orders are left out.                         *)
(***************************************************************************)
EXTENDS Integers, FiniteSets, Sequences, SequencesExt, FiniteSetsExt, Functions

CONSTANTS
  Uuids,      \* the orders of the makers
  OrderPrices,\* fractions <<numerator, denominator>>
  Volumes,    \* what an order offers
  MaxChanges  \* bound: changes of the daemon's book

ASSUME RowsAssumption ==
  /\ IsFiniteSet(Uuids) /\ OrderPrices \subseteq (Nat \ {0}) \X (Nat \ {0})
  /\ Volumes \subseteq Nat \ {0} /\ MaxChanges \in Nat

VARIABLES
  book,      \* external: the bids the daemon knows, by uuid and form of address
  rows,      \* m_model_data
  orderIds,  \* m_orders_id_registry
  picked,    \* m_preferred_order, or NotPicked
  orderStatus, \* m_selected_order_status
  lastRead,  \* history: the answer treated last
  worse,     \* history: the user picked one that was not the best
  mistaken,  \* history: orders one form of which was taken for the other
  changes    \* bound

rowVars == <<book, rows, orderIds, picked, orderStatus, lastRead, worse, mistaken, changes>>

NotPicked == [uuid |-> <<"", FALSE>>]
Lower(p, q) == p[1] * q[2] < q[1] * p[2]

-----------------------------------------------------------------------------
\* from_json of an order: one in segwit form gets a uuid of its own.
Content(k, offer, all) ==
  [uuid |-> k, price |-> offer.price, numer |-> offer.price[1], denom |-> offer.price[2],
   volume |-> offer.volume, depth |-> <<offer.volume, all>>]

\* from_json of an answer: the depth of each order is its share of all that is offered.
Read(b) ==
  LET all == MapThenSumSet(LAMBDA k : b[k].volume, DOMAIN b)
  IN  {Content(k, b[k], all) : k \in DOMAIN b}

\* data: what a row tells whoever picks it, by role; the depth is only drawn.
DataOf(row) == [f \in DOMAIN row \ {"depth"} |-> row[f]]

\* match finds the first row whose uuid starts with the one asked for, and the uuid
\* of the segwit form is that of the order with a suffix.
RowAt(rs, uuid) ==
  SelectInSeq(rs, LAMBDA r : r.uuid[1] = uuid[1] /\ (uuid[2] => r.uuid[2]))
Registered(rs)  == {r.uuid : r \in Range(rs)}

\* update_order writes a row role by role, setData, but not its uuid; the numerator
\* is written over the denominator, which is written anew after it.
Updated(old, o) == [o EXCEPT !.uuid = old.uuid, !.numer = old.numer]

\* The order whose other form was found, if it was.
Mistaken(row, uuid) == IF row.uuid = uuid THEN {} ELSE {uuid[1]}

-----------------------------------------------------------------------------
\* A state of the model while an answer is treated.
Model(takes) == [rows |-> rows, orderIds |-> orderIds, picked |-> picked,
                 status |-> orderStatus, mistaken |-> mistaken, takes |-> takes]

\* betterOrderDetected: the simple view takes the order at once when it offers no
\* more than the one picked and is still worth the amount asked for.  What it is
\* told is the row get_order_from_uuid finds.
Offer(st, uuid) ==
  LET row == st.rows[RowAt(st.rows, uuid)]
  IN  [st EXCEPT !.status = "BetterPriceAvailable",
                 !.picked = IF st.takes /\ row.volume <= @.volume THEN DataOf(row) ELSE @]

\* Seeded fault: an order that is not the best any more is called gone.
MutCheckForBetter(st) == [st EXCEPT !.status = "OrderNotExistingAnymore"]

\* check_for_better_order: the first of the rows that is better, if any.
CheckForBetter(st) ==
  LET at == SelectInSeq(st.rows, LAMBDA r : Lower(st.picked.price, r.price))
  IN  IF at # 0 THEN Offer(st, st.rows[at].uuid)
      ELSE [st EXCEPT !.status = "OrderNotExistingAnymore"]

\* Seeded fault: a new order is not compared with the one picked.
MutInitializeOrder(st, o) == [st EXCEPT !.rows = Append(@, o), !.orderIds = @ \cup {o.uuid}]

InitializeOrder(st, o) ==
  LET new == [st EXCEPT !.rows = Append(@, o), !.orderIds = @ \cup {o.uuid}]
  IN  IF st.picked # NotPicked /\ Lower(st.picked.price, o.price) THEN Offer(new, o.uuid) ELSE new

UpdateOrder(st, o) ==
  LET at  == RowAt(st.rows, o.uuid)
      new == [st EXCEPT !.rows[at] = Updated(@, o),
                        !.mistaken = @ \cup Mistaken(st.rows[at], o.uuid)]
  IN  IF at = 0 THEN st
      ELSE IF st.picked = NotPicked \/ st.rows[at].price = o.price THEN new
      ELSE IF Lower(st.picked.price, o.price) THEN Offer(new, o.uuid)
      ELSE IF st.picked.uuid = o.uuid THEN CheckForBetter(new)
      ELSE new

TreatOrder(st, o) == IF o.uuid \in st.orderIds THEN UpdateOrder(st, o) ELSE InitializeOrder(st, o)

\* removeRows, which checks for a better order while the row is still there.
WithoutRow(st, at) ==
  [(IF st.picked # NotPicked /\ st.picked.uuid = st.rows[at].uuid THEN CheckForBetter(st) ELSE st)
     EXCEPT !.rows = RemoveAt(@, at)]

\* Seeded fault: the uuid stays registered.
MutRemoveRow(st, uuid) ==
  LET at == RowAt(st.rows, uuid)
  IN  IF at = 0 THEN st ELSE WithoutRow(st, at)

\* A uuid the answer has not is unregistered when a row was found for it.
RemoveRow(st, uuid) ==
  LET at == RowAt(st.rows, uuid)
  IN  IF at = 0 THEN st
      ELSE [WithoutRow(st, at) EXCEPT !.orderIds = @ \ {uuid},
                                      !.mistaken = @ \cup Mistaken(st.rows[at], uuid)]

\* Seeded fault: rows the answer has not stay.
MutRefreshRows(st, answer, gone) == FoldLeft(TreatOrder, st, answer)

\* refresh_orderbook_model_data: the orders of the answer, then the rows it has not.
RefreshRows(st, answer, gone) ==
  FoldLeft(RemoveRow, FoldLeft(TreatOrder, st, answer), gone)

-----------------------------------------------------------------------------
RowsInit ==
  /\ book = << >> /\ rows = << >> /\ orderIds = {} /\ picked = NotPicked
  /\ orderStatus = "None" /\ lastRead = {} /\ worse = FALSE /\ mistaken = {} /\ changes = 0

\* A maker adds an order, in one form of address or both, or changes it, which
\* keeps its uuid, or cancels it.
Without(u) == Restrict(book, {k \in DOMAIN book : k[1] # u})
BookChanges(b) ==
  /\ changes < MaxChanges /\ changes' = changes + 1
  /\ book' = b /\ b # book
  /\ UNCHANGED <<rows, orderIds, picked, orderStatus, lastRead, worse, mistaken>>
OrderOffered(u, forms, p, v) ==
  BookChanges([k \in ({u} \X forms) \cup DOMAIN Without(u) |->
                 IF k[1] = u THEN [price |-> p, volume |-> v] ELSE book[k]])
OrderCancelled(u) == BookChanges(Without(u))

\* A refresh: the answers come in the order of the daemon, the orderIds in any.
Refresh ==
  \E answer \in SetToSeqs(Read(book)), gone \in SetToSeqs(orderIds \ DOMAIN book),
     takes \in BOOLEAN :
       LET st == RefreshRows(Model(takes), answer, gone)
       IN  /\ rows' = st.rows /\ orderIds' = st.orderIds
           /\ picked' = st.picked /\ orderStatus' = st.status
           /\ mistaken' = st.mistaken /\ lastRead' = Read(book)
           /\ UNCHANGED <<book, worse, changes>>

\* The pair was selected anew: clear_forms, then reset_orderbook.
Reset ==
  \E answer \in SetToSeqs(Read(book)) :
    /\ rows' = answer /\ orderIds' = Registered(answer)
    /\ picked' = NotPicked /\ orderStatus' = "None"
    /\ lastRead' = Read(book) /\ worse' = FALSE /\ mistaken' = {}
    /\ UNCHANGED <<book, changes>>

\* A row is clicked: set_preferred_order with what the row shows.
Pick(row) ==
  /\ picked' = DataOf(row)
  /\ worse' = \E r \in Range(rows) : Lower(row.price, r.price)
  /\ UNCHANGED <<book, rows, orderIds, orderStatus, lastRead, mistaken, changes>>

\* reset_order, also after a sale: clear_forms.
ResetOrder ==
  /\ picked # NotPicked
  /\ picked' = NotPicked /\ orderStatus' = "None" /\ worse' = FALSE
  /\ UNCHANGED <<book, rows, orderIds, lastRead, mistaken, changes>>

RowsNext ==
  \/ \E u \in Uuids :
       \/ OrderCancelled(u)
       \/ \E forms \in {{FALSE}, BOOLEAN}, p \in OrderPrices, v \in Volumes :
            OrderOffered(u, forms, p, v)
  \/ Refresh \/ Reset \/ ResetOrder
  \/ \E i \in DOMAIN rows : Pick(rows[i])

RowsSpec == RowsInit /\ [][RowsNext]_rowVars

-----------------------------------------------------------------------------
Shown(r) == [r EXCEPT !.numer = 0]  \* a row without its numerator
Clear(uuid) == uuid[1] \notin mistaken

\* Type invariant of the rows; the code asserts that they and the orderIds agree,
\* which holds for the orders that were not mistaken.
RowsTypeOK ==
  /\ \A r \in Range(rows) : r.uuid \in Uuids \X BOOLEAN /\ r.volume \in Volumes
  /\ \A k \in orderIds \cup Registered(rows) : Clear(k) => k \in orderIds /\ k \in Registered(rows)
  /\ \A i, j \in DOMAIN rows : rows[i].uuid = rows[j].uuid /\ Clear(rows[i].uuid) => i = j
  /\ orderStatus \in {"None", "BetterPriceAvailable", "OrderNotExistingAnymore"}
  /\ mistaken \subseteq Uuids /\ changes \in 0..MaxChanges

\* Whatever the answers were and in whatever order they came, the rows are the last
\* one treated: every price, denominator, volume and share of the depth, no order
\* twice and none that is gone.  (Not the numerators, see PriceIsFromTheBook.)  An
\* order offered in both forms is left out from when a lookup by its uuid found the
\* segwit row, which match does whenever that row is the first of the two.
RowsAreTheAnswer ==
  {Shown(r) : r \in {q \in Range(rows) : Clear(q.uuid)}} =
  {Shown(r) : r \in {q \in lastRead : Clear(q.uuid)}}

\* While an order is picked that was the best of its time, a refresh leaves no
\* better row without telling of it, whichever row a lookup found.
BetterIsReported ==
  picked # NotPicked /\ ~worse /\ (\E r \in Range(rows) : Lower(picked.price, r.price)) =>
    orderStatus = "BetterPriceAvailable"

\* An order called gone is gone, or no better than when it was picked; and no other
\* one is better.
GoneIsGone ==
  picked # NotPicked /\ orderStatus = "OrderNotExistingAnymore" =>
    \A r \in {q \in lastRead : Clear(q.uuid)} :
      /\ r.uuid = picked.uuid => ~Lower(picked.price, r.price)
      /\ worse \/ ~Lower(picked.price, r.price)

\* What sell_request's to_json sends for a picked order, the fraction of the row, is
\* the price of the order.
PriceIsFromTheBook ==
  picked # NotPicked => <<picked.numer, picked.denom>> = picked.price

\* What orderbook_model shows, its rows and what it says of the picked order, is what
\* the last answer treated says.
RowsAndStatusAgree == RowsTypeOK /\ RowsAreTheAnswer /\ BetterIsReported /\ GoneIsGone
=============================================================================
