------------------------------ MODULE OrdersModel ------------------------------
(***************************************************************************)
(* The orders and swaps the user sees: the snapshot kdf_service keeps      *)
(* (m_orders_and_swaps), the batches that refresh it, the queue of events  *)
(* the application pops in its tick, and orders_model with its pages.      *)
(*                                                                         *)
(* A reply replaces the whole snapshot by what the batch asked for when it *)
(* was sent; the model follows the snapshot when the tick gets to it, and  *)
(* asks again by itself when the page or the limit of the two differ.      *)
(*                                                                         *)
(* Abstracted: amounts, dates, fiat values and the other columns (a row is *)
(* an id, a kind and a status); set_orders_and_swaps_pagination_infos and  *)
(* the fetch it starts, which reads the snapshot back, are one step; the   *)
(* sort and the filters the proxy applies to the rows it shows.            *)
(***************************************************************************)
EXTENDS Integers, Sequences, SequencesExt, FiniteSets, Subsequences

CONSTANTS
    Orders,         \* ids of orders; the swap an order becomes has its id
    OldSwaps,       \* ids of finished swaps, the newest first (a sequence)
    Filters,        \* what the history can be filtered by
    Passes(_),      \* Passes(f): the ids a filter lets through
    Limits,         \* rows a page may be asked to hold
    Pages,          \* pages the user may turn to
    NoFilter,       \* the filter before one is chosen
    FirstLimit,     \* the limit before one is chosen
    Impatient,      \* whether the user chooses while a batch is under way
    MaxChanges,     \* bound: pages, limits and filters the user chooses
    MaxCancels,     \* bound: cancellations and recoveries
    MaxFetches,     \* bound: batches unanswered or not yet stored
    Losses          \* bound: batches that may be lost or partly refused

ASSUME OrdersAssumption ==
    /\ IsFiniteSet(Orders)
    /\ NoFilter \in Filters
    /\ FirstLimit \in Limits
    /\ Limits \subseteq Nat \ {0}
    /\ Pages \subseteq Nat \ {0} /\ 1 \in Pages
    /\ Impatient \in BOOLEAN
    /\ {MaxChanges, MaxCancels, MaxFetches, Losses} \subseteq Nat
    /\ OldSwaps \in Seq(ToSet(OldSwaps)) /\ IsInjective(OldSwaps)
    /\ Orders \cap ToSet(OldSwaps) = {}

VARIABLES
    model,          \* orders_model: m_model_data and the two id registries
    fetching_busy,  \* orders_model: m_fetching_busy
    is_history,     \* orders_proxy_model: m_is_history
    recovering,     \* orders_model: m_recover_funds_busy
    snapshot,       \* kdf_service: m_orders_and_swaps
    fetches,        \* batches: those the daemon has begun with, last begun last
    cancel,         \* the cancellation under way, if any
    actions_queue,  \* application: m_actions_queue, TRUE for "_reset"
    kdf_orders,     \* external: orders open at the daemon
    kdf_swaps,      \* external: all swaps, the newest first
    ongoing,        \* external: the swaps that are not finished
    choice,         \* history: the page, limit and filter chosen last
    ordersExcuses,  \* history: what may keep the model from the choice
    ordersUsed      \* bound: changes, commands and losses so far

ordersVars == <<model, fetching_busy, is_history, recovering, snapshot, fetches, cancel,
               actions_queue, kdf_orders, kdf_swaps, ongoing, choice, ordersExcuses,
               ordersUsed>>

daemonVars == <<kdf_orders, kdf_swaps, ongoing>>

-----------------------------------------------------------------------------
SwapIds == Orders \cup ToSet(OldSwaps)

Row == [id: SwapIds, kind: {"order", "swap"}, status: {"open", "ongoing", "finished"}]

IdsOf(rows, kind) == {rows[i].id : i \in {j \in DOMAIN rows : rows[j].kind = kind}}

\* orders_and_swaps as a request for a page leaves it.
EmptyContents(page, limit, filter) ==
    [page |-> page, limit |-> limit, filter |-> filter, nb_pages |-> 1, rows |-> <<>>]

\* The first row match() finds for an id.
IsFirst(rows, i) == \A j \in 1..(i - 1) : rows[j].id # rows[i].id

-----------------------------------------------------------------------------
(* Seeded faults: each replaces one definition below.                      *)

MutKeepIds(st, present) ==
    [st EXCEPT !.model.rows = SelectIn(@, {row \in ToSet(@) : row.kind = "swap" \/ row.id \in present})]

MutSwapsAreOrders(c) == IdsOf(c.rows, "swap")

MutNextPage(st, page) ==
    [st EXCEPT !.snapshot = EmptyContents(page + 1, st.model.limit, st.model.filter),
               !.asks = Append(@, [page |-> page + 1, limit |-> st.model.limit,
                                   filter |-> st.model.filter, reset |-> TRUE])]

MutStayBusy(st, reset) == st

MutForgetFilter == [page |-> snapshot.page, limit |-> snapshot.limit,
                    filter |-> NoFilter, reset |-> FALSE]

-----------------------------------------------------------------------------
(* orders_model, as functions of a state of the GUI thread: the model, the *)
(* busy flag, the snapshot, and the batches it asks for on the way.        *)

ResetBackend(m) ==
    [m EXCEPT !.page = 1, !.nb_pages = 1, !.rows = <<>>, !.order_ids = {}, !.swap_ids = {}]

SetPagination(st, page) ==
    [st EXCEPT !.snapshot = EmptyContents(page, st.model.limit, st.model.filter),
               !.asks = Append(@, [page |-> page, limit |-> st.model.limit,
                                   filter |-> st.model.filter, reset |-> TRUE])]

ResetAndAsk(st, page) ==
    SetPagination([st EXCEPT !.busy = TRUE, !.model = ResetBackend(@)], page)

SetCurrentPage(st, page) ==
    IF page = st.model.page THEN st ELSE ResetAndAsk(st, page)

SetLimitNbElements(st, limit) ==
    LET limited == [st EXCEPT !.model.limit = limit]
    IN  CASE limit = st.model.limit -> st
          [] limit # st.model.limit /\ st.model.page = 1 -> ResetAndAsk(limited, 1)
          [] OTHER -> SetCurrentPage(limited, 1)

\* In the history, on page 1, reset() takes the busy flag back at once.
SetFilteringInfos(st, filter) ==
    LET filtered == [st EXCEPT !.model.filter = filter]
    IN  CASE st.busy -> st
          [] ~st.busy /\ st.model.page = 1 /\ is_history ->
                [ResetAndAsk(filtered, 1) EXCEPT !.busy = FALSE]
          [] OTHER -> SetCurrentPage(filtered, 1)

InitModel(st, c) ==
    IF c.rows = <<>> THEN st
    ELSE [st EXCEPT !.model = [page |-> c.page, limit |-> c.limit, filter |-> c.filter,
                               nb_pages |-> c.nb_pages, rows |-> c.rows,
                               order_ids |-> IdsOf(c.rows, "order"),
                               swap_ids |-> IdsOf(c.rows, "swap")]]

\* "Page is different from kdf contents, force change"
SetCommonData(st, c) ==
    SetCurrentPage(SetLimitNbElements([st EXCEPT !.model.nb_pages = c.nb_pages], c.limit), c.page)

NewRows(c, kind, known) ==
    SelectIn(c.rows, {row \in ToSet(c.rows) : row.kind = kind /\ row.id \notin known})

\* The first row with the id of an order that is gone, whatever its kind.
RemoveOrders(st, present) ==
    LET gone == st.model.order_ids \ present
        rows == st.model.rows
        kept == {i \in DOMAIN rows : rows[i].id \notin gone \/ ~IsFirst(rows, i)}
    IN  [st EXCEPT !.model.rows = SelectAt(rows, kept),
                   !.model.order_ids = @ \ {rows[i].id : i \in DOMAIN rows \ kept}]

OrderIdsOf(c) == IdsOf(c.rows, "order")

UpdateOrInsertOrders(st, c) ==
    RemoveOrders([st EXCEPT !.model.rows = @ \o NewRows(c, "order", st.model.order_ids),
                            !.model.order_ids = @ \cup OrderIdsOf(c)],
                 OrderIdsOf(c))

\* update_swap writes to the first row with the id of the swap.
UpdateSwaps(rows, c, known) ==
    [i \in DOMAIN rows |->
        LET news == {row \in ToSet(c.rows) : row.kind = "swap" /\ row.id = rows[i].id}
        IN  IF rows[i].id \in known /\ news # {} /\ IsFirst(rows, i)
            THEN [rows[i] EXCEPT !.status = (CHOOSE row \in news : TRUE).status]
            ELSE rows[i]]

UpdateOrInsertSwaps(st, c) ==
    [st EXCEPT !.model.rows = UpdateSwaps(@, c, st.model.swap_ids)
                                \o NewRows(c, "swap", st.model.swap_ids),
               !.model.swap_ids = @ \cup IdsOf(c.rows, "swap")]

NotBusyAfter(st, reset) == IF reset THEN [st EXCEPT !.busy = FALSE] ELSE st

RefreshOrInsert(st, reset) ==
    LET now == NotBusyAfter(st, reset)
        c   == now.snapshot
    IN  CASE now.busy -> now
          [] ~now.busy /\ now.model.rows = <<>> -> InitModel(now, c)
          [] OTHER -> UpdateOrInsertSwaps(UpdateOrInsertOrders(SetCommonData(now, c), c), c)

-----------------------------------------------------------------------------
OrdersInit ==
    /\ model = [page |-> 1, limit |-> FirstLimit, filter |-> NoFilter,
                nb_pages |-> 1, rows |-> <<>>, order_ids |-> {}, swap_ids |-> {}]
    /\ fetching_busy = FALSE
    /\ is_history = FALSE
    /\ recovering = FALSE
    /\ snapshot = EmptyContents(1, FirstLimit, NoFilter)
    /\ fetches = <<>>
    /\ cancel = [pc |-> "idle", ids |-> {}]
    /\ actions_queue = <<>>
    /\ kdf_orders = Orders
    /\ kdf_swaps = OldSwaps
    /\ ongoing = {}
    /\ choice = [page |-> 1, limit |-> FirstLimit, filter |-> NoFilter]
    /\ ordersExcuses = {}
    /\ ordersUsed = [changes |-> 0, commands |-> 0, losses |-> 0]

OrdersGui == [model |-> model, busy |-> fetching_busy, snapshot |-> snapshot, asks |-> <<>>]

Sent(ask) == [pc |-> "sent", ask |-> ask, open |-> {}, contents |-> EmptyContents(1, 1, NoFilter)]

\* What a handler of the GUI thread leaves behind.
CommitModel(st) ==
    /\ Len(fetches) + Len(st.asks) + Len(actions_queue') =< MaxFetches
    /\ model' = st.model
    /\ fetching_busy' = st.busy
    /\ snapshot' = st.snapshot
    /\ fetches' = [i \in DOMAIN st.asks |-> Sent(st.asks[i])] \o fetches

Excuse(why, if) == ordersExcuses' = IF if THEN ordersExcuses \cup {why} ELSE ordersExcuses

UnderWay == fetching_busy \/ fetches # <<>> \/ actions_queue # <<>>

\* The user chooses; while a batch is under way, that is an excuse.
Chosen(c) ==
    /\ ordersUsed.changes < MaxChanges
    /\ UnderWay => Impatient
    /\ ordersUsed' = [ordersUsed EXCEPT !.changes = @ + 1]
    /\ choice' = c
    /\ Excuse("overlapped", UnderWay)

\* The paginator offers the pages the model knows of.
ChoosePage(page) ==
    /\ page # choice.page /\ page =< model.nb_pages
    /\ Chosen([choice EXCEPT !.page = page])
    /\ UNCHANGED <<is_history, recovering, cancel, actions_queue, daemonVars>>
    /\ CommitModel(SetCurrentPage(OrdersGui, page))

ChooseLimit(limit) ==
    /\ limit # choice.limit
    /\ Chosen([choice EXCEPT !.limit = limit, !.page = 1])
    /\ UNCHANGED <<is_history, recovering, cancel, actions_queue, daemonVars>>
    /\ CommitModel(SetLimitNbElements(OrdersGui, limit))

\* apply_all_filtering; the button belongs to the history.
ChooseFilter(filter) ==
    /\ is_history
    /\ filter # choice.filter
    /\ Chosen([choice EXCEPT !.filter = filter, !.page = 1])
    /\ UNCHANGED <<is_history, recovering, cancel, actions_queue, daemonVars>>
    /\ CommitModel(SetFilteringInfos(OrdersGui, filter))

\* set_is_history: entering the history turns to the first page.
ChooseHistory ==
    /\ ~is_history
    /\ is_history' = TRUE
    /\ Chosen([choice EXCEPT !.page = 1])
    /\ UNCHANGED <<recovering, cancel, actions_queue, daemonVars>>
    /\ CommitModel(SetCurrentPage(OrdersGui, 1))

LeaveHistory ==
    /\ is_history
    /\ ordersUsed.changes < MaxChanges
    /\ is_history' = FALSE
    /\ UNCHANGED <<model, fetching_busy, recovering, snapshot, fetches, cancel,
                   actions_queue, daemonVars, choice, ordersExcuses, ordersUsed>>

-----------------------------------------------------------------------------
(* Batches.                                                                *)

AskAgain == [page |-> snapshot.page, limit |-> snapshot.limit,
             filter |-> snapshot.filter, reset |-> FALSE]

\* Bound: room is left for what the model asks for by itself.
Room == Len(fetches) + Len(actions_queue) + 1 < MaxFetches

\* The timer of update(), a change of currency, an order placed.
FetchOrders ==
    /\ Room
    /\ fetches' = <<Sent(AskAgain)>> \o fetches
    /\ UNCHANGED <<model, fetching_busy, is_history, recovering, snapshot, cancel,
                   actions_queue, daemonVars, choice, ordersExcuses, ordersUsed>>

\* External: the daemon answers my_orders, then the two requests for swaps.
KdfBegins(i) ==
    /\ fetches[i].pc = "sent"
    /\ fetches' = Append(RemoveAt(fetches, i), [fetches[i] EXCEPT !.pc = "begun", !.open = kdf_orders])
    /\ Excuse("interleaved", \E j \in DOMAIN fetches : fetches[j].pc = "begun")
    /\ UNCHANGED <<model, fetching_busy, is_history, recovering, snapshot, cancel,
                   actions_queue, daemonVars, choice, ordersUsed>>

OrderRows(open) == SetToSeq({[id |-> id, kind |-> "order", status |-> "open"] : id \in open})

\* What the last event of a swap says of it.
StatusOf(id) == IF id \in ongoing THEN "ongoing" ELSE "finished"

SwapRow(id) == [id |-> id, kind |-> "swap", status |-> StatusOf(id)]

Passing(filter) == SelectIn(kdf_swaps, Passes(filter))

NbPages(ask) == (Len(Passing(ask.filter)) + ask.limit - 1) \div ask.limit

\* External: the swaps of a page, the newest first.
PageOf(ask) ==
    LET passing == Passing(ask.filter)
        last    == ask.page * ask.limit
    IN  SubSeq(passing, last - ask.limit + 1, IF last < Len(passing) THEN last ELSE Len(passing))

\* The contents of the answer: orders, active swaps, then the page.
PageContents(fetch, page, recent) ==
    LET active == SelectIn(kdf_swaps, ongoing)
        others == SelectIn(recent, SwapIds \ ongoing)
        ids    == active \o others
    IN  [page |-> page, limit |-> fetch.ask.limit, filter |-> fetch.ask.filter,
         nb_pages |-> IF recent = <<>> THEN 1 ELSE NbPages(fetch.ask),
         rows |-> OrderRows(fetch.open) \o [k \in DOMAIN ids |-> SwapRow(ids[k])]]

KdfAnswers(i) ==
    /\ fetches[i].pc = "begun"
    /\ fetches' = [fetches EXCEPT ![i].pc = "answered",
                     ![i].contents = PageContents(fetches[i], fetches[i].ask.page, PageOf(fetches[i].ask))]
    /\ UNCHANGED <<model, fetching_busy, is_history, recovering, snapshot, cancel,
                   actions_queue, daemonVars, choice, ordersExcuses, ordersUsed>>

Mishap(why) ==
    /\ ordersUsed.losses < Losses
    /\ ordersUsed' = [ordersUsed EXCEPT !.losses = @ + 1]
    /\ Excuse(why, TRUE)

\* my_recent_swaps fails: the page is the default of the structure.
KdfRefusesSwaps(i) ==
    /\ fetches[i].pc = "begun"
    /\ fetches' = [fetches EXCEPT ![i].pc = "answered", ![i].contents = PageContents(fetches[i], 1, <<>>)]
    /\ Mishap("refused")
    /\ UNCHANGED <<model, fetching_busy, is_history, recovering, snapshot, cancel,
                   actions_queue, daemonVars, choice>>

\* No answer, or one that does not parse: handle_exception_pplx_task logs it.
FetchLost(i) ==
    /\ fetches[i].pc = "sent"
    /\ fetches' = RemoveAt(fetches, i)
    /\ Mishap("lost")
    /\ UNCHANGED <<model, fetching_busy, is_history, recovering, snapshot, cancel,
                   actions_queue, daemonVars, choice>>

\* A worker: the snapshot is replaced and the event queued, in whatever order
\* the answers come in.
StoreReply(i) ==
    /\ fetches[i].pc = "answered"
    /\ snapshot' = fetches[i].contents
    /\ actions_queue' = Append(actions_queue, fetches[i].ask.reset)
    /\ fetches' = RemoveAt(fetches, i)
    /\ Excuse("overtaken", \E j \in 1..(i - 1) : fetches[j].pc # "sent")
    /\ UNCHANGED <<model, fetching_busy, is_history, recovering, cancel, daemonVars, choice, ordersUsed>>

\* application::tick pops an action.
Tick ==
    /\ actions_queue # <<>>
    /\ actions_queue' = Tail(actions_queue)
    /\ \E st \in {RefreshOrInsert(OrdersGui, Head(actions_queue))} : CommitModel(st)
    /\ UNCHANGED <<is_history, recovering, cancel, daemonVars, choice, ordersExcuses, ordersUsed>>

-----------------------------------------------------------------------------
(* Cancelling orders, recovering funds.                                    *)

CancelStarts ==
    /\ ordersUsed.commands < MaxCancels
    /\ ordersUsed' = [ordersUsed EXCEPT !.commands = @ + 1]

\* cancel_order, cancel_all_orders and cancel_all_orders_by_ticker.
CancelOrders(ids) ==
    /\ CancelStarts
    /\ cancel.pc = "idle"
    /\ ids # {} /\ ids \subseteq model.order_ids
    /\ cancel' = [pc |-> "sent", ids |-> ids]
    /\ UNCHANGED <<model, fetching_busy, is_history, recovering, snapshot, fetches,
                   actions_queue, daemonVars, choice, ordersExcuses>>

\* External: an order that has been matched is not cancelled.
KdfCancels ==
    /\ cancel.pc = "sent"
    /\ cancel' = [cancel EXCEPT !.pc = "answered"]
    /\ kdf_orders' = kdf_orders \ cancel.ids
    /\ UNCHANGED <<model, fetching_busy, is_history, recovering, snapshot, fetches,
                   actions_queue, kdf_swaps, ongoing, choice, ordersExcuses, ordersUsed>>

\* Whatever the answer, a worker fetches again.
Cancelled ==
    /\ cancel.pc = "answered"
    /\ Room
    /\ cancel' = [pc |-> "idle", ids |-> {}]
    /\ fetches' = <<Sent(AskAgain)>> \o fetches
    /\ UNCHANGED <<model, fetching_busy, is_history, recovering, snapshot,
                   actions_queue, daemonVars, choice, ordersExcuses, ordersUsed>>

\* The button is disabled while a recovery is under way.
RecoverFund ==
    /\ CancelStarts
    /\ ~recovering
    /\ recovering' = TRUE
    /\ UNCHANGED <<model, fetching_busy, is_history, snapshot, fetches, cancel,
                   actions_queue, daemonVars, choice, ordersExcuses>>

\* An answer of any status, or an exception on the way.
FundRecovered ==
    /\ recovering
    /\ recovering' = FALSE
    /\ UNCHANGED <<model, fetching_busy, is_history, snapshot, fetches, cancel,
                   actions_queue, daemonVars, choice, ordersExcuses, ordersUsed>>

-----------------------------------------------------------------------------
(* External: an order is matched, a swap finishes.                         *)

KdfMatches(id) ==
    /\ id \in kdf_orders
    /\ kdf_orders' = kdf_orders \ {id}
    /\ kdf_swaps' = <<id>> \o kdf_swaps
    /\ ongoing' = ongoing \cup {id}
    /\ UNCHANGED <<model, fetching_busy, is_history, recovering, snapshot, fetches,
                   cancel, actions_queue, choice, ordersExcuses, ordersUsed>>

KdfFinishes(id) ==
    /\ id \in ongoing
    /\ ongoing' = ongoing \ {id}
    /\ UNCHANGED <<model, fetching_busy, is_history, recovering, snapshot, fetches,
                   cancel, actions_queue, kdf_orders, kdf_swaps, choice, ordersExcuses, ordersUsed>>

-----------------------------------------------------------------------------
User ==
    \/ \E page \in Pages : ChoosePage(page)
    \/ \E limit \in Limits : ChooseLimit(limit)
    \/ \E filter \in Filters : ChooseFilter(filter)
    \/ ChooseHistory
    \/ LeaveHistory
    \/ \E ids \in SUBSET Orders : CancelOrders(ids)
    \/ RecoverFund

Batch(i) == KdfBegins(i) \/ KdfAnswers(i) \/ KdfRefusesSwaps(i) \/ FetchLost(i) \/ StoreReply(i)

OrdersNext ==
    \/ User
    \/ FetchOrders
    \/ \E i \in DOMAIN fetches : Batch(i)
    \/ Tick
    \/ KdfCancels \/ Cancelled \/ FundRecovered
    \/ \E id \in Orders : KdfMatches(id) \/ KdfFinishes(id)

OrdersSpec == OrdersInit /\ [][OrdersNext]_ordersVars

\* The batch that has waited longest in a state.
Longest(i, pc) ==
    /\ fetches[i].pc = pc
    /\ \A j \in DOMAIN fetches : fetches[j].pc = pc => IF pc = "sent" THEN j =< i ELSE i =< j

\* The timer goes on; the HTTP client answers or fails, and no batch waits
\* forever while others are served; the tick pops its queue.
OrdersFairSpec ==
    /\ OrdersSpec
    /\ WF_ordersVars(FetchOrders)
    /\ WF_ordersVars(Tick)
    /\ WF_ordersVars(\E i \in DOMAIN fetches : Longest(i, "sent") /\ KdfBegins(i))
    /\ WF_ordersVars(\E i \in DOMAIN fetches : Longest(i, "begun") /\ KdfAnswers(i))
    /\ WF_ordersVars(\E i \in DOMAIN fetches : Longest(i, "answered") /\ StoreReply(i))
    /\ WF_ordersVars(FundRecovered)

-----------------------------------------------------------------------------
OrderContents == [page: Nat, limit: Limits \cup {1}, filter: Filters, nb_pages: Nat, rows: Seq(Row)]

OrdersTypeOK ==
    /\ model \in [page: Nat, limit: Limits, filter: Filters, nb_pages: Nat, rows: Seq(Row),
                  order_ids: SUBSET Orders, swap_ids: SUBSET SwapIds]
    /\ {fetching_busy, is_history, recovering} \subseteq BOOLEAN
    /\ snapshot \in OrderContents
    /\ \A i \in DOMAIN fetches : fetches[i].contents \in OrderContents
    /\ actions_queue \in Seq(BOOLEAN)
    /\ ongoing \subseteq ToSet(kdf_swaps)

\* No two rows of a kind have one id.
Named(rows) ==
    \A i, j \in DOMAIN rows : rows[i].id = rows[j].id /\ rows[i].kind = rows[j].kind => i = j

\* The registries name the rows, each once: an id is in the order registry if
\* and only if there is one row of an order with it, and so for swaps, even
\* when a batch caught an order on its way to a swap with the same id; unless
\* an older answer was stored after a newer one.
RegistriesNameTheRows ==
    ordersExcuses \cap {"overtaken", "interleaved"} = {} =>
        /\ Named(model.rows)
        /\ model.order_ids = IdsOf(model.rows, "order")
        /\ model.swap_ids = IdsOf(model.rows, "swap")

\* The model turns to a page other than the first only because the user did:
\* with no choice made while a batch was under way, no forced change of page.
PagesAreTurnedByTheUser ==
    [][ model'.page # model.page =>
          \/ model'.page \in {1, choice.page}
          \/ ordersExcuses' # {} ]_ordersVars

\* A finished swap shown under a filter passes it: a batch asked for under an
\* earlier filter leaves no row behind.
FinishedRowsPassTheFilter ==
    ordersExcuses = {} =>
        \A row \in ToSet(model.rows) :
            row.status = "finished" => row.id \in Passes(model.filter)

\* What the daemon has for the choice is in the model, with its status.  (A
\* swap the page or the filter excludes may stay there as it was.)
ChoiceIsShown ==
    /\ [page |-> model.page, limit |-> model.limit, filter |-> model.filter] = choice
    /\ model.order_ids = kdf_orders
    /\ \A id \in ToSet(PageOf(choice)) : SwapRow(id) \in ToSet(model.rows)

\* In the end the model shows the page, the limit and the filter chosen last,
\* and is not busy, unless answers were lost, overlapped or came out of order.
Settles == <>[](ordersExcuses # {} \/ (ChoiceIsShown /\ ~fetching_busy))

\* "Fetching is not busy anymore", whatever the user chose and when.
FetchingEnds == fetching_busy ~> ~fetching_busy

\* The rows of orders_model, its two registries and its filter describe one snapshot.
OrderRowsAgree == OrdersTypeOK /\ RegistriesNameTheRows /\ FinishedRowsPassTheFilter
=============================================================================
