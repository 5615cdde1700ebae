------------------------------ MODULE Internal ------------------------------
(***************************************************************************)
(* The queries of the AI service (aids_backend/api/internal.py) for a page *)
(* of a user's orders, one order, its trace, a refund or a product, and    *)
(* those of OwnedRepository (app/orm/repository.py) with paginate() for a  *)
(* page of the user's addresses or one address.  A query                   *)
(* runs up to three statements in one session; the shop goes on writing in *)
(* between.  The session has MySQL's default isolation, so every statement *)
(* reads the database as the first one found it.                           *)
(***************************************************************************)
EXTENDS Naturals, FiniteSets, Sequences

CONSTANTS
    Users,
    OrderNos,       \* numbers of orders, as naturals: a later one is larger
    Parcels,        \* numbers of waybills
    RefundNos,
    AddressIds,     \* primary keys, as naturals
    SpuIds,
    Queries,        \* queries that may be under way at once
    PageSize,
    MaxParcels,     \* waybills of one order
    MaxWrites       \* bound: transactions of the shop

ASSUME InternalAssumption ==
    /\ OrderNos \subseteq Nat
    /\ AddressIds \subseteq Nat
    /\ PageSize \in Nat \ {0}
    /\ MaxParcels \in Nat
    /\ MaxWrites \in Nat

VARIABLES
    history,    \* the contents the tables have had; the last is the database
    asked,      \* asked[q]: the query, or NotAsked
    snapshot,   \* snapshot[q]: which contents its statements read
    since,      \* since[q]: the contents when it arrived
    read,       \* read[q]: results of the statements so far
    reply       \* reply[q]: "none", "ok", "not found" or "error"

internalVars == <<history, asked, snapshot, since, read, reply>>

\* biz_order, biz_order_item, biz_delivery, biz_delivery_trace, biz_refund,
\* biz_address and biz_spu: orders, the numbers of those with items, waybills by
\* order, the waybills with nodes, refunds, and addresses and products that may
\* be marked deleted.
EmptyTables == [orders |-> {}, items |-> {}, deliveries |-> {}, traces |-> {},
                refunds |-> {}, addresses |-> {}, products |-> {}]

NotAsked == [kind |-> "none"]

InternalInit ==
    /\ history = <<EmptyTables>>
    /\ asked = [q \in Queries |-> NotAsked]
    /\ snapshot = [q \in Queries |-> 0]
    /\ since = [q \in Queries |-> 0]
    /\ read = [q \in Queries |-> <<>>]
    /\ reply = [q \in Queries |-> "none"]

Db == history[Len(history)]

Commits(d) ==
    /\ Len(history) <= MaxWrites
    /\ history' = Append(history, d)
    /\ UNCHANGED <<asked, snapshot, since, read, reply>>

\* What the shop commits: an order with its items, a waybill with the mark on
\* its order, a node of a waybill, a refund, an address, a product or its deletion.
PlaceOrder ==
    \E u \in Users, n \in OrderNos :
        /\ \A o \in Db.orders : o.no # n
        /\ Commits([Db EXCEPT
            !.orders = @ \union {[no |-> n, user |-> u, status |-> "paid"]},
            !.items = @ \union {n}])

ShipParcel ==
    \E o \in Db.orders, p \in Parcels :
        /\ \A x \in Db.deliveries : x.no # p
        /\ Cardinality({x \in Db.deliveries : x.order = o.no}) < MaxParcels
        /\ Commits([Db EXCEPT
            !.orders = (@ \ {o}) \union {[o EXCEPT !.status = "shipped"]},
            !.deliveries = @ \union {[no |-> p, order |-> o.no]}])

AddNode ==
    \E x \in Db.deliveries :
        /\ x.no \notin Db.traces
        /\ Commits([Db EXCEPT !.traces = @ \union {x.no}])

AskRefund ==
    \E o \in Db.orders, n \in RefundNos :
        /\ \A x \in Db.refunds : x.no # n
        /\ Commits([Db EXCEPT
            !.refunds = @ \union {[no |-> n, order |-> o.no, user |-> o.user]}])

AddAddress ==
    \E u \in Users, n \in AddressIds :
        /\ \A x \in Db.addresses : x.no # n
        /\ Commits([Db EXCEPT
            !.addresses = @ \union {[no |-> n, user |-> u, deleted |-> FALSE]}])

AddProduct ==
    \E n \in SpuIds :
        /\ \A x \in Db.products : x.no # n
        /\ Commits([Db EXCEPT !.products = @ \union {[no |-> n, deleted |-> FALSE]}])

Marked(rows, x) == (rows \ {x}) \union {[x EXCEPT !.deleted = ~x.deleted]}

\* soft_delete_by_id() or restore_by_id()
MarkDeleted ==
    \/ \E x \in Db.addresses : Commits([Db EXCEPT !.addresses = Marked(@, x)])
    \/ \E x \in Db.products : Commits([Db EXCEPT !.products = Marked(@, x)])

Asks ==
    [kind : {"list"}, user : Users, page : {1, 2}, status : {"any", "paid"}]
    \union [kind : {"detail", "trace"}, user : Users, no : OrderNos]
    \union [kind : {"refund"}, user : Users, no : RefundNos]
    \union [kind : {"addresses"}, user : Users, page : {1, 2}]
    \union [kind : {"address"}, user : Users, no : AddressIds]
    \union [kind : {"product"}, user : Users, no : SpuIds]

\* A request arrives, with the user id of the token of its caller or, signed,
\* of the caller of the AI service.
Arrive(q) ==
    /\ asked[q] = NotAsked
    /\ \E a \in Asks : asked' = [asked EXCEPT ![q] = a]
    /\ since' = [since EXCEPT ![q] = Len(history)]
    /\ UNCHANGED <<history, snapshot, read, reply>>

OwnOrders(d, u) == {o \in d.orders : o.user = u}

\* ORDER BY id DESC OFFSET (page - 1) * page_size LIMIT page_size
PageOf(rows, page) ==
    {x \in rows : LET rank == Cardinality({y \in rows : y.no >= x.no})
                  IN  rank > (page - 1) * PageSize /\ rank <= page * PageSize}

\* paginate() and the beginning of order_list(): the number, then the page.
Paged(rows, page, results) ==
    IF results = <<>> THEN Cardinality(rows) ELSE PageOf(rows, page)

ItemsOf(d, orders) == {i \in d.items : \E o \in orders : o.no = i}

\* OwnedRepository.scoped(): WHERE user_id = ? AND deleted = 0
Scoped(d, u) == {x \in d.addresses : x.user = u /\ ~x.deleted}

\* Mutation: the order is looked up by its number alone.
OwnedOrder_AnyUser(d, a) == {o \in d.orders : o.no = a.no}

\* WHERE order_no = ? AND user_id = ?
OwnedOrder(d, a) == {o \in OwnOrders(d, a.user) : o.no = a.no}

\* The statements of a query: each reads d, given the results before it.
Statement(d, a, results) ==
    LET n == Len(results) + 1
        listed == {o \in OwnOrders(d, a.user) : a.status \in {"any", o.status}}
    IN  CASE a.kind = "list" /\ n < 3 -> Paged(listed, a.page, results)
          [] a.kind = "list" /\ n = 3 -> ItemsOf(d, results[2])
          [] a.kind = "addresses" -> Paged(Scoped(d, a.user), a.page, results)
          [] a.kind = "address" -> {x \in Scoped(d, a.user) : x.no = a.no}
          [] a.kind = "detail" /\ n = 1 -> OwnedOrder(d, a)
          [] a.kind = "detail" /\ n = 2 -> ItemsOf(d, results[1])
          [] a.kind = "trace" /\ n = 1 -> {o.no : o \in OwnedOrder(d, a)}
          [] a.kind = "trace" /\ n = 2 -> {x \in d.deliveries : x.order = a.no}
          [] a.kind = "trace" /\ n = 3 -> {t \in d.traces : \E x \in results[2] : x.no = t}
          [] a.kind = "refund" -> {x \in d.refunds : x.no = a.no /\ x.user = a.user}
          [] a.kind = "product" -> {x \in d.products : x.no = a.no}

\* How the query ends after these results: "none" if a statement is to follow.
\* one_or_none() raises if there are two rows.
Ends(a, results) ==
    LET n == Len(results)
        last == results[n]
        more == CASE a.kind = "list" -> n = 1 \/ (n = 2 /\ last # {})
                  [] a.kind = "addresses" -> n = 1
                  [] a.kind = "detail" -> n = 1
                  [] a.kind = "trace" -> n = 1 \/ (n = 2 /\ last # {})
                  [] OTHER -> FALSE
    IN  CASE a.kind \notin {"list", "addresses"} /\ n = 1 /\ last = {} -> "not found"
          [] a.kind = "trace" /\ n = 2 /\ Cardinality(last) > 1 -> "error"
          [] OTHER -> IF more THEN "none" ELSE "ok"

\* REPEATABLE READ: the first statement of the transaction fixes the view.
SnapshotOf(q) == IF read[q] = <<>> THEN Len(history) ELSE snapshot[q]

Execute(q) ==
    LET results == Append(read[q], Statement(history[SnapshotOf(q)], asked[q], read[q]))
    IN  /\ asked[q] # NotAsked
        /\ reply[q] = "none"
        /\ snapshot' = [snapshot EXCEPT ![q] = SnapshotOf(q)]
        /\ read' = [read EXCEPT ![q] = results]
        /\ reply' = [reply EXCEPT ![q] = Ends(asked[q], results)]
        /\ UNCHANGED <<history, asked, since>>

InternalNext ==
    \/ PlaceOrder \/ ShipParcel \/ AddNode \/ AskRefund
    \/ AddAddress \/ AddProduct \/ MarkDeleted
    \/ \E q \in Queries : Arrive(q) \/ Execute(q)

InternalSpec == InternalInit /\ [][InternalNext]_internalVars

-----------------------------------------------------------------------------
(* Properties *)

\* What a user may see of the database: the rows that belong to the user and are
\* not deleted, and the products; product_detail() shows deleted ones as well.
Own(d, u) ==
    LET orders == OwnOrders(d, u)
        deliveries == {x \in d.deliveries : \E o \in orders : o.no = x.order}
    IN  [orders |-> orders,
         items |-> ItemsOf(d, orders),
         deliveries |-> deliveries,
         traces |-> {t \in d.traces : \E x \in deliveries : x.no = t},
         refunds |-> {x \in d.refunds : x.user = u},
         addresses |-> {x \in d.addresses : x.user = u /\ ~x.deleted},
         products |-> d.products]

\* What the query shows of tables d: how it ends and what it read.
Shows(d, a, ends, results) ==
    /\ \A i \in 1..Len(results) : results[i] = Statement(d, a, SubSeq(results, 1, i - 1))
    /\ ends = Ends(a, results)

\* An answer is about one moment between the arrival of the query and now, and
\* shows the tables as they would be if they held no rows of other users: none of
\* theirs and no deleted address is in it, not even whether
\* there is one (internal.py:150-163 and 192-196, repository.py:5-10).
AnswersOwnRowsOfOneMoment ==
    \A q \in Queries : reply[q] # "none" =>
        \E i \in since[q]..Len(history) :
            Shows(Own(history[i], asked[q].user), asked[q], reply[q], read[q])

\* An order may be split into several waybills (docs/sql/schema.sql:465), and
\* the query for the trace of such an order is answered like any other.
QueriesAreAnswered == \A q \in Queries : reply[q] # "error"
=============================================================================
