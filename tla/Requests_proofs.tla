--------------------------- MODULE Requests_proofs --------------------------
(***************************************************************************)
(* Proofs about how a service comes up and answers a request: the internal *)
(* api, the request pipeline and the assertions of the startup, a section  *)
(* for each.                                                               *)
(***************************************************************************)
EXTENDS Internal, Pipeline, Startup, TLAPS

-----------------------------------------------------------------------------
(***************************************************************************)
(* Internal, for any tables and any queries: every statement of a query    *)
(* reads the version it began with, and it sees the rows of the caller     *)
(* only.                                                                   *)
(***************************************************************************)

IsSequence(s) == \E S : s \in Seq(S)

InternalTypeOK ==
    /\ Len(history) \in Nat \ {0}
    /\ asked \in [Queries -> Asks \union {NotAsked}]
    /\ snapshot \in [Queries -> Nat]
    /\ since \in [Queries -> Nat]
    /\ DOMAIN read = Queries
    /\ reply \in [Queries -> {"none", "ok", "not found", "error"}]

SequencesOK == IsSequence(history) /\ \A q \in Queries : IsSequence(read[q])

\* Each result is that of its statement on tables d, and the query went on
\* only where it does not end; this is how it stands.
RanOn(d, a, results, ends) ==
    /\ \A i \in 1..Len(results) :
        /\ results[i] = Statement(d, a, SubSeq(results, 1, i - 1))
        /\ i > 1 => Ends(a, SubSeq(results, 1, i - 1)) = "none"
    /\ ends = Ends(a, results)

\* A query that has begun has read one version of the tables, and it is not
\* from before the query arrived.
ReadsOneVersion ==
    \A q \in Queries :
        IF read[q] = <<>>
        THEN reply[q] = "none"
        ELSE /\ asked[q] # NotAsked
             /\ snapshot[q] \in since[q]..Len(history)
             /\ snapshot[q] > 0
             /\ RanOn(history[snapshot[q]], asked[q], read[q], reply[q])

ArrivedBefore == \A q \in Queries : asked[q] # NotAsked => since[q] \in 1..Len(history)

InternalInv == InternalTypeOK /\ SequencesOK /\ ReadsOneVersion /\ ArrivedBefore

USE InternalAssumption

-----------------------------------------------------------------------------
(* Sequences *)

LEMMA AppendKeeps ==
  ASSUME NEW s, IsSequence(s), NEW e
  PROVE  /\ IsSequence(Append(s, e))
         /\ Len(s) \in Nat /\ Len(Append(s, e)) = Len(s) + 1
         /\ \A i \in 1..Len(s) : Append(s, e)[i] = s[i]
         /\ Append(s, e)[Len(s) + 1] = e
         /\ \A n \in 0..Len(s) : SubSeq(Append(s, e), 1, n) = SubSeq(s, 1, n)
         /\ SubSeq(s, 1, Len(s)) = s
<1>1. PICK S : s \in Seq(S)
  BY DEF IsSequence
<1> DEFINE U == S \union {e}
           a == Append(s, e)
<1>2. s \in Seq(U) /\ e \in U
  BY <1>1
<1> HIDE DEF U
<1>3. /\ a \in Seq(U) /\ Len(s) \in Nat /\ Len(a) = Len(s) + 1
      /\ \A i \in 1..Len(s) : a[i] = s[i]
      /\ a[Len(s) + 1] = e
  BY <1>2
<1> HIDE DEF a
<1>4. ASSUME NEW n \in 0..Len(s) PROVE SubSeq(a, 1, n) = SubSeq(s, 1, n)
  <2>1. SubSeq(a, 1, n) = [i \in 1..n |-> a[i]] /\ SubSeq(s, 1, n) = [i \in 1..n |-> s[i]]
    BY <1>2, <1>3
  <2>2. \A i \in 1..n : a[i] = s[i]
    BY <1>3
  <2> QED
    BY <2>1, <2>2
<1>5. SubSeq(s, 1, Len(s)) = s
  BY <1>2
<1> QED
  BY <1>3, <1>4, <1>5 DEF IsSequence, a

LEMMA PrefixOf ==
  ASSUME NEW s, IsSequence(s), NEW n \in 0..Len(s)
  PROVE  /\ Len(SubSeq(s, 1, n)) = n
         /\ \A i \in 1..n : SubSeq(s, 1, n)[i] = s[i]
         /\ SubSeq(s, 1, n) = <<>> <=> n = 0
<1>1. PICK S : s \in Seq(S)
  BY DEF IsSequence
<1> QED
  BY <1>1

-----------------------------------------------------------------------------
(* What a query is shown *)

\* A query goes on after one or two results only.
LEMMA GoesOn ==
  ASSUME NEW a \in Asks, NEW s, Len(s) \in Nat, Len(s) > 0, Ends(a, s) = "none"
  PROVE  \/ a.kind = "list" /\ Len(s) \in {1, 2}
         \/ a.kind = "addresses" /\ Len(s) = 1
         \/ a.kind = "detail" /\ Len(s) = 1
         \/ a.kind = "trace" /\ Len(s) \in {1, 2} /\ (Len(s) = 1 => s[1] # {})
  BY DEF Ends, Asks

\* The tables of a user's own rows, looked at by the user.
LEMMA OwnTables ==
  ASSUME NEW d, NEW u
  PROVE  /\ OwnOrders(Own(d, u), u) = OwnOrders(d, u)
         /\ Scoped(Own(d, u), u) = Scoped(d, u)
         /\ \A orders : orders \subseteq OwnOrders(d, u) =>
                ItemsOf(Own(d, u), orders) = ItemsOf(d, orders)
         /\ \A n : (\E o \in OwnOrders(d, u) : o.no = n) =>
                {x \in Own(d, u).deliveries : x.order = n} = {x \in d.deliveries : x.order = n}
         /\ \A rows : rows \subseteq Own(d, u).deliveries =>
                {t \in Own(d, u).traces : \E x \in rows : x.no = t}
                  = {t \in d.traces : \E x \in rows : x.no = t}
         /\ Own(d, u).refunds = {x \in d.refunds : x.user = u}
         /\ Own(d, u).products = d.products
<1> DEFINE own == Own(d, u)
<1>1. /\ own.orders = OwnOrders(d, u)
      /\ own.items = ItemsOf(d, OwnOrders(d, u))
      /\ own.deliveries = {x \in d.deliveries : \E o \in OwnOrders(d, u) : o.no = x.order}
      /\ own.traces = {t \in d.traces : \E x \in own.deliveries : x.no = t}
      /\ own.refunds = {x \in d.refunds : x.user = u}
      /\ own.addresses = Scoped(d, u)
      /\ own.products = d.products
  BY DEF Own, Scoped
<1> HIDE DEF own
<1>2. OwnOrders(own, u) = OwnOrders(d, u)
  BY <1>1 DEF OwnOrders
<1>3. Scoped(own, u) = Scoped(d, u)
  BY <1>1 DEF Scoped
<1>4. ASSUME NEW orders, orders \subseteq OwnOrders(d, u)
      PROVE  ItemsOf(own, orders) = ItemsOf(d, orders)
  BY <1>1, <1>4 DEF ItemsOf
<1>5. ASSUME NEW n, \E o \in OwnOrders(d, u) : o.no = n
      PROVE  {x \in own.deliveries : x.order = n} = {x \in d.deliveries : x.order = n}
  BY <1>1, <1>5
<1>6. ASSUME NEW rows, rows \subseteq own.deliveries
      PROVE  {t \in own.traces : \E x \in rows : x.no = t} = {t \in d.traces : \E x \in rows : x.no = t}
  BY <1>1, <1>6
<1> QED
  BY <1>1, <1>2, <1>3, <1>4, <1>5, <1>6 DEF own

Listed(d, a) == {o \in OwnOrders(d, a.user) : a.status \in {"any", o.status}}

\* The statements one by one.
LEMMA ListStatements ==
  ASSUME NEW d, NEW a, NEW s, Len(s) \in Nat, a.kind = "list"
  PROVE  /\ Len(s) < 2 => Statement(d, a, s) = Paged(Listed(d, a), a.page, s)
         /\ Len(s) = 2 => Statement(d, a, s) = ItemsOf(d, s[2])
<1>1. CASE Len(s) < 2
  BY <1>1 DEF Statement, Listed
<1>2. CASE Len(s) = 2
  BY <1>2 DEF Statement
<1> QED
  BY <1>1, <1>2

LEMMA AddressesStatements ==
  ASSUME NEW d, NEW a, NEW s, a.kind = "addresses"
  PROVE  Statement(d, a, s) = Paged(Scoped(d, a.user), a.page, s)
  BY DEF Statement

AddressIn(rows, n) == {x \in rows : x.no = n}

LEMMA AddressStatement ==
  ASSUME NEW d, NEW a, NEW s, a.kind = "address"
  PROVE  Statement(d, a, s) = AddressIn(Scoped(d, a.user), a.no)
  BY DEF Statement, AddressIn

LEMMA DetailStatements ==
  ASSUME NEW d, NEW a, NEW s, Len(s) \in Nat, a.kind = "detail"
  PROVE  /\ Len(s) = 0 => Statement(d, a, s) = OwnedOrder(d, a)
         /\ Len(s) = 1 => Statement(d, a, s) = ItemsOf(d, s[1])
<1>1. CASE Len(s) = 0
  BY <1>1 DEF Statement
<1>2. CASE Len(s) = 1
  BY <1>2 DEF Statement
<1> QED
  BY <1>1, <1>2

NosOf(orders) == {o.no : o \in orders}

ShippedIn(rows, n) == {x \in rows : x.order = n}

NodesOf(traces, rows) == {t \in traces : \E x \in rows : x.no = t}

LEMMA TraceStatements ==
  ASSUME NEW d, NEW a, NEW s, Len(s) \in Nat, a.kind = "trace"
  PROVE  /\ Len(s) = 0 => Statement(d, a, s) = NosOf(OwnedOrder(d, a))
         /\ Len(s) = 1 => Statement(d, a, s) = ShippedIn(d.deliveries, a.no)
         /\ Len(s) = 2 => Statement(d, a, s) = NodesOf(d.traces, s[2])
<1>1. CASE Len(s) = 0
  BY <1>1 DEF Statement, NosOf
<1>2. CASE Len(s) = 1
  BY <1>2 DEF Statement, ShippedIn
<1>3. CASE Len(s) = 2
  BY <1>3 DEF Statement, NodesOf
<1> QED
  BY <1>1, <1>2, <1>3

RefundIn(rows, a) == {x \in rows : x.no = a.no /\ x.user = a.user}

LEMMA RefundStatement ==
  ASSUME NEW d, NEW a, NEW s, a.kind = "refund"
  PROVE  Statement(d, a, s) = RefundIn(d.refunds, a)
  BY DEF Statement, RefundIn

LEMMA ProductStatement ==
  ASSUME NEW d, NEW a, NEW s, a.kind = "product"
  PROVE  Statement(d, a, s) = {x \in d.products : x.no = a.no}
  BY DEF Statement

\* A query that ran on tables d would have seen the same had they held the
\* user's own rows alone.
LEMMA SeesOwnOnly ==
  ASSUME NEW d, NEW a \in Asks, NEW s, IsSequence(s), NEW ends, RanOn(d, a, s, ends),
         NEW i \in 1..Len(s)
  PROVE  Statement(Own(d, a.user), a, SubSeq(s, 1, i - 1)) = Statement(d, a, SubSeq(s, 1, i - 1))
<1> DEFINE own == Own(d, a.user)
           p == SubSeq(s, 1, i - 1)
<1> SUFFICES Statement(own, a, p) = Statement(d, a, p)
  OBVIOUS
<1>1. Len(s) \in Nat /\ i \in Nat /\ i >= 1
  BY AppendKeeps
<1>2. Len(p) = i - 1 /\ \A j \in 1..(i - 1) : p[j] = s[j]
  BY <1>1, PrefixOf
<1>3. \A j \in 1..Len(s) : s[j] = Statement(d, a, SubSeq(s, 1, j - 1))
  BY DEF RanOn
<1>4. i > 1 => Ends(a, p) = "none"
  BY DEF RanOn
<1> DEFINE none == SubSeq(s, 1, 0)
           first == SubSeq(s, 1, 1)
<1>5. /\ 1 \in 1..Len(s) => s[1] = Statement(d, a, none) /\ Len(none) = 0 /\ Len(none) \in Nat
      /\ 2 \in 1..Len(s) => /\ s[2] = Statement(d, a, first) /\ Len(first) = 1
                             /\ Len(first) \in Nat /\ first # <<>> /\ first[1] = s[1]
  <2>1. 1 \in 1..Len(s) => s[1] = Statement(d, a, SubSeq(s, 1, 0))
    <3>1. 1 - 1 = 0
      OBVIOUS
    <3> QED
      BY <3>1, <1>3
  <2>2. 2 \in 1..Len(s) => s[2] = Statement(d, a, SubSeq(s, 1, 1))
    <3>1. 2 - 1 = 1
      OBVIOUS
    <3> QED
      BY <3>1, <1>3
  <2>3. /\ 1 \in 1..Len(s) => Len(SubSeq(s, 1, 0)) = 0
        /\ 2 \in 1..Len(s) => Len(SubSeq(s, 1, 1)) = 1 /\ SubSeq(s, 1, 1) # <<>>
                               /\ SubSeq(s, 1, 1)[1] = s[1]
    BY <1>1, PrefixOf
  <2> QED
    BY <2>1, <2>2, <2>3
<1>6. OwnOrders(own, a.user) = OwnOrders(d, a.user) /\ Scoped(own, a.user) = Scoped(d, a.user)
  BY OwnTables
<1> HIDE DEF own, p, none, first
<1>7. Listed(own, a) = Listed(d, a) /\ OwnedOrder(own, a) = OwnedOrder(d, a)
  BY <1>6 DEF Listed, OwnedOrder
<1>8. i > 1 => \/ a.kind = "list" /\ i \in {2, 3}
               \/ a.kind = "addresses" /\ i = 2
               \/ a.kind = "detail" /\ i = 2
               \/ a.kind = "trace" /\ i \in {2, 3} /\ (i = 2 => p[1] # {})
  BY <1>1, <1>2, <1>4, GoesOn
<1>9. CASE a.kind = "list"
  <2>1. CASE i < 3
    BY <1>1, <1>2, <1>7, <1>9, <2>1, ListStatements
  <2>2. CASE i = 3
    <3>1. p[2] = s[2] /\ 2 \in 1..Len(s)
      BY <1>1, <1>2, <2>2
    <3>2. s[2] = Paged(Listed(d, a), a.page, first)
      <4>1. Len(first) = 1 /\ s[2] = Statement(d, a, first)
        BY <3>1, <1>5
      <4>2. Len(first) \in Nat /\ Len(first) < 2
        BY <4>1
      <4> QED
        BY <4>1, <4>2, <1>9, ListStatements
    <3>3. p[2] \subseteq OwnOrders(d, a.user)
      BY <3>1, <3>2, <1>5 DEF Paged, PageOf, Listed
    <3>4. ItemsOf(own, p[2]) = ItemsOf(d, p[2])
      BY <3>3, OwnTables DEF own
    <3> QED
      BY <3>4, <1>2, <1>9, <2>2, ListStatements
  <2> QED
    BY <2>1, <2>2, <1>1, <1>8, <1>9
<1>10. CASE a.kind = "addresses"
  BY <1>1, <1>2, <1>6, <1>10, AddressesStatements
<1>11. CASE a.kind = "address"
  BY <1>1, <1>2, <1>6, <1>11, AddressStatement
<1>12. CASE a.kind = "detail"
  <2>1. CASE i = 1
    BY <1>2, <1>7, <1>12, <2>1, DetailStatements
  <2>2. CASE i = 2
    <3>1. p[1] = s[1] /\ 1 \in 1..Len(s)
      BY <1>1, <1>2, <2>2
    <3>2. s[1] = OwnedOrder(d, a)
      BY <3>1, <1>5, <1>12, DetailStatements
    <3>3. ItemsOf(own, p[1]) = ItemsOf(d, p[1])
      BY <3>1, <3>2, OwnTables DEF own, OwnedOrder
    <3> QED
      BY <3>3, <1>2, <1>12, <2>2, DetailStatements
  <2> QED
    BY <2>1, <2>2, <1>1, <1>8, <1>12
<1>13. CASE a.kind = "trace"
  <2>1. CASE i = 1
    BY <1>2, <1>7, <1>13, <2>1, TraceStatements
  <2>2. ASSUME 1 \in 1..Len(s), s[1] # {}
        PROVE  ShippedIn(own.deliveries, a.no) = ShippedIn(d.deliveries, a.no)
    <3>1. s[1] = NosOf(OwnedOrder(d, a))
      BY <2>2, <1>5, <1>13, TraceStatements
    <3>2. \E o \in OwnOrders(d, a.user) : o.no = a.no
      BY <3>1, <2>2 DEF OwnedOrder, NosOf
    <3> QED
      BY <3>2, OwnTables DEF own, ShippedIn
  <2>3. CASE i = 2
    <3>1. p[1] = s[1] /\ 1 \in 1..Len(s) /\ p[1] # {}
      BY <1>1, <1>2, <1>8, <1>13, <2>3
    <3> QED
      BY <3>1, <2>2, <1>2, <1>13, <2>3, TraceStatements
  <2>4. CASE i = 3
    <3>1. p[2] = s[2] /\ 2 \in 1..Len(s) /\ 1 \in 1..Len(s)
      BY <1>1, <1>2, <2>4
    <3>2. s[2] = ShippedIn(d.deliveries, a.no)
      BY <3>1, <1>5, <1>13, TraceStatements
    <3>3. s[1] # {}
      <4>1. 2 \in 1..Len(s) /\ 2 > 1 /\ 2 - 1 = 1
        BY <3>1
      <4>2. Ends(a, first) = "none"
        BY <4>1 DEF RanOn, first
      <4> QED
        BY <4>1, <4>2, <1>5, <1>13, GoesOn
    <3>4. p[2] \subseteq own.deliveries
      BY <3>1, <3>2, <3>3, <2>2 DEF ShippedIn
    <3>5. NodesOf(own.traces, p[2]) = NodesOf(d.traces, p[2])
      BY <3>4, OwnTables DEF own, NodesOf
    <3> QED
      BY <3>5, <1>2, <1>13, <2>4, TraceStatements
  <2> QED
    BY <2>1, <2>3, <2>4, <1>1, <1>8, <1>13
<1>14. CASE a.kind = "refund"
  <2>1. own.refunds = {x \in d.refunds : x.user = a.user}
    BY OwnTables DEF own
  <2>2. RefundIn(own.refunds, a) = RefundIn(d.refunds, a)
    BY <2>1 DEF RefundIn
  <2> QED
    BY <1>1, <1>2, <1>14, <2>2, RefundStatement
<1>15. CASE a.kind = "product"
  <2>1. own.products = d.products
    BY OwnTables DEF own
  <2>2. Statement(own, a, p) = {x \in own.products : x.no = a.no}
    BY <1>15, ProductStatement
  <2>3. Statement(d, a, p) = {x \in d.products : x.no = a.no}
    BY <1>15, ProductStatement
  <2> QED
    BY <2>1, <2>2, <2>3
<1>16. a.kind \in {"list", "addresses", "address", "detail", "trace", "refund", "product"}
  BY DEF Asks
<1> QED
  BY <1>9, <1>10, <1>11, <1>12, <1>13, <1>14, <1>15, <1>16

-----------------------------------------------------------------------------
(* The invariant *)

LEMMA InternalInvInit == InternalInit => InternalInv
<1> SUFFICES ASSUME InternalInit PROVE InternalInv
  OBVIOUS
<1>1. <<>> \in Seq({}) /\ history \in Seq({EmptyTables}) /\ Len(history) = 1
  BY DEF InternalInit
<1>2. InternalTypeOK
  BY <1>1 DEF InternalInit, InternalTypeOK
<1>3. IsSequence(history) /\ IsSequence(<<>>)
  BY <1>1 DEF IsSequence
<1>4. SequencesOK
  BY <1>3 DEF InternalInit, SequencesOK
<1> QED
  BY <1>2, <1>4 DEF InternalInit, InternalInv, ReadsOneVersion, ArrivedBefore

\* What the shop commits is a further version of the tables.
LEMMA CommitsStep ==
  ASSUME InternalInv, NEW d, Commits(d)
  PROVE  InternalInv'
<1>0. IsSequence(history) /\ history' = Append(history, d)
  BY DEF Commits, InternalInv, SequencesOK
<1>1. /\ IsSequence(history') /\ Len(history) \in Nat /\ Len(history') = Len(history) + 1
      /\ \A i \in 1..Len(history) : history'[i] = history[i]
  BY <1>0, AppendKeeps
<1>2. UNCHANGED <<asked, snapshot, since, read, reply>>
  BY DEF Commits
<1>3. InternalTypeOK'
  <2>1. Len(history') \in Nat \ {0}
    BY <1>1
  <2> QED
    BY <2>1, <1>2 DEF InternalInv, InternalTypeOK
<1>4. \A q \in Queries : since[q] \in Nat /\ snapshot[q] \in Nat
  BY DEF InternalInv, InternalTypeOK
<1>5. ReadsOneVersion'
  <2> SUFFICES ASSUME NEW q \in Queries
               PROVE  IF read[q] = <<>>
                      THEN reply[q] = "none"
                      ELSE /\ asked[q] # NotAsked
                           /\ snapshot[q] \in since[q]..Len(history')
                           /\ snapshot[q] > 0
                           /\ RanOn(history'[snapshot[q]], asked[q], read[q], reply[q])
    BY <1>2 DEF ReadsOneVersion
  <2>1. CASE read[q] = <<>>
    BY <2>1 DEF InternalInv, ReadsOneVersion
  <2>2. CASE read[q] # <<>>
    <3>1. /\ asked[q] # NotAsked
          /\ snapshot[q] \in since[q]..Len(history)
          /\ snapshot[q] > 0
          /\ RanOn(history[snapshot[q]], asked[q], read[q], reply[q])
      BY <2>2 DEF InternalInv, ReadsOneVersion
    <3>2. snapshot[q] \in 1..Len(history) /\ snapshot[q] \in since[q]..Len(history')
      BY <3>1, <1>1, <1>4
    <3>3. history'[snapshot[q]] = history[snapshot[q]]
      BY <3>2, <1>1
    <3> QED
      BY <3>1, <3>2, <3>3, <2>2
  <2> QED
    BY <2>1, <2>2
<1>6. ArrivedBefore'
  BY <1>1, <1>2 DEF InternalInv, ArrivedBefore
<1>7. SequencesOK'
  BY <1>1, <1>2 DEF InternalInv, SequencesOK
<1> QED
  BY <1>3, <1>5, <1>6, <1>7 DEF InternalInv

LEMMA ArriveStep ==
  ASSUME InternalInv, NEW q \in Queries, Arrive(q)
  PROVE  InternalInv'
<1>1. asked[q] = NotAsked /\ UNCHANGED <<history, snapshot, read, reply>>
  BY DEF Arrive
<1>2. PICK a \in Asks : asked' = [asked EXCEPT ![q] = a]
  BY DEF Arrive
<1>3. since' = [since EXCEPT ![q] = Len(history)]
  BY DEF Arrive
<1>4. Len(history) \in Nat \ {0} /\ since \in [Queries -> Nat]
  BY DEF InternalInv, InternalTypeOK
<1>5. InternalTypeOK'
  BY <1>1, <1>2, <1>3, <1>4 DEF InternalInv, InternalTypeOK
<1>6. read[q] = <<>>
  BY <1>1 DEF InternalInv, ReadsOneVersion
<1>7. \A p \in Queries \ {q} : asked'[p] = asked[p] /\ since'[p] = since[p]
  BY <1>2, <1>3 DEF InternalInv, InternalTypeOK
<1>8. ReadsOneVersion'
  BY <1>1, <1>6, <1>7 DEF InternalInv, ReadsOneVersion
<1>9. ArrivedBefore'
  <2>1. since'[q] \in 1..Len(history)
    BY <1>3, <1>4
  <2> QED
    BY <2>1, <1>1, <1>7 DEF InternalInv, ArrivedBefore
<1>10. SequencesOK'
  BY <1>1 DEF InternalInv, SequencesOK
<1> QED
  BY <1>5, <1>8, <1>9, <1>10 DEF InternalInv

\* How a query can stand.
LEMMA EndsIs ==
  ASSUME NEW a, NEW s
  PROVE  Ends(a, s) \in {"none", "ok", "not found", "error"}
  BY DEF Ends

\* A further statement on the same tables.
LEMMA RunsOn ==
  ASSUME NEW d, NEW a, NEW s, IsSequence(s),
         s # <<>> => RanOn(d, a, s, "none"),
         NEW e, e = Statement(d, a, s)
  PROVE  RanOn(d, a, Append(s, e), Ends(a, Append(s, e)))
<1> DEFINE r == Append(s, e)
<1>1. /\ Len(s) \in Nat /\ Len(r) = Len(s) + 1 /\ r[Len(s) + 1] = e
      /\ \A i \in 1..Len(s) : r[i] = s[i]
      /\ \A n \in 0..Len(s) : SubSeq(r, 1, n) = SubSeq(s, 1, n)
      /\ SubSeq(s, 1, Len(s)) = s
  BY AppendKeeps
<1>2. s = <<>> <=> Len(s) = 0
  BY <1>1, PrefixOf
<1> HIDE DEF r
<1>3. ASSUME NEW i \in 1..Len(r)
      PROVE  /\ r[i] = Statement(d, a, SubSeq(r, 1, i - 1))
             /\ i > 1 => Ends(a, SubSeq(r, 1, i - 1)) = "none"
  <2>1. i - 1 \in 0..Len(s) /\ SubSeq(r, 1, i - 1) = SubSeq(s, 1, i - 1)
    BY <1>1
  <2>2. CASE i = Len(s) + 1
    <3>1. SubSeq(r, 1, i - 1) = s
      BY <2>1, <2>2, <1>1
    <3>2. i > 1 => s # <<>>
      BY <2>2, <1>1, <1>2
    <3>3. i > 1 => Ends(a, s) = "none"
      BY <3>2 DEF RanOn
    <3> QED
      BY <3>1, <3>3, <2>2, <1>1
  <2>3. CASE i # Len(s) + 1
    <3>1. i \in 1..Len(s) /\ s # <<>>
      BY <2>3, <1>1, <1>2
    <3> QED
      BY <3>1, <2>1, <1>1 DEF RanOn
  <2> QED
    BY <2>2, <2>3
<1> QED
  BY <1>3 DEF RanOn, r

LEMMA ExecuteStep ==
  ASSUME InternalInv, NEW q \in Queries, Execute(q)
  PROVE  InternalInv'
<1> DEFINE n == SnapshotOf(q)
           a == asked[q]
           e == Statement(history[n], a, read[q])
           results == Append(read[q], e)
<1>1. /\ a # NotAsked /\ reply[q] = "none"
      /\ snapshot' = [snapshot EXCEPT ![q] = n]
      /\ read' = [read EXCEPT ![q] = results]
      /\ reply' = [reply EXCEPT ![q] = Ends(a, results)]
      /\ UNCHANGED <<history, asked, since>>
  BY DEF Execute
<1>2. IsSequence(read[q]) /\ Len(history) \in Nat \ {0} /\ since[q] \in 1..Len(history)
      /\ snapshot[q] \in Nat /\ since[q] \in Nat
  BY <1>1 DEF InternalInv, InternalTypeOK, SequencesOK, ArrivedBefore
<1>3. n \in since[q]..Len(history) /\ n \in Nat /\ n > 0
  BY <1>2 DEF SnapshotOf, InternalInv, ReadsOneVersion
<1>4. read[q] # <<>> => RanOn(history[n], a, read[q], "none")
  BY <1>1 DEF SnapshotOf, InternalInv, ReadsOneVersion
<1> HIDE DEF n, a
<1>5. RanOn(history[n], a, results, Ends(a, results))
  BY <1>2, <1>4, RunsOn
<1>6. IsSequence(results) /\ Len(results) = Len(read[q]) + 1 /\ Len(read[q]) \in Nat
  BY <1>2, AppendKeeps
<1> HIDE DEF e, results
<1>7. results # <<>>
  <2>1. Len(<<>>) = 0
    OBVIOUS
  <2> QED
    BY <1>6, <2>1
<1>8. Ends(a, results) \in {"none", "ok", "not found", "error"}
  BY EndsIs
<1>9. /\ snapshot'[q] = n /\ read'[q] = results /\ reply'[q] = Ends(a, results)
      /\ \A p \in Queries \ {q} :
            snapshot'[p] = snapshot[p] /\ read'[p] = read[p] /\ reply'[p] = reply[p]
  BY <1>1 DEF InternalInv, InternalTypeOK
<1>10. InternalTypeOK'
  <2>1. snapshot' \in [Queries -> Nat]
        /\ reply' \in [Queries -> {"none", "ok", "not found", "error"}]
    BY <1>1, <1>3, <1>8 DEF InternalInv, InternalTypeOK
  <2>2. DOMAIN read' = Queries
    BY <1>1 DEF InternalInv, InternalTypeOK
  <2> QED
    BY <2>1, <2>2, <1>1 DEF InternalInv, InternalTypeOK
<1>11. ReadsOneVersion'
  <2> SUFFICES ASSUME NEW p \in Queries
               PROVE  IF read'[p] = <<>>
                      THEN reply'[p] = "none"
                      ELSE /\ asked[p] # NotAsked
                           /\ snapshot'[p] \in since[p]..Len(history)
                           /\ snapshot'[p] > 0
                           /\ RanOn(history[snapshot'[p]], asked[p], read'[p], reply'[p])
    BY <1>1 DEF ReadsOneVersion
  <2>1. CASE p = q
    BY <2>1, <1>1, <1>3, <1>5, <1>7, <1>9 DEF a
  <2>2. CASE p # q
    BY <2>2, <1>9 DEF InternalInv, ReadsOneVersion
  <2> QED
    BY <2>1, <2>2
<1>12. ArrivedBefore'
  BY <1>1 DEF InternalInv, ArrivedBefore
<1>13. SequencesOK'
  <2>1. \A p \in Queries : IsSequence(read'[p])
    BY <1>6, <1>9 DEF InternalInv, SequencesOK
  <2> QED
    BY <2>1, <1>1 DEF InternalInv, SequencesOK
<1> QED
  BY <1>10, <1>11, <1>12, <1>13 DEF InternalInv

LEMMA InternalInvNext ==
  ASSUME InternalInv, [InternalNext]_internalVars
  PROVE  InternalInv'
<1>1. CASE UNCHANGED internalVars
  BY <1>1 DEF internalVars, InternalInv, InternalTypeOK, SequencesOK, ReadsOneVersion,
              ArrivedBefore
<1>2. CASE \E d : Commits(d)
  BY <1>2, CommitsStep
<1>3. CASE \E q \in Queries : Arrive(q) \/ Execute(q)
  BY <1>3, ArriveStep, ExecuteStep
<1>4. (PlaceOrder \/ ShipParcel \/ AddNode \/ AskRefund \/ AddAddress \/ AddProduct \/ MarkDeleted)
        => \E d : Commits(d)
  BY DEF PlaceOrder, ShipParcel, AddNode, AskRefund, AddAddress, AddProduct, MarkDeleted
<1> QED
  BY <1>1, <1>2, <1>3, <1>4 DEF InternalNext

\* The invariant holds at all times.
THEOREM InternalInvariant == InternalSpec => []InternalInv
<1>1. InternalInit => InternalInv
  BY InternalInvInit
<1>2. InternalInv /\ [InternalNext]_internalVars => InternalInv'
  BY InternalInvNext
<1> QED
  BY <1>1, <1>2, PTL DEF InternalSpec

\* Whatever the shop writes between the statements of a query, its answer is
\* about one moment since it arrived, and what the tables would show at that
\* moment if they held no rows of other users (internal.py, repository.py).
THEOREM QueriesSeeOneMoment == InternalSpec => []AnswersOwnRowsOfOneMoment
<1>1. InternalInv => AnswersOwnRowsOfOneMoment
  <2> SUFFICES ASSUME InternalInv, NEW q \in Queries, reply[q] # "none"
               PROVE  \E i \in since[q]..Len(history) :
                        Shows(Own(history[i], asked[q].user), asked[q], reply[q], read[q])
    BY DEF AnswersOwnRowsOfOneMoment
  <2> DEFINE d == history[snapshot[q]]
             a == asked[q]
  <2>1. /\ a # NotAsked
        /\ snapshot[q] \in since[q]..Len(history)
        /\ RanOn(d, a, read[q], reply[q])
    BY DEF InternalInv, ReadsOneVersion
  <2>2. a \in Asks /\ IsSequence(read[q])
    BY <2>1 DEF InternalInv, InternalTypeOK, SequencesOK
  <2> HIDE DEF d, a
  <2>3. \A i \in 1..Len(read[q]) :
          Statement(Own(d, a.user), a, SubSeq(read[q], 1, i - 1))
            = Statement(d, a, SubSeq(read[q], 1, i - 1))
    BY <2>1, <2>2, SeesOwnOnly
  <2>4. Shows(Own(d, a.user), a, reply[q], read[q])
    BY <2>1, <2>3 DEF Shows, RanOn
  <2> QED
    BY <2>1, <2>4 DEF d, a
<1> QED
  BY <1>1, InternalInvariant, PTL

HIDE InternalAssumption

-----------------------------------------------------------------------------
(***************************************************************************)
(* Pipeline, for any requests that are served at the same time: each is    *)
(* logged and answered with its own trace id.                              *)
(***************************************************************************)

Phases == {"new", "running", "raised", "answered", "done"}

PipelineTypeOK ==
    /\ phase \in [Requests -> Phases]
    /\ traceId = [r \in Requests |-> traceId[r]]
    /\ context = [r \in Requests |-> context[r]]

\* The context of a request holds its id while it is inside the middleware.
ContextOK(r) ==
    context[r] = IF phase[r] \in {"running", "answered"} THEN traceId[r] ELSE NoTrace

OwnTrace(x) == x.trace \in IF x.at = "inside" THEN {traceId[x.of]} ELSE {traceId[x.of], NoTrace}

\* A request has its id before it writes a line or answers, and keeps it.
RecordOK(x) == x.of \in Requests /\ phase[x.of] # "new" /\ OwnTrace(x)

PipelineInv ==
    /\ PipelineTypeOK
    /\ \A r \in Requests : ContextOK(r)
    /\ \A x \in logs \union answers : RecordOK(x)

USE PipelineAssumption

LEMMA PipelineInvInit == PipelineInit => PipelineInv
BY DEF PipelineInit, PipelineInv, PipelineTypeOK, Phases, ContextOK

\* The lines and answers a step adds are of r, which has the id t.
NewRecordsOwn(r, t) ==
    \A x \in (logs' \union answers') \ (logs \union answers) :
        x.of = r /\ x.trace \in IF x.at = "inside" THEN {t} ELSE {t, NoTrace}

\* What is left to show of a step of r that assigns `p', `t' and `c' to its
\* phase, id and context: its own context, and its new lines and answers.
LEMMA OneRequestMoves ==
  ASSUME PipelineInv, NEW r \in Requests, NEW p \in Phases \ {"new"}, NEW t, NEW c,
         phase' = [phase EXCEPT ![r] = p],
         traceId' = [traceId EXCEPT ![r] = t],
         context' = [context EXCEPT ![r] = c],
         t = traceId[r] \/ phase[r] = "new",
         c = IF p \in {"running", "answered"} THEN t ELSE NoTrace,
         NewRecordsOwn(r, t)
  PROVE  PipelineInv'
<1>1. PipelineTypeOK'
  BY DEF PipelineInv, PipelineTypeOK
<1>2. /\ phase'[r] = p /\ traceId'[r] = t /\ context'[r] = c
      /\ \A q \in Requests \ {r} : /\ phase'[q] = phase[q] /\ traceId'[q] = traceId[q]
                                   /\ context'[q] = context[q]
  BY DEF PipelineInv, PipelineTypeOK
<1>3. ASSUME NEW q \in Requests PROVE ContextOK(q)'
  BY <1>2 DEF PipelineInv, ContextOK
<1>4. ASSUME NEW x \in logs' \union answers' PROVE RecordOK(x)'
  <2>1. CASE x \in logs \union answers
    <3>1. x.of \in Requests /\ phase[x.of] # "new" /\ OwnTrace(x)
      BY <2>1 DEF PipelineInv, RecordOK
    <3>2. phase'[x.of] # "new" /\ traceId'[x.of] = traceId[x.of]
      BY <1>2, <3>1
    <3> QED
      BY <3>1, <3>2 DEF RecordOK, OwnTrace
  <2>2. CASE x \notin logs \union answers
    BY <1>2, <2>2 DEF RecordOK, OwnTrace, NewRecordsOwn
  <2> QED
    BY <2>1, <2>2
<1> QED
  BY <1>1, <1>3, <1>4 DEF PipelineInv

\* The same for a step that leaves the id of r as it is.
LEMMA KeepsId ==
  ASSUME PipelineInv, NEW r \in Requests, UNCHANGED traceId
  PROVE  traceId' = [traceId EXCEPT ![r] = traceId[r]]
BY DEF PipelineInv, PipelineTypeOK

\* Inside the middleware the context is the id of the request.
LEMMA ContextInside ==
  ASSUME PipelineInv, NEW r \in Requests, phase[r] \in {"running", "answered"}
  PROVE  /\ context[r] = traceId[r]
         /\ UNCHANGED context => context' = [context EXCEPT ![r] = traceId[r]]
BY DEF PipelineInv, PipelineTypeOK, ContextOK

LEMMA EnterStep ==
  ASSUME PipelineInv, NEW r \in Requests, Enter(r)
  PROVE  PipelineInv'
<1>1. PICK id : traceId' = [traceId EXCEPT ![r] = id] /\ context' = [context EXCEPT ![r] = id]
  BY DEF Enter, Slot
<1>2. phase[r] = "new" /\ phase' = [phase EXCEPT ![r] = "running"]
  BY DEF Enter
<1>3. "running" \in Phases \ {"new"}
  BY DEF Phases
<1>4. NewRecordsOwn(r, id)
  BY DEF Enter, NewRecordsOwn
<1> QED
  BY <1>1, <1>2, <1>3, <1>4, OneRequestMoves

LEMMA RouteLogsStep ==
  ASSUME PipelineInv, NEW r \in Requests, RouteLogs(r)
  PROVE  PipelineInv'
<1>1. /\ phase[r] = "running"
      /\ logs' = logs \union {[of |-> r, at |-> "inside", trace |-> context[r]]}
      /\ UNCHANGED <<phase, traceId, context, answers>>
  BY DEF RouteLogs, Log, Slot
<1>2. context[r] = traceId[r] /\ context' = [context EXCEPT ![r] = traceId[r]]
  BY <1>1, ContextInside
<1>3. traceId' = [traceId EXCEPT ![r] = traceId[r]]
  BY <1>1, KeepsId
<1>4. "running" \in Phases \ {"new"} /\ phase' = [phase EXCEPT ![r] = "running"]
  BY <1>1 DEF Phases, PipelineInv, PipelineTypeOK
<1>5. NewRecordsOwn(r, traceId[r])
  BY <1>1, <1>2 DEF NewRecordsOwn
<1> QED
  BY <1>1, <1>2, <1>3, <1>4, <1>5, OneRequestMoves

LEMMA AnswerStep ==
  ASSUME PipelineInv, NEW r \in Requests, Answer(r)
  PROVE  PipelineInv'
<1>1. /\ phase[r] = "running"
      /\ phase' = [phase EXCEPT ![r] = "answered"]
      /\ UNCHANGED <<traceId, context>>
  BY DEF Answer
<1>2. answers' = answers \union {[of |-> r, at |-> "inside", trace |-> traceId[r]]}
  BY DEF Answer, Reply
<1>3. context[r] = traceId[r] /\ context' = [context EXCEPT ![r] = traceId[r]]
  BY <1>1, ContextInside
<1>4. traceId' = [traceId EXCEPT ![r] = traceId[r]]
  BY <1>1, KeepsId
<1>5. logs' \subseteq logs \union {[of |-> r, at |-> "inside", trace |-> traceId[r]]}
  BY <1>3 DEF Answer, Log, Slot
<1>6. "answered" \in Phases \ {"new"}
  BY DEF Phases
<1>7. NewRecordsOwn(r, traceId[r])
  BY <1>2, <1>5 DEF NewRecordsOwn
<1> QED
  BY <1>1, <1>3, <1>4, <1>6, <1>7, OneRequestMoves

LEMMA ExitStep ==
  ASSUME PipelineInv, NEW r \in Requests, Exit(r)
  PROVE  PipelineInv'
<1>1. /\ context' = [context EXCEPT ![r] = NoTrace]
      /\ phase' = [phase EXCEPT ![r] = "done"]
      /\ UNCHANGED <<traceId, answers, logs>>
  BY DEF Exit, ResetTrace, Slot
<1>2. traceId' = [traceId EXCEPT ![r] = traceId[r]]
  BY <1>1, KeepsId
<1>3. "done" \in Phases \ {"new"} /\ NewRecordsOwn(r, traceId[r])
  BY <1>1 DEF Phases, NewRecordsOwn
<1> QED
  BY <1>1, <1>2, <1>3, OneRequestMoves

LEMMA RaiseStep ==
  ASSUME PipelineInv, NEW r \in Requests, Raise(r)
  PROVE  PipelineInv'
<1>1. /\ context' = [context EXCEPT ![r] = NoTrace]
      /\ phase' = [phase EXCEPT ![r] = "raised"]
      /\ UNCHANGED <<traceId, answers, logs>>
  BY DEF Raise, ResetTrace, Slot
<1>2. traceId' = [traceId EXCEPT ![r] = traceId[r]]
  BY <1>1, KeepsId
<1>3. "raised" \in Phases \ {"new"} /\ NewRecordsOwn(r, traceId[r])
  BY <1>1 DEF Phases, NewRecordsOwn
<1> QED
  BY <1>1, <1>2, <1>3, OneRequestMoves

LEMMA HandleUnhandledStep ==
  ASSUME PipelineInv, NEW r \in Requests, HandleUnhandled(r)
  PROVE  PipelineInv'
<1>1. /\ phase[r] = "raised"
      /\ phase' = [phase EXCEPT ![r] = "done"]
      /\ logs' = logs \union {[of |-> r, at |-> "outside", trace |-> context[r]]}
      /\ answers' = answers \union {[of |-> r, at |-> "outside", trace |-> NoTrace]}
      /\ UNCHANGED <<traceId, context>>
  BY DEF HandleUnhandled, Log, Slot, Reply
<1>2. context[r] = NoTrace /\ context' = [context EXCEPT ![r] = NoTrace]
  BY <1>1 DEF PipelineInv, PipelineTypeOK, ContextOK
<1>3. traceId' = [traceId EXCEPT ![r] = traceId[r]]
  BY <1>1, KeepsId
<1>4. "done" \in Phases \ {"new"}
  BY DEF Phases
<1>5. NewRecordsOwn(r, traceId[r])
  BY <1>1, <1>2 DEF NewRecordsOwn
<1> QED
  BY <1>1, <1>2, <1>3, <1>4, <1>5, OneRequestMoves

LEMMA PipelineInvStep == PipelineInv /\ [PipelineNext]_pipelineVars => PipelineInv'
<1> SUFFICES ASSUME PipelineInv, [PipelineNext]_pipelineVars PROVE PipelineInv'
  OBVIOUS
<1>1. CASE UNCHANGED pipelineVars
  BY <1>1 DEF pipelineVars, PipelineInv, PipelineTypeOK, ContextOK, RecordOK, OwnTrace
<1>2. ASSUME NEW r \in Requests,
             \/ Enter(r) \/ RouteLogs(r) \/ Answer(r) \/ Exit(r) \/ Raise(r) \/ HandleUnhandled(r)
      PROVE  PipelineInv'
  BY <1>2, EnterStep, RouteLogsStep, AnswerStep, ExitStep, RaiseStep, HandleUnhandledStep
<1> QED
  BY <1>1, <1>2 DEF PipelineNext

\* For any number of interleaved requests, which may share a trace id, a log
\* line and an answer carry the id of their own request; those made outside the
\* middleware carry it or none, never another's (trace.py, logging.py).
THEOREM TracesAreOwn == PipelineSpec => []TraceIsOwn
<1>1. PipelineInv => TraceIsOwn
  BY DEF PipelineInv, RecordOK, OwnTrace, TraceIsOwn
<1>2. PipelineSpec => []PipelineInv
  BY PipelineInvInit, PipelineInvStep, PTL DEF PipelineSpec
<1> QED
  BY <1>1, <1>2, PTL

HIDE PipelineAssumption

-----------------------------------------------------------------------------
(***************************************************************************)
(* Startup, for any hosts and any deployments: a process that is up passed *)
(* its assertions, and what fails later is what they do not look at.       *)
(***************************************************************************)

\* A process that has been up passed its assertions, and what failed in it was
\* needed and not there.
StartupInv ==
    /\ deployed \in [Hosts -> Deployments]
    /\ stage \in [Hosts -> {"down", "refused", "up"}]
    /\ late \in [Hosts -> SUBSET {"database", "token", "signing", "internal", "ttl"}]
    /\ \A h \in Hosts : stage[h] = "up" \/ late[h] # {} => Assertions(deployed[h])
    /\ \A h \in Hosts : \A what \in late[h] \ {"ttl"} :
          what \in Needs(deployed[h]) /\ ~Present(deployed[h], what)

USE StartupAssumption

LEMMA StartupInvInit == StartupInit => StartupInv
  BY DEF StartupInit, StartupInv

LEMMA BootStep ==
  ASSUME StartupInv, NEW h \in Hosts, Boot(h)
  PROVE  StartupInv'
<1>1. /\ UNCHANGED <<deployed, late>>
      /\ stage' = [stage EXCEPT ![h] = IF Assertions(deployed[h]) THEN "up" ELSE "refused"]
  BY DEF Boot
<1> QED
  BY <1>1 DEF StartupInv

LEMMA RequestFindsStep ==
  ASSUME StartupInv, NEW h \in Hosts, RequestFinds(h)
  PROVE  StartupInv'
<1>1. PICK what \in Needs(deployed[h]) :
        late' = [late EXCEPT ![h] = IF Present(deployed[h], what) THEN @ ELSE @ \union {what}]
  BY DEF RequestFinds
<1>2. stage[h] = "up" /\ UNCHANGED <<deployed, stage>>
  BY DEF RequestFinds
<1>3. what \in {"database", "token", "signing", "internal"}
  <2>1. deployed[h].service \in {"backend", "mock", "ai"}
    BY DEF StartupInv
  <2> QED
    BY <1>1, <2>1 DEF Needs
<1>4. late' \in [Hosts -> SUBSET {"database", "token", "signing", "internal", "ttl"}]
  BY <1>1, <1>3 DEF StartupInv
<1>5. \A g \in Hosts : late'[g] = late[g] \/ (g = h /\ late'[g] = late[g] \union {what}
                                              /\ ~Present(deployed[h], what))
  BY <1>1 DEF StartupInv
<1> QED
  BY <1>1, <1>2, <1>3, <1>4, <1>5 DEF StartupInv

LEMMA RefreshReadsTtlStep ==
  ASSUME StartupInv, NEW h \in Hosts, RefreshReadsTtl(h)
  PROVE  StartupInv'
  BY DEF StartupInv, RefreshReadsTtl

LEMMA StartupInvStep == StartupInv /\ [StartupNext]_startupVars => StartupInv'
<1> SUFFICES ASSUME StartupInv, [StartupNext]_startupVars PROVE StartupInv'
  OBVIOUS
<1>1. CASE UNCHANGED startupVars
  BY <1>1 DEF startupVars, StartupInv
<1>2. ASSUME NEW h \in Hosts, Boot(h) \/ RequestFinds(h) \/ RefreshReadsTtl(h)
      PROVE  StartupInv'
  BY <1>2, BootStep, RequestFindsStep, RefreshReadsTtlStep
<1> QED
  BY <1>1, <1>2 DEF StartupNext

\* The invariant the theorems below are read off.
THEOREM StartupInvariant == StartupSpec => []StartupInv
<1> QED
  BY StartupInvInit, StartupInvStep, PTL DEF StartupSpec

\* Whatever is deployed where, a backend of production and one of development
\* or test never run on the same database if it bears the name of the
\* production database: S1-a refuses the marked URLs in the one, S1-d those
\* with the name and without "test" in the other (config.py:70-184).
THEOREM ProductionIsApart == StartupSpec => []DatabasesApart
<1>1. StartupInv => DatabasesApart
  <2> SUFFICES ASSUME StartupInv, NEW p \in Hosts, NEW q \in Hosts,
                      stage[p] = "up", deployed[p].env.name = "production",
                      deployed[p].service = "backend",
                      stage[q] = "up", deployed[q].env.name \in {"test", "development"},
                      deployed[q].service = "backend",
                      deployed[p].url = deployed[q].url,
                      deployed[p].url.shop
               PROVE  FALSE
    BY DEF DatabasesApart, Meant
  <2>1. deployed[p] \in Deployments /\ deployed[q] \in Deployments
    BY DEF StartupInv
  <2>2. Assertions(deployed[p]) /\ Assertions(deployed[q])
    BY DEF StartupInv
  <2>3. deployed[p].url # NoDatabase /\ ~deployed[p].url.marked
    BY <2>2 DEF Assertions, DbNotTestEnvInProd, GetEnv
  <2>4. deployed[q].url.test
    BY <2>2, <2>3 DEF Assertions, DbIsIsolated, GetEnv
  <2> QED
    BY <2>1, <2>3, <2>4
<1> QED
  BY <1>1, StartupInvariant, PTL

\* In production only what no assertion looks at can fail in a request: the
\* database and the keys of tokens of a backend that is up are there
\* (main.py:11, config.py:187-220).
THEOREM OnlyUncheckedIsLate == StartupSpec => []LateOnlyUnchecked
<1>1. StartupInv => LateOnlyUnchecked
  <2> SUFFICES ASSUME StartupInv, NEW h \in Hosts, deployed[h].env.name = "production",
                      NEW what \in late[h]
               PROVE  /\ what \in {"internal", "ttl", "database"}
                      /\ what = "database" => deployed[h].service = "mock"
    BY DEF LateOnlyUnchecked, Meant
  <2>1. /\ deployed[h] \in Deployments
        /\ what \in {"database", "token", "signing", "internal", "ttl"}
        /\ Assertions(deployed[h])
        /\ what # "ttl" => what \in Needs(deployed[h]) /\ ~Present(deployed[h], what)
    BY DEF StartupInv
  <2>2. CASE what \in {"ttl", "internal"}
    BY <2>2
  <2>3. CASE what \in {"database", "token", "signing"}
    <3>1. deployed[h].service \in {"backend", "mock"}
      BY <2>1, <2>3 DEF Needs
    <3>2. CASE deployed[h].service = "mock"
      BY <2>1, <2>3, <3>2 DEF Needs
    <3>3. CASE deployed[h].service = "backend"
      <4>1. deployed[h].url # NoDatabase /\ deployed[h].jwt = JwtFiles
        BY <2>1, <3>3 DEF Assertions, DbNotTestEnvInProd, JwtKeysConfigured, GetEnv
      <4>2. HasEngine(deployed[h]) /\ CanVerify(deployed[h]) /\ CanSign(deployed[h])
        BY <3>3, <4>1 DEF HasEngine, OwnUrl, CanVerify, CanSign, JwtFiles
      <4> QED
        BY <2>1, <2>3, <4>2 DEF Present
    <3> QED
      BY <3>1, <3>2, <3>3
  <2> QED
    BY <2>1, <2>2, <2>3
<1> QED
  BY <1>1, StartupInvariant, PTL

=============================================================================
