--------------------------- MODULE Channel_proofs ---------------------------
(***************************************************************************)
(* Proofs about the logistics channel, the sms channel, the reconciliation *)
(* reports of the payment channel and the key files of the channels, a     *)
(* section for each.                                                       *)
(***************************************************************************)
EXTENDS Logistics, Sms, Recon, Keys, FiniteSetTheorems,
        WellFoundedInduction, TLAPS

-----------------------------------------------------------------------------
(***************************************************************************)
(* Logistics, for any waybills and clients and any table of nodes: the     *)
(* status of a waybill and the rows of its trace are one function of a     *)
(* moment, and that moment only advances.                                  *)
(***************************************************************************)

Stages == 1..Len(TraceNodes)

WaybillRows == [created : Nat \ {0}, status : Nat]

TraceRows == [time : Nat, node : Stages]

QueryingClients ==
    [at : {"querying"}, of : Waybills, adds : SUBSET TraceRows, saw : Nat]

LogisticsTypeOK ==
    /\ clock \in Nat \ {0}
    /\ waybill \in [Waybills -> {NoRow} \union WaybillRows]
    /\ nodes \in [Waybills -> SUBSET TraceRows]
    /\ client \in [Clients -> {Nobody} \union [at : {"creating"}, of : Waybills]
                              \union QueryingClients]

\* The row of a node of a waybill created at t, and the first one rounded up.
NodeAt(t, i) == [time |-> t + TraceNodes[i].offset, node |-> i]

RoundedUp(t) == [time |-> t + 1, node |-> 1]

\* The rows of a waybill created at t that has come to stage k.
TraceIs(t, rows, k) ==
    /\ \A i \in 2..k : NodeAt(t, i) \in rows
    /\ rows \subseteq {NodeAt(t, i) : i \in 1..k} \union {RoundedUp(t)}
    /\ \E r \in rows : r.node = 1
    /\ k > 1 => NodeAt(t, 1) \in rows

\* What a query adds that found the waybill at stage j and takes it to stage m.
AddsAre(t, rows, adds, j, m) ==
    /\ \A i \in (j + 1)..m : NodeAt(t, i) \in adds
    /\ \A r \in adds : \/ r = NodeAt(t, 1) /\ j = 1
                       \/ \E i \in (j + 1)..m : r = NodeAt(t, i)
    /\ NodeAt(t, 1) \in rows \union adds
    /\ \A i \in 2..j : NodeAt(t, i) \in rows

TraceOK ==
    \A w \in Waybills : Exists(w) =>
        \E k \in Stages : /\ waybill[w].status = TraceNodes[k].status
                          /\ TraceIs(waybill[w].created, nodes[w], k)

QueryOK ==
    \A c \in Clients : client[c].at = "querying" =>
        LET w == client[c].of
        IN  /\ Exists(w)
            /\ \E j, m \in Stages :
                /\ j <= m
                /\ client[c].saw = TraceNodes[j].status
                /\ AddsAre(waybill[w].created, nodes[w], client[c].adds, j, m)

CreatedBefore == \A w \in Waybills : waybill[w].created <= clock

LogisticsInv == LogisticsTypeOK /\ TraceOK /\ QueryOK /\ CreatedBefore

LEMMA LeastNatural ==
  ASSUME NEW S, S \subseteq Nat, S # {}
  PROVE  \E x \in S : \A y \in S : x <= y
<1> DEFINE R == OpToRel(<, Nat)
<1>1. IsWellFoundedOn(R, Nat)
  BY NatLessThanWellFounded
<1>2. \A y, x \in Nat : y < x => <<y, x>> \in R
  BY DEF OpToRel
<1> HIDE DEF R
<1>3. PICK x \in S : \A y \in S : ~(<<y, x>> \in R)
  BY <1>1, WFMin
<1>4. ASSUME NEW y \in S PROVE x <= y
  <2>1. x \in Nat /\ y \in Nat
    OBVIOUS
  <2>2. ~(y < x)
    BY <2>1, <1>2, <1>3
  <2> QED
    BY <2>1, <2>2
<1> QED
  BY <1>4

LEMMA GreatestNatural ==
  ASSUME NEW n \in Nat, NEW S, S \subseteq 0..n, S # {}
  PROVE  \E x \in S : \A y \in S : y <= x
<1> DEFINE T == {n - y : y \in S}
<1>0. \A y \in S : y \in Nat /\ n - y \in Nat
  OBVIOUS
<1>1. T \subseteq Nat /\ T # {}
  BY <1>0
<1> HIDE DEF T
<1>2. PICK z \in T : \A y \in T : z <= y
  BY <1>1, LeastNatural
<1>3. PICK x \in S : z = n - x
  BY DEF T
<1>4. ASSUME NEW y \in S PROVE y <= x
  <2>1. z <= n - y
    BY <1>2 DEF T
  <2>2. x \in Nat /\ y \in Nat
    OBVIOUS
  <2> QED
    BY <2>1, <2>2, <1>3
<1> QED
  BY <1>4

LEMMA TraceNodesAre ==
  /\ Len(TraceNodes) \in Nat /\ 1 \in Stages
  /\ \A i \in Stages : TraceNodes[i].offset \in Nat /\ TraceNodes[i].status \in Nat
  /\ TraceNodes[1].offset = 0
  /\ \A i, j \in Stages : i < j => /\ TraceNodes[i].offset + 1 < TraceNodes[j].offset
                                   /\ TraceNodes[i].status <= TraceNodes[j].status
<1> DEFINE S == [offset : Nat, status : Nat]
<1>1. TraceNodes \in Seq(S) /\ Len(TraceNodes) > 0
  BY LogisticsAssumption
<1> HIDE DEF S
<1>2. Len(TraceNodes) \in Nat /\ \A i \in Stages : TraceNodes[i] \in S
  BY <1>1 DEF Stages
<1>3. \A i \in Stages : TraceNodes[i].offset \in Nat /\ TraceNodes[i].status \in Nat
  BY <1>2 DEF S
<1> QED
  BY <1>1, <1>2, <1>3, LogisticsAssumption DEF Stages

\* A query that collides with nothing takes the waybill on from where it is.
LEMMA QueryGoesOn ==
  ASSUME NEW t \in Nat, NEW rows \in SUBSET TraceRows, NEW adds \in SUBSET TraceRows,
         NEW k \in Stages, NEW j \in Stages, NEW m \in Stages, j <= m,
         TraceIs(t, rows, k), AddsAre(t, rows, adds, j, m), adds # {},
         Times(adds) \intersect Times(rows) = {}
  PROVE  /\ k = j
         /\ TraceIs(t, rows \union adds, m)
         /\ Latest(adds) = m
<1>1. /\ Stages \subseteq Nat /\ \A i \in Stages : i >= 1 /\ 1..i \subseteq Stages
      /\ j \in Nat /\ k \in Nat /\ m \in Nat /\ j >= 1 /\ k >= 1 /\ m >= 1
  BY TraceNodesAre DEF Stages
<1>2. \A i \in Stages : NodeAt(t, i).node = i /\ NodeAt(t, i).time = t + TraceNodes[i].offset
  BY DEF NodeAt
<1>3. RoundedUp(t).node = 1
  BY DEF RoundedUp
<1>4. j <= k
  <2>1. CASE j = 1
    BY <2>1, <1>1
  <2>2. CASE j # 1
    <3>1. NodeAt(t, j) \in rows
      BY <2>2, <1>1 DEF AddsAre
    <3>2. NodeAt(t, j) \in {NodeAt(t, i) : i \in 1..k} \union {RoundedUp(t)}
      BY <3>1 DEF TraceIs
    <3>3. PICK i \in 1..k : NodeAt(t, j).node = i
      BY <3>2, <2>2, <1>1, <1>2, <1>3
    <3> QED
      BY <3>3, <1>1, <1>2
  <2> QED
    BY <2>1, <2>2
<1>5. k <= j
  <2> SUFFICES ASSUME k > j PROVE FALSE
    BY <1>1
  <2>1. NodeAt(t, 1) \in rows /\ \A i \in 2..k : NodeAt(t, i) \in rows
    BY <1>1 DEF TraceIs
  <2>2. PICK r \in adds : TRUE
    OBVIOUS
  <2>3. r \notin rows
    BY DEF Times
  <2>4. PICK i \in (j + 1)..m : r = NodeAt(t, i)
    BY <2>1, <2>2, <2>3 DEF AddsAre
  <2>5. j + 1 \in 2..k /\ j + 1 \in (j + 1)..m
    BY <2>4, <1>1
  <2>6. NodeAt(t, j + 1) \in rows /\ NodeAt(t, j + 1) \in adds
    BY <2>1, <2>5 DEF AddsAre
  <2> QED
    BY <2>6 DEF Times
<1>6. k = j
  BY <1>4, <1>5, <1>1
<1>7. \A r \in adds : r.node <= m
  BY <1>1, <1>2 DEF AddsAre
<1>8. \E r \in adds : r.node = m
  <2>1. CASE j < m
    <3>1. m \in (j + 1)..m
      BY <2>1, <1>1
    <3> QED
      BY <3>1, <1>2 DEF AddsAre
  <2>2. CASE j = m
    <3>1. (j + 1)..m = {}
      BY <2>2, <1>1
    <3>2. PICK r \in adds : r = NodeAt(t, 1) /\ j = 1
      BY <3>1 DEF AddsAre
    <3> QED
      BY <3>2, <2>2, <1>2, <1>1
  <2> QED
    BY <2>1, <2>2, <1>1
<1>9. Latest(adds) = m
  <2> DEFINE P(i) == i \in {r.node : r \in adds} /\ \A r \in adds : r.node <= i
  <2>1. P(m)
    BY <1>7, <1>8
  <2>2. \A i : P(i) => i = m
    <3> SUFFICES ASSUME NEW i, P(i) PROVE i = m
      OBVIOUS
    <3>1. m <= i /\ i <= m
      BY <1>7, <1>8
    <3>2. i \in Nat
      BY <1>1 DEF TraceRows
    <3> QED
      BY <3>1, <3>2, <1>1
  <2> QED
    BY <2>1, <2>2 DEF Latest
<1>10. TraceIs(t, rows \union adds, m)
  <2>1. \A i \in 2..m : NodeAt(t, i) \in rows \union adds
    <3> TAKE i \in 2..m
    <3>1. i \in 2..j \/ i \in (j + 1)..m
      BY <1>1
    <3> QED
      BY <3>1 DEF AddsAre
  <2>2. rows \union adds \subseteq {NodeAt(t, i) : i \in 1..m} \union {RoundedUp(t)}
    <3>1. 1..k \subseteq 1..m /\ 1 \in 1..m /\ (j + 1)..m \subseteq 1..m
      BY <1>1, <1>6
    <3>2. rows \subseteq {NodeAt(t, i) : i \in 1..m} \union {RoundedUp(t)}
      BY <3>1 DEF TraceIs
    <3>3. adds \subseteq {NodeAt(t, i) : i \in 1..m}
      BY <3>1 DEF AddsAre
    <3> QED
      BY <3>2, <3>3
  <2>3. NodeAt(t, 1) \in rows \union adds /\ \E r \in rows \union adds : r.node = 1
    BY DEF AddsAre, TraceIs
  <2> QED
    BY <2>1, <2>2, <2>3 DEF TraceIs
<1> QED
  BY <1>6, <1>9, <1>10

\* Rows that are added later take nothing from what a query adds.
LEMMA AddsStay ==
  ASSUME NEW t, NEW rows, NEW more, NEW adds, NEW j, NEW m, rows \subseteq more,
         AddsAre(t, rows, adds, j, m)
  PROVE  AddsAre(t, more, adds, j, m)
  BY DEF AddsAre

\* The nodes that are due follow those that are there.
LEMMA DueFollow ==
  ASSUME LogisticsInv, NEW w \in Waybills, Exists(w), NEW k \in Stages,
         TraceIs(waybill[w].created, nodes[w], k)
  PROVE  /\ DueNodes(w) \in SUBSET TraceRows
         /\ \E m \in Stages : k <= m /\ AddsAre(waybill[w].created, nodes[w], DueNodes(w), k, m)
<1> DEFINE t == waybill[w].created
           rows == nodes[w]
           due == {i \in Stages : k < i /\ t + TraceNodes[i].offset <= clock}
           L == Len(TraceNodes)
<1>1. /\ Stages \subseteq Nat /\ \A i \in Stages : i >= 1 /\ i <= L /\ 1..i \subseteq Stages
      /\ L \in Nat /\ L \in Stages /\ \A i \in 1..L : i \in Stages
  BY TraceNodesAre DEF Stages
<1>2. t \in Nat /\ clock \in Nat /\ t <= clock
  BY DEF LogisticsInv, LogisticsTypeOK, CreatedBefore, Exists, NoRow, WaybillRows
<1>3. DueNodes(w) = {r \in {NodeAt(t, i) : i \in Stages} : r.time <= clock /\ r.time \notin Times(rows)}
  BY DEF DueNodes, NodeAt, Stages
<1>4. \A i \in Stages : NodeAt(t, i) \in TraceRows /\ NodeAt(t, i).time = t + TraceNodes[i].offset
                        /\ NodeAt(t, i).node = i
  BY <1>2, TraceNodesAre DEF NodeAt, TraceRows
<1>5. DueNodes(w) \in SUBSET TraceRows
  BY <1>3, <1>4
<1> HIDE DEF t, rows
\* The last stage that is due.
<1>6. \E m \in Stages : k <= m /\ \A i \in Stages : i \in due <=> i \in (k + 1)..m
  <2>1. CASE due = {}
    <3>1. (k + 1)..k = {}
      BY <1>1
    <3> QED
      BY <2>1, <3>1, <1>1
  <2>2. CASE due # {}
    <3>1. due \subseteq 0..L
      <4>1. \A i \in Stages : i \in 0..L
        BY <1>1
      <4> QED
        BY <4>1
    <3> HIDE DEF due
    <3>2. PICK m \in due : \A i \in due : i <= m
      BY <2>2, <3>1, <1>1, GreatestNatural
    <3>3. m \in Stages /\ k < m /\ t + TraceNodes[m].offset <= clock
      BY DEF due
    <3>4. ASSUME NEW i \in Stages, k < i, i <= m PROVE i \in due
      <4>1. CASE i = m
        BY <4>1
      <4>2. CASE i # m
        <5>1. i < m
          BY <4>2, <3>3, <3>4, <1>1
        <5>2. TraceNodes[i].offset + 1 < TraceNodes[m].offset
          BY <5>1, <3>3, TraceNodesAre
        <5>3. TraceNodes[i].offset \in Nat /\ TraceNodes[m].offset \in Nat
          BY <3>3, TraceNodesAre
        <5>4. t + TraceNodes[i].offset <= clock
          BY <5>2, <5>3, <3>3, <1>2
        <5> QED
          BY <5>4, <3>4 DEF due
      <4> QED
        BY <4>1, <4>2
    <3>5. \A i \in Stages : i \in due <=> i \in (k + 1)..m
      <4> TAKE i \in Stages
      <4>1. i \in Nat /\ k \in Nat /\ m \in Nat
        BY <3>3, <1>1
      <4>2. i \in due => k < i /\ i <= m
        BY <3>2 DEF due
      <4> QED
        BY <4>1, <4>2, <3>4
    <3>6. k <= m
      BY <3>3, <1>1
    <3> QED
      BY <3>3, <3>5, <3>6
  <2> QED
    BY <2>1, <2>2
<1>7. PICK m \in Stages : k <= m /\ \A i \in Stages : i \in due <=> i \in (k + 1)..m
  BY <1>6
\* A later stage is not there yet.
<1>8. \A i \in Stages : k < i => t + TraceNodes[i].offset \notin Times(rows)
  <2> SUFFICES ASSUME NEW i \in Stages, k < i, NEW r \in rows, r.time = t + TraceNodes[i].offset
               PROVE  FALSE
    BY DEF Times
  <2>1. r \in {NodeAt(t, x) : x \in 1..k} \union {RoundedUp(t)}
    BY DEF TraceIs, t, rows
  <2>2. CASE r = RoundedUp(t)
    <3>1. r.time = t + 1 /\ 1 < i
      BY <2>2, <1>1 DEF RoundedUp
    <3> QED
      BY <3>1, <1>1, <1>2, TraceNodesAre
  <2>3. ASSUME NEW x \in 1..k, r = NodeAt(t, x) PROVE FALSE
    <3>1. x \in Stages /\ x < i /\ r.time = t + TraceNodes[x].offset
      BY <2>3, <1>1, <1>4
    <3>2. /\ TraceNodes[x].offset \in Nat /\ TraceNodes[i].offset \in Nat
          /\ TraceNodes[x].offset + 1 < TraceNodes[i].offset
      BY <3>1, TraceNodesAre
    <3>3. t + TraceNodes[x].offset = t + TraceNodes[i].offset /\ t \in Nat
      BY <3>1, <1>1, <1>2
    <3> QED
      BY <3>2, <3>3
  <2> QED
    BY <2>1, <2>2, <2>3
<1>9. \A i \in (k + 1)..m : NodeAt(t, i) \in DueNodes(w)
  <2> TAKE i \in (k + 1)..m
  <2>1. i \in Stages /\ k < i
    BY <1>1
  <2> QED
    BY <2>1, <1>3, <1>4, <1>7, <1>8
<1>10. \A r \in DueNodes(w) : \/ r = NodeAt(t, 1) /\ k = 1
                              \/ \E i \in (k + 1)..m : r = NodeAt(t, i)
  <2> TAKE r \in DueNodes(w)
  <2>1. PICK i \in Stages : r = NodeAt(t, i) /\ r.time <= clock /\ r.time \notin Times(rows)
    BY <1>3
  <2>2. NodeAt(t, i) \notin rows
    BY <2>1 DEF Times
  <2>3. CASE k < i
    BY <2>1, <2>3, <1>4, <1>7
  <2>4. CASE ~(k < i)
    <3>1. i = 1 /\ k = 1
      <4>1. i \in 2..k \/ i = 1
        BY <2>4, <1>1
      <4> QED
        BY <4>1, <2>2, <1>1 DEF TraceIs, t, rows
    <3> QED
      BY <3>1, <2>1
  <2> QED
    BY <2>3, <2>4
<1>11. NodeAt(t, 1) \in rows \union DueNodes(w)
  <2>1. CASE t \in Times(rows)
    <3>1. PICK r \in rows : r.time = t
      BY <2>1 DEF Times
    <3>2. r \in {NodeAt(t, x) : x \in 1..k} \union {RoundedUp(t)}
      BY DEF TraceIs, t, rows
    <3>3. r # RoundedUp(t)
      BY <3>1, <1>2 DEF RoundedUp
    <3>4. PICK x \in 1..k : r = NodeAt(t, x)
      BY <3>2, <3>3
    <3>5. x \in Stages /\ t + TraceNodes[x].offset = t
      BY <3>1, <3>4, <1>1, <1>4
    <3>6. x = 1
      <4>1. TraceNodes[x].offset = 0
        BY <3>5, <1>2, TraceNodesAre
      <4> QED
        BY <4>1, <3>5, <1>1, TraceNodesAre
    <3> QED
      BY <3>4, <3>6
  <2>2. CASE t \notin Times(rows)
    <3>1. 1 \in Stages /\ NodeAt(t, 1).time = t
      BY <1>2, <1>4, TraceNodesAre
    <3> QED
      BY <2>2, <3>1, <1>2, <1>3
  <2> QED
    BY <2>1, <2>2
<1>12. \A i \in 2..k : NodeAt(t, i) \in rows
  BY DEF TraceIs, t, rows
<1>13. AddsAre(t, rows, DueNodes(w), k, m)
  BY <1>9, <1>10, <1>11, <1>12 DEF AddsAre
<1> QED
  BY <1>5, <1>7, <1>13 DEF t, rows

LEMMA LogisticsInvInit == LogisticsInit => LogisticsInv
<1> SUFFICES ASSUME LogisticsInit PROVE LogisticsInv
  OBVIOUS
<1>1. LogisticsTypeOK
  BY DEF LogisticsInit, LogisticsTypeOK
<1>2. TraceOK /\ QueryOK /\ CreatedBefore
  BY DEF LogisticsInit, TraceOK, QueryOK, CreatedBefore, Exists, NoRow, Nobody
<1> QED
  BY <1>1, <1>2 DEF LogisticsInv

\* The record of a client tells what it is at.
LEMMA ClientKinds ==
  ASSUME LogisticsInv, NEW c \in Clients
  PROVE  /\ client[c].at = "querying" => client[c] \in QueryingClients
         /\ client[c].at = "creating" => client[c].of \in Waybills
  BY DEF LogisticsInv, LogisticsTypeOK, QueryingClients, Nobody

\* The row of a waybill that exists.
LEMMA WaybillIs ==
  ASSUME LogisticsInv, NEW w \in Waybills, Exists(w)
  PROVE  waybill[w] \in WaybillRows /\ nodes[w] \in SUBSET TraceRows
  BY DEF LogisticsInv, LogisticsTypeOK, Exists

\* A step that changes only what the client c is at, and not to a query.
LEMMA ClientMoves ==
  ASSUME LogisticsInv, NEW c \in Clients, UNCHANGED <<clock, waybill, nodes>>,
         client' \in [Clients -> {Nobody} \union [at : {"creating"}, of : Waybills]
                                 \union QueryingClients],
         \A d \in Clients \ {c} : client'[d] = client[d],
         client'[c].at # "querying"
  PROVE  LogisticsInv'
<1>1. LogisticsTypeOK' /\ TraceOK' /\ CreatedBefore'
  BY DEF LogisticsInv, LogisticsTypeOK, TraceOK, CreatedBefore, Exists
<1>2. QueryOK'
  BY DEF LogisticsInv, QueryOK, Exists
<1> QED
  BY <1>1, <1>2 DEF LogisticsInv

LEMMA CreateBeginsStep ==
  ASSUME LogisticsInv, NEW c \in Clients, NEW w \in Waybills, CreateBegins(c, w)
  PROVE  LogisticsInv'
<1>1. client' = [client EXCEPT ![c] = [at |-> "creating", of |-> w]]
  BY DEF CreateBegins
<1>2. client' \in [Clients -> {Nobody} \union [at : {"creating"}, of : Waybills]
                              \union QueryingClients]
  BY <1>1 DEF LogisticsInv, LogisticsTypeOK
<1>3. client'[c].at # "querying" /\ \A d \in Clients \ {c} : client'[d] = client[d]
  BY <1>1 DEF LogisticsInv, LogisticsTypeOK
<1> QED
  BY <1>2, <1>3, ClientMoves DEF CreateBegins

LEMMA AbandonStep ==
  ASSUME LogisticsInv, NEW c \in Clients, Abandon(c)
  PROVE  LogisticsInv'
<1>1. client' = [client EXCEPT ![c] = Nobody]
  BY DEF Abandon
<1>2. client' \in [Clients -> {Nobody} \union [at : {"creating"}, of : Waybills]
                              \union QueryingClients]
  BY <1>1 DEF LogisticsInv, LogisticsTypeOK
<1>3. client'[c].at # "querying" /\ \A d \in Clients \ {c} : client'[d] = client[d]
  BY <1>1 DEF LogisticsInv, LogisticsTypeOK, Nobody
<1> QED
  BY <1>2, <1>3, ClientMoves DEF Abandon

\* A waybill moves on: the queries under way keep what they know of it.
LEMMA WaybillMoves ==
  ASSUME LogisticsInv, NEW c \in Clients, NEW w \in Waybills,
         clock' = clock,
         client' = [client EXCEPT ![c] = Nobody],
         NEW row \in WaybillRows, waybill' = [waybill EXCEPT ![w] = row],
         NEW rows \in SUBSET TraceRows, nodes' = [nodes EXCEPT ![w] = rows],
         row.created <= clock,
         Exists(w) => row.created = waybill[w].created /\ nodes[w] \subseteq rows,
         NEW k \in Stages, row.status = TraceNodes[k].status, TraceIs(row.created, rows, k)
  PROVE  LogisticsInv'
<1>1. LogisticsTypeOK'
  BY DEF LogisticsInv, LogisticsTypeOK
<1>2. /\ waybill'[w] = row /\ nodes'[w] = rows
      /\ \A v \in Waybills \ {w} : waybill'[v] = waybill[v] /\ nodes'[v] = nodes[v]
  BY DEF LogisticsInv, LogisticsTypeOK
<1>3. client'[c] = Nobody /\ \A d \in Clients \ {c} : client'[d] = client[d]
  BY DEF LogisticsInv, LogisticsTypeOK
<1>4. row # NoRow
  BY DEF WaybillRows, NoRow
<1>5. CreatedBefore'
  BY <1>2 DEF LogisticsInv, CreatedBefore
<1>6. TraceOK'
  BY <1>2 DEF LogisticsInv, TraceOK, Exists
<1>7. QueryOK'
  <2> SUFFICES ASSUME NEW d \in Clients, client'[d].at = "querying"
               PROVE  LET v == client'[d].of
                      IN  /\ waybill'[v] # NoRow
                          /\ \E j, m \in Stages :
                              /\ j <= m
                              /\ client'[d].saw = TraceNodes[j].status
                              /\ AddsAre(waybill'[v].created, nodes'[v], client'[d].adds, j, m)
    BY DEF QueryOK, Exists
  <2> DEFINE v == client[d].of
  <2>1. client'[d] = client[d] /\ client[d].at = "querying"
    BY <1>3 DEF Nobody
  <2>2. v \in Waybills
    BY <2>1, ClientKinds DEF QueryingClients
  <2>3. PICK j, m \in Stages :
          /\ j <= m
          /\ client[d].saw = TraceNodes[j].status
          /\ AddsAre(waybill[v].created, nodes[v], client[d].adds, j, m)
    BY <2>1 DEF LogisticsInv, QueryOK
  <2>4. Exists(v)
    BY <2>1 DEF LogisticsInv, QueryOK
  <2>5. waybill'[v] # NoRow /\ waybill'[v].created = waybill[v].created
        /\ nodes[v] \subseteq nodes'[v]
    BY <2>2, <2>4, <1>2, <1>4 DEF Exists
  <2>6. AddsAre(waybill'[v].created, nodes'[v], client[d].adds, j, m)
    BY <2>3, <2>5, AddsStay
  <2> QED
    BY <2>1, <2>3, <2>5, <2>6
<1> QED
  BY <1>1, <1>5, <1>6, <1>7 DEF LogisticsInv

\* A commit that is refused leaves the client idle and the tables as they were.
LEMMA Refused ==
  ASSUME LogisticsInv, NEW c \in Clients, client' = [client EXCEPT ![c] = Nobody],
         UNCHANGED <<clock, waybill, nodes>>
  PROVE  LogisticsInv'
<1>1. client' \in [Clients -> {Nobody} \union [at : {"creating"}, of : Waybills]
                              \union QueryingClients]
  BY DEF LogisticsInv, LogisticsTypeOK
<1>2. client'[c].at # "querying" /\ \A d \in Clients \ {c} : client'[d] = client[d]
  BY DEF LogisticsInv, LogisticsTypeOK, Nobody
<1> QED
  BY <1>1, <1>2, ClientMoves

LEMMA CreateCommitsStep ==
  ASSUME LogisticsInv, NEW c \in Clients, CreateCommits(c)
  PROVE  LogisticsInv'
<1> DEFINE w == client[c].of
           row == [created |-> clock, status |-> TraceNodes[1].status]
<1>1. client' = [client EXCEPT ![c] = Nobody] /\ clock' = clock /\ clock \in Nat \ {0}
  BY DEF CreateCommits, LogisticsInv, LogisticsTypeOK
<1>2. w \in Waybills
  BY ClientKinds DEF CreateCommits
<1>3. CASE Exists(w)
  <2>1. UNCHANGED <<waybill, nodes>>
    BY <1>3 DEF CreateCommits
  <2> QED
    BY <2>1, <1>1, Refused
<1>4. CASE ~Exists(w)
  <2>1. waybill' = [waybill EXCEPT ![w] = row]
    BY <1>4 DEF CreateCommits
  <2>2. PICK late \in {0, 1} :
          nodes' = [nodes EXCEPT ![w] = {[time |-> clock + late, node |-> 1]}]
    BY <1>4 DEF CreateCommits
  <2> DEFINE rows == {[time |-> clock + late, node |-> 1]}
  <2>3. row \in WaybillRows /\ rows \in SUBSET TraceRows
    BY <1>1, TraceNodesAre DEF WaybillRows, TraceRows
  <2>4. TraceIs(clock, rows, 1)
    <3>1. NodeAt(clock, 1) = [time |-> clock, node |-> 1]
      BY <1>1, TraceNodesAre DEF NodeAt
    <3>2. rows \subseteq {NodeAt(clock, i) : i \in 1..1} \union {RoundedUp(clock)}
      BY <3>1, <1>1 DEF RoundedUp
    <3> QED
      BY <3>2 DEF TraceIs
  <2>5. row.created = clock /\ row.status = TraceNodes[1].status
    OBVIOUS
  <2>6. nodes' = [nodes EXCEPT ![w] = rows] /\ clock <= clock
    BY <2>2, <1>1
  <2> HIDE DEF w, row, rows
  <2> QED
    BY <1>1, <1>2, <1>4, <2>1, <2>3, <2>4, <2>5, <2>6, TraceNodesAre, WaybillMoves
<1> QED
  BY <1>3, <1>4

LEMMA QueryBeginsStep ==
  ASSUME LogisticsInv, NEW c \in Clients, NEW w \in Waybills, QueryBegins(c, w)
  PROVE  LogisticsInv'
<1> DEFINE new == [at |-> "querying", of |-> w, adds |-> DueNodes(w), saw |-> waybill[w].status]
<1>1. Exists(w) /\ client' = [client EXCEPT ![c] = new] /\ UNCHANGED <<clock, waybill, nodes>>
  BY DEF QueryBegins
<1>2. PICK k \in Stages : /\ waybill[w].status = TraceNodes[k].status
                          /\ TraceIs(waybill[w].created, nodes[w], k)
  BY <1>1 DEF LogisticsInv, TraceOK
<1>3. PICK m \in Stages : k <= m /\ AddsAre(waybill[w].created, nodes[w], DueNodes(w), k, m)
  BY <1>1, <1>2, DueFollow
<1>4. new \in QueryingClients
  <2>1. DueNodes(w) \in SUBSET TraceRows
    BY <1>1, <1>2, DueFollow
  <2>2. waybill[w].status \in Nat
    BY <1>1, WaybillIs DEF WaybillRows
  <2> QED
    BY <2>1, <2>2 DEF QueryingClients
<1>5. new.at = "querying" /\ new.of = w /\ new.adds = DueNodes(w) /\ new.saw = waybill[w].status
  OBVIOUS
<1> HIDE DEF new
<1>6. LogisticsTypeOK'
  BY <1>1, <1>4 DEF LogisticsInv, LogisticsTypeOK
<1>7. client'[c] = new /\ \A d \in Clients \ {c} : client'[d] = client[d]
  BY <1>1 DEF LogisticsInv, LogisticsTypeOK
<1>8. TraceOK' /\ CreatedBefore'
  BY <1>1 DEF LogisticsInv, TraceOK, CreatedBefore, Exists
<1>9. QueryOK'
  <2> SUFFICES ASSUME NEW d \in Clients, client'[d].at = "querying"
               PROVE  LET v == client'[d].of
                      IN  /\ waybill[v] # NoRow
                          /\ \E j, l \in Stages :
                              /\ j <= l
                              /\ client'[d].saw = TraceNodes[j].status
                              /\ AddsAre(waybill[v].created, nodes[v], client'[d].adds, j, l)
    BY <1>1 DEF QueryOK, Exists
  <2>1. CASE d = c
    BY <2>1, <1>1, <1>2, <1>3, <1>5, <1>7 DEF Exists
  <2>2. CASE d # c
    BY <2>2, <1>7 DEF LogisticsInv, QueryOK, Exists
  <2> QED
    BY <2>1, <2>2
<1> QED
  BY <1>6, <1>8, <1>9 DEF LogisticsInv

\* What a query that commits leaves behind.
LEMMA QueryWrites ==
  ASSUME LogisticsInv, NEW c \in Clients, QueryCommits(c), ~Collides(client[c].of, client[c].adds)
  PROVE  LET w == client[c].of
             row == [waybill[w] EXCEPT !.status = NextStatus(w, client[c].adds, client[c].saw)]
             rows == nodes[w] \union client[c].adds
         IN  /\ w \in Waybills /\ Exists(w)
             /\ waybill' = [waybill EXCEPT ![w] = row]
             /\ nodes' = [nodes EXCEPT ![w] = rows]
             /\ row \in WaybillRows /\ rows \in SUBSET TraceRows
             /\ row.created = waybill[w].created
             /\ row.status >= waybill[w].status
             /\ \E k \in Stages : /\ row.status = TraceNodes[k].status
                                  /\ TraceIs(row.created, rows, k)
<1> DEFINE w == client[c].of
           adds == client[c].adds
           saw == client[c].saw
           status == NextStatus(w, adds, saw)
           row == [waybill[w] EXCEPT !.status = status]
           rows == nodes[w] \union adds
           t == waybill[w].created
<1>1. client[c] \in QueryingClients /\ client[c].at = "querying"
  BY ClientKinds DEF QueryCommits
<1>2. w \in Waybills /\ adds \in SUBSET TraceRows /\ Exists(w)
  BY <1>1 DEF QueryingClients, LogisticsInv, QueryOK
<1>3. waybill[w] \in WaybillRows /\ nodes[w] \in SUBSET TraceRows
  BY <1>2, WaybillIs
<1>4. PICK j, m \in Stages : /\ j <= m
                             /\ saw = TraceNodes[j].status
                             /\ AddsAre(t, nodes[w], adds, j, m)
  BY <1>1 DEF LogisticsInv, QueryOK
<1>5. PICK k \in Stages : /\ waybill[w].status = TraceNodes[k].status
                          /\ TraceIs(t, nodes[w], k)
  BY <1>2 DEF LogisticsInv, TraceOK
<1>6. /\ waybill' = [waybill EXCEPT ![w].status = status]
      /\ nodes' = [nodes EXCEPT ![w] = @ \union adds]
  BY DEF QueryCommits
<1>7. waybill' = [waybill EXCEPT ![w] = row] /\ nodes' = [nodes EXCEPT ![w] = rows]
  BY <1>6
<1>8. t \in Nat /\ waybill[w].status \in Nat
  BY <1>3 DEF WaybillRows
<1> HIDE DEF w, adds, saw, status, row, rows, t
<1>9. \E l \in Stages : /\ status = TraceNodes[l].status /\ status >= waybill[w].status
                        /\ TraceIs(t, rows, l)
  <2>1. CASE adds = {}
    <3>1. status = waybill[w].status /\ rows = nodes[w]
      BY <2>1 DEF NextStatus, status, rows
    <3> QED
      BY <3>1, <1>5, <1>8
  <2>2. CASE adds # {}
    <3>1. Times(adds) \intersect Times(nodes[w]) = {}
      BY DEF Collides, w, adds
    <3>2. /\ k = j
          /\ TraceIs(t, nodes[w] \union adds, m)
          /\ Latest(adds) = m
      <4>1. /\ TraceIs(t, nodes[w], k) /\ AddsAre(t, nodes[w], adds, j, m) /\ j <= m
            /\ t \in Nat /\ nodes[w] \in SUBSET TraceRows /\ adds \in SUBSET TraceRows
        BY <1>2, <1>3, <1>4, <1>5, <1>8
      <4> QED
        BY <2>2, <3>1, <4>1, QueryGoesOn
    <3>3. status = IF TraceNodes[m].status = saw THEN waybill[w].status ELSE TraceNodes[m].status
      BY <2>2, <3>2 DEF NextStatus, status
    <3>4. status = TraceNodes[m].status
      BY <3>2, <3>3, <1>4, <1>5
    <3>5. TraceNodes[m].status >= TraceNodes[j].status
      <4>1. j \in Nat /\ m \in Nat
        BY DEF Stages
      <4>2. CASE j = m
        BY <4>2, TraceNodesAre
      <4>3. CASE j < m
        BY <4>3, TraceNodesAre
      <4> QED
        BY <4>1, <4>2, <4>3, <1>4
    <3> QED
      BY <3>2, <3>4, <3>5, <1>5 DEF rows
  <2> QED
    BY <2>1, <2>2
<1>10. row \in WaybillRows /\ row.created = t /\ row.status = status
  <2>1. status \in Nat
    BY <1>9, TraceNodesAre
  <2> QED
    BY <2>1, <1>3 DEF WaybillRows, row, t
<1>11. rows \in SUBSET TraceRows
  BY <1>2, <1>3 DEF rows
<1> QED
  BY <1>2, <1>7, <1>9, <1>10, <1>11 DEF w, adds, saw, status, row, rows, t

LEMMA QueryCommitsStep ==
  ASSUME LogisticsInv, NEW c \in Clients, QueryCommits(c)
  PROVE  LogisticsInv'
<1>1. client' = [client EXCEPT ![c] = Nobody] /\ clock' = clock
  BY DEF QueryCommits
<1>2. CASE Collides(client[c].of, client[c].adds)
  <2>1. UNCHANGED <<waybill, nodes>>
    BY <1>2 DEF QueryCommits
  <2> QED
    BY <2>1, <1>1, Refused
<1>3. CASE ~Collides(client[c].of, client[c].adds)
  <2> DEFINE w == client[c].of
             row == [waybill[w] EXCEPT !.status = NextStatus(w, client[c].adds, client[c].saw)]
             rows == nodes[w] \union client[c].adds
  <2>1. /\ w \in Waybills /\ Exists(w)
        /\ waybill' = [waybill EXCEPT ![w] = row]
        /\ nodes' = [nodes EXCEPT ![w] = rows]
        /\ row \in WaybillRows /\ rows \in SUBSET TraceRows
        /\ row.created = waybill[w].created
        /\ \E k \in Stages : /\ row.status = TraceNodes[k].status
                             /\ TraceIs(row.created, rows, k)
    BY <1>3, QueryWrites
  <2>2. nodes[w] \subseteq rows
    OBVIOUS
  <2> HIDE DEF w, row, rows
  <2>3. row.created <= clock
    BY <2>1 DEF LogisticsInv, CreatedBefore
  <2>4. PICK k \in Stages : row.status = TraceNodes[k].status /\ TraceIs(row.created, rows, k)
    BY <2>1
  <2> QED
    BY <1>1, <2>1, <2>2, <2>3, <2>4, WaybillMoves
<1> QED
  BY <1>2, <1>3

LEMMA LogisticsInvNext ==
  ASSUME LogisticsInv, [LogisticsNext]_logisticsVars
  PROVE  LogisticsInv'
<1>1. CASE UNCHANGED logisticsVars
  BY <1>1 DEF logisticsVars, LogisticsInv, LogisticsTypeOK, TraceOK, QueryOK, CreatedBefore, Exists
<1>2. CASE LogisticsTick
  <2>1. clock' = clock + 1 /\ clock \in Nat \ {0} /\ UNCHANGED <<waybill, nodes, client>>
    BY <1>2 DEF LogisticsTick, LogisticsInv, LogisticsTypeOK
  <2>2. LogisticsTypeOK' /\ TraceOK' /\ QueryOK'
    BY <2>1 DEF LogisticsInv, LogisticsTypeOK, TraceOK, QueryOK, Exists
  <2>3. CreatedBefore'
    <3>1. \A w \in Waybills : waybill[w].created \in Nat
      BY DEF LogisticsInv, LogisticsTypeOK, NoRow, WaybillRows
    <3> QED
      BY <2>1, <3>1 DEF LogisticsInv, CreatedBefore
  <2> QED
    BY <2>2, <2>3 DEF LogisticsInv
<1>3. CASE LogisticsNext /\ ~LogisticsTick
  BY <1>3, CreateBeginsStep, QueryBeginsStep, CreateCommitsStep, QueryCommitsStep, AbandonStep
  DEF LogisticsNext
<1> QED
  BY <1>1, <1>2, <1>3

\* The invariant holds at all times.
THEOREM LogisticsInvariant == LogisticsSpec => []LogisticsInv
<1>1. LogisticsInit => LogisticsInv
  BY LogisticsInvInit
<1>2. LogisticsInv /\ [LogisticsNext]_logisticsVars => LogisticsInv'
  BY LogisticsInvNext
<1> QED
  BY <1>1, <1>2, PTL DEF LogisticsSpec

\* The rows of stage k end with the node of that stage, and are all there.
LEMMA LastNode ==
  ASSUME NEW t \in Nat, NEW rows \in SUBSET TraceRows, NEW k \in Stages, TraceIs(t, rows, k)
  PROVE  /\ \E last \in rows : last.node = k /\ \A r \in rows : r.time <= last.time
         /\ {r.node : r \in rows} = 1..k
         /\ Cardinality(rows) <= k + 1
<1> DEFINE line == {NodeAt(t, i) : i \in 1..k}
<1>1. /\ Stages \subseteq Nat /\ k \in Nat /\ k >= 1
      /\ \A i \in 1..k : i \in Stages /\ (i < k \/ i = k) /\ i \in Nat /\ (i = 1 \/ i \in 2..k)
  BY TraceNodesAre DEF Stages
<1>2. \A i \in Stages : NodeAt(t, i).node = i /\ NodeAt(t, i).time = t + TraceNodes[i].offset
  BY DEF NodeAt
<1>3. RoundedUp(t).node = 1 /\ RoundedUp(t).time = t + 1
  BY DEF RoundedUp
<1>4. rows \subseteq line \union {RoundedUp(t)}
  BY DEF TraceIs
<1>5. \A i \in Stages : TraceNodes[i].offset \in Nat
  BY TraceNodesAre
<1>6. \E last \in rows : last.node = k /\ \A r \in rows : r.time <= last.time
  <2>1. CASE k = 1
    <3>1. line = {NodeAt(t, 1)}
      BY <2>1
    <3>2. NodeAt(t, 1).time = t /\ NodeAt(t, 1).node = 1
      BY <1>2, TraceNodesAre
    <3>3. CASE RoundedUp(t) \in rows
      BY <2>1, <3>1, <3>2, <3>3, <1>3, <1>4
    <3>4. CASE RoundedUp(t) \notin rows
      <4>1. rows = {NodeAt(t, 1)}
        BY <3>1, <3>4, <1>4 DEF TraceIs
      <4> QED
        BY <4>1, <3>2, <2>1
    <3> QED
      BY <3>3, <3>4
  <2>2. CASE k > 1
    <3>1. NodeAt(t, k) \in rows
      BY <2>2, <1>1 DEF TraceIs
    <3>2. ASSUME NEW r \in rows PROVE r.time <= t + TraceNodes[k].offset
      <4>1. CASE r = RoundedUp(t)
        <5>1. 1 \in Stages /\ TraceNodes[1].offset = 0 /\ TraceNodes[1].offset + 1 < TraceNodes[k].offset
          BY <2>2, TraceNodesAre
        <5> QED
          BY <5>1, <4>1, <1>3, <1>5
      <4>2. ASSUME NEW i \in 1..k, r = NodeAt(t, i) PROVE r.time <= t + TraceNodes[k].offset
        <5>1. i \in Stages /\ r.time = t + TraceNodes[i].offset
          BY <4>2, <1>1, <1>2
        <5>2. CASE i = k
          BY <5>1, <5>2, <1>5
        <5>3. CASE i < k
          <6> DEFINE a == TraceNodes[i].offset
                     b == TraceNodes[k].offset
          <6>1. a \in Nat /\ b \in Nat /\ a + 1 < b /\ r.time = t + a
            BY <5>1, <5>3, TraceNodesAre
          <6> HIDE DEF a, b
          <6>2. r.time <= t + b
            BY <6>1
          <6> QED
            BY <6>2 DEF b
        <5> QED
          BY <5>2, <5>3, <1>1
      <4> QED
        BY <4>1, <4>2, <1>4
    <3> QED
      BY <3>1, <3>2, <1>2
  <2> QED
    BY <2>1, <2>2, <1>1
<1>7. {r.node : r \in rows} = 1..k
  <2>1. ASSUME NEW r \in rows PROVE r.node \in 1..k
    <3>1. 1 \in 1..k
      BY <1>1
    <3> QED
      BY <3>1, <1>1, <1>2, <1>3, <1>4
  <2>2. ASSUME NEW i \in 1..k PROVE \E r \in rows : r.node = i
    <3>1. CASE i = 1
      BY <3>1 DEF TraceIs
    <3>2. CASE i \in 2..k
      BY <3>2, <1>1, <1>2 DEF TraceIs
    <3> QED
      BY <3>1, <3>2, <1>1
  <2> QED
    BY <2>1, <2>2
<1>8. Cardinality(rows) <= k + 1
  <2>1. IsFiniteSet(line) /\ Cardinality(line) <= k
    <3>1. IsFiniteSet(1..k) /\ Cardinality(1..k) = k
      BY <1>1, FS_Interval
    <3> DEFINE f == [i \in 1..k |-> NodeAt(t, i)]
    <3>2. f \in Surjection(1..k, line)
      BY DEF Surjection
    <3> QED
      BY <3>1, <3>2, FS_Surjection
  <2> HIDE DEF line
  <2>2. /\ IsFiniteSet(line \union {RoundedUp(t)})
        /\ Cardinality(line \union {RoundedUp(t)})
             = IF RoundedUp(t) \in line THEN Cardinality(line) ELSE Cardinality(line) + 1
    BY <2>1, FS_AddElement
  <2>3. Cardinality(line) \in Nat
    BY <2>1, FS_CardinalityType
  <2>4. IsFiniteSet(rows) /\ Cardinality(rows) <= Cardinality(line \union {RoundedUp(t)})
    BY <2>2, <1>4, FS_Subset
  <2>5. Cardinality(rows) \in Nat
    BY <2>4, FS_CardinalityType
  <2> QED
    BY <2>1, <2>2, <2>3, <2>4, <2>5, <1>1
<1> QED
  BY <1>6, <1>7, <1>8

\* For any table of nodes and however queries overlap or stay away, the status of
\* a waybill is that of its latest node, and no node before that is left out
\* (_advance_traces(), routes_logistics.py).
THEOREM StatusFollowsTrace == LogisticsSpec => []StatusTellsTrace
<1>1. LogisticsInv => StatusTellsTrace
  <2> SUFFICES ASSUME LogisticsInv, NEW w \in Waybills, Exists(w)
               PROVE  \E last \in nodes[w] :
                        /\ waybill[w].status = TraceNodes[last.node].status
                        /\ \A r \in nodes[w] : r.time <= last.time
                        /\ {r.node : r \in nodes[w]} = 1..last.node
                        /\ Cardinality(nodes[w]) <= last.node + 1
    BY DEF StatusTellsTrace
  <2>1. PICK k \in Stages : /\ waybill[w].status = TraceNodes[k].status
                            /\ TraceIs(waybill[w].created, nodes[w], k)
    BY DEF LogisticsInv, TraceOK
  <2>2. waybill[w].created \in Nat /\ nodes[w] \in SUBSET TraceRows
    BY WaybillIs DEF WaybillRows
  <2> QED
    BY <2>1, <2>2, LastNode
<1> QED
  BY <1>1, LogisticsInvariant, PTL

\* No step takes the status of a waybill back: a query that would has a node in
\* common with the one that overtook it, and the unique key refuses it.
THEOREM StatusOnlyAdvances == LogisticsSpec => StatusNeverGoesBack
<1> DEFINE Advances == \A w \in Waybills : Exists(w) => waybill'[w].status >= waybill[w].status
<1>1. ASSUME LogisticsInv, [LogisticsNext]_logisticsVars PROVE [Advances]_logisticsVars
  <2>1. \A w \in Waybills : Exists(w) => waybill[w].status \in Nat
    BY <1>1, WaybillIs DEF WaybillRows
  <2>2. CASE waybill' = waybill
    BY <2>1, <2>2
  <2>3. ASSUME NEW c \in Clients, CreateCommits(c), ~Exists(client[c].of) PROVE Advances
    <3>1. \A w \in Waybills : Exists(w) => waybill'[w] = waybill[w]
      BY <1>1, <2>3 DEF CreateCommits, LogisticsInv, LogisticsTypeOK
    <3> QED
      BY <3>1, <2>1
  <2>4. ASSUME NEW c \in Clients, QueryCommits(c), ~Collides(client[c].of, client[c].adds)
        PROVE  Advances
    <3> DEFINE w == client[c].of
               row == [waybill[w] EXCEPT !.status = NextStatus(w, client[c].adds, client[c].saw)]
    <3>1. /\ w \in Waybills /\ waybill' = [waybill EXCEPT ![w] = row]
          /\ row.status >= waybill[w].status
      BY <1>1, <2>4, QueryWrites
    <3> HIDE DEF w, row
    <3>2. waybill'[w] = row /\ \A v \in Waybills \ {w} : waybill'[v] = waybill[v]
      BY <1>1, <3>1 DEF LogisticsInv, LogisticsTypeOK
    <3> QED
      BY <2>1, <3>1, <3>2
  <2>5. \/ waybill' = waybill
        \/ \E c \in Clients : CreateCommits(c) /\ ~Exists(client[c].of)
        \/ \E c \in Clients : QueryCommits(c) /\ ~Collides(client[c].of, client[c].adds)
    BY <1>1 DEF LogisticsNext, logisticsVars, CreateBegins, QueryBegins, CreateCommits,
                QueryCommits, Abandon, LogisticsTick
  <2> QED
    BY <2>2, <2>3, <2>4, <2>5
<1> QED
  BY <1>1, LogisticsInvariant, PTL DEF LogisticsSpec, StatusNeverGoesBack

HIDE LogisticsAssumption

-----------------------------------------------------------------------------
(***************************************************************************)
(* Sms, for any mobiles and sends and any window: a message is sent within *)
(* the window of another only by a request that overlapped the other one.  *)
(***************************************************************************)

CheckedSends == [at : {"checked"}, of : Mobiles, began : Nat]

InsertedSends == [at : {"inserted"}, of : Mobiles, began : Nat, time : Nat]

StoredSends == [at : {"stored"}, of : Mobiles, time : Nat, began : Nat, ended : Nat]

SmsTypeOK ==
    /\ smsNow \in Nat
    /\ send \in [Sends -> [at : {"new", "refused"}] \union CheckedSends
                          \union InsertedSends \union StoredSends]

Looked == {r \in Sends : send[r].at \in {"checked", "inserted", "stored"}}

\* Nothing happens after the present.
PastOnly ==
    \A r \in Looked :
        /\ send[r].began <= smsNow
        /\ send[r].at \in {"inserted", "stored"} => send[r].began <= send[r].time
        /\ send[r].at = "stored" => send[r].ended <= smsNow

\* What was committed before a request looked was too old to stop it.
LookedFirst ==
    \A b \in Looked : \A a \in Stored(send[b].of) :
        send[a].ended < send[b].began =>
            CreateTime(send[a].time) + RateLimit * Steps < send[b].began

SmsInv == SmsTypeOK /\ PastOnly /\ LookedFirst

USE SmsAssumption

\* create_time is less than a second before the time it is taken from.
LEMMA CreateTimeIsClose ==
  ASSUME NEW t \in Nat
  PROVE  CreateTime(t) \in Nat /\ CreateTime(t) <= t /\ t < CreateTime(t) + Steps
<1> DEFINE q == t \div Steps
           m == t % Steps
<1>1. q \in Nat /\ m \in 0..(Steps - 1) /\ t = Steps * q + m
  OBVIOUS
<1> HIDE DEF q, m
<1>2. Steps * q \in Nat /\ Steps * q = q * Steps
  BY <1>1
<1>3. CreateTime(t) = q * Steps
  BY DEF CreateTime, q
<1> QED
  BY <1>1, <1>2, <1>3

\* The kind of a request tells its fields.
LEMMA SendKinds ==
  ASSUME SmsTypeOK, NEW r \in Sends
  PROVE  /\ send[r].at = "checked" => send[r] \in CheckedSends
         /\ send[r].at = "inserted" => send[r] \in InsertedSends
         /\ send[r].at = "stored" => send[r] \in StoredSends
         /\ send[r].at \in {"new", "refused", "checked", "inserted", "stored"}
  BY DEF SmsTypeOK, CheckedSends, InsertedSends, StoredSends

LEMMA SmsInvInit == SmsInit => SmsInv
  BY DEF SmsInit, SmsInv, SmsTypeOK, NotSent, PastOnly, LookedFirst, Looked

LEMMA CheckStep ==
  ASSUME SmsInv, NEW r \in Sends, NEW m \in Mobiles, Check(r, m)
  PROVE  SmsInv'
<1> DEFINE new == [at |-> "checked", of |-> m, began |-> smsNow]
<1>1. send' = [send EXCEPT ![r] = new] /\ smsNow' = smsNow /\ ~Recent(m) /\ send[r] = NotSent
  BY DEF Check
<1>2. new \in CheckedSends
  BY DEF SmsInv, SmsTypeOK, CheckedSends
<1>3. SmsTypeOK'
  BY <1>1, <1>2 DEF SmsInv, SmsTypeOK
<1>4. send'[r] = new /\ \A q \in Sends \ {r} : send'[q] = send[q]
  BY <1>1 DEF SmsInv, SmsTypeOK
<1>5. PastOnly'
  BY <1>1, <1>4 DEF SmsInv, SmsTypeOK, PastOnly, Looked
<1>6. ASSUME NEW b \in Looked', NEW a \in Stored(send[b].of)', send'[a].ended < send'[b].began
      PROVE  CreateTime(send'[a].time) + RateLimit * Steps < send'[b].began
  <2>1. a # r /\ a \in Sends /\ b \in Sends /\ send'[a] = send[a]
    BY <1>4 DEF Stored, Looked
  <2>2. CASE b = r
    <3>1. a \in Stored(m) /\ send'[b].began = smsNow
      BY <1>4, <2>1, <2>2 DEF Stored
    <3>2. ~(CreateTime(send[a].time) + RateLimit * Steps >= smsNow)
      BY <3>1, <1>1 DEF Recent
    <3>3. send[a].time \in Nat /\ smsNow \in Nat
      BY <3>1, SendKinds DEF Stored, StoredSends, SmsInv, SmsTypeOK
    <3>4. CreateTime(send[a].time) \in Nat /\ RateLimit * Steps \in Nat
      BY <3>3, CreateTimeIsClose
    <3> QED
      BY <3>1, <3>2, <3>3, <3>4, <2>1
  <2>3. CASE b # r
    <3>1. b \in Looked /\ a \in Stored(send[b].of) /\ send'[b] = send[b]
      BY <1>4, <2>1, <2>3 DEF Stored, Looked
    <3> QED
      BY <3>1, <2>1, <1>6 DEF SmsInv, LookedFirst
  <2> QED
    BY <2>2, <2>3
<1>7. LookedFirst'
  BY <1>6, <1>1 DEF LookedFirst, CreateTime
<1> QED
  BY <1>3, <1>5, <1>7 DEF SmsInv

\* A request that is given up takes nothing from the others.
LEMMA GivenUp ==
  ASSUME SmsInv, NEW r \in Sends, send' = [send EXCEPT ![r] = [at |-> "refused"]],
         smsNow' = smsNow
  PROVE  SmsInv'
<1>1. SmsTypeOK'
  BY DEF SmsInv, SmsTypeOK
<1>2. send'[r] = [at |-> "refused"] /\ \A q \in Sends \ {r} : send'[q] = send[q]
  BY DEF SmsInv, SmsTypeOK
<1>3. Looked' = Looked \ {r} /\ \A q \in Looked' : send'[q] = send[q]
  BY <1>2 DEF Looked
<1>4. \A m : Stored(m)' = Stored(m) \ {r}
  BY <1>2 DEF Stored
<1>5. \A m : \A q \in Stored(m)' : send'[q] = send[q]
  BY <1>4, <1>2 DEF Stored
<1>6. PastOnly'
  BY <1>3 DEF SmsInv, PastOnly
<1>7. LookedFirst'
  BY <1>3, <1>4, <1>5 DEF SmsInv, LookedFirst, CreateTime
<1> QED
  BY <1>1, <1>6, <1>7 DEF SmsInv

LEMMA RefuseStep ==
  ASSUME SmsInv, NEW r \in Sends, Refuse(r)
  PROVE  SmsInv'
  BY GivenUp DEF Refuse

LEMMA InsertStep ==
  ASSUME SmsInv, NEW r \in Sends, Insert(r)
  PROVE  SmsInv'
<1> DEFINE new == [at |-> "inserted", of |-> send[r].of, began |-> send[r].began,
                   time |-> smsNow]
<1>1. send' = [send EXCEPT ![r] = new] /\ smsNow' = smsNow /\ send[r].at = "checked"
  BY DEF Insert
<1>2. send[r] \in CheckedSends
  BY <1>1, SendKinds DEF SmsInv
<1>3. new \in InsertedSends
  BY <1>2 DEF SmsInv, SmsTypeOK, CheckedSends, InsertedSends
<1>4. SmsTypeOK'
  BY <1>1, <1>3 DEF SmsInv, SmsTypeOK
<1>5. send'[r] = new /\ \A q \in Sends \ {r} : send'[q] = send[q]
  BY <1>1 DEF SmsInv, SmsTypeOK
<1>6. Looked' = Looked
  BY <1>1, <1>5 DEF Looked
<1>7. \A q \in Looked : send'[q].of = send[q].of /\ send'[q].began = send[q].began
  BY <1>5 DEF Looked
<1>8. \A m : Stored(m)' = Stored(m)
  BY <1>1, <1>5 DEF Stored
<1>9. \A m : \A q \in Stored(m) : send'[q] = send[q]
  BY <1>1, <1>5 DEF Stored
<1>10. PastOnly'
  BY <1>1, <1>5, <1>6 DEF SmsInv, PastOnly, Looked
<1>11. LookedFirst'
  BY <1>6, <1>7, <1>8, <1>9 DEF SmsInv, LookedFirst, CreateTime
<1> QED
  BY <1>4, <1>10, <1>11 DEF SmsInv

LEMMA StoreSmsStep ==
  ASSUME SmsInv, NEW r \in Sends, StoreSms(r)
  PROVE  SmsInv'
<1> DEFINE new == [at |-> "stored", of |-> send[r].of, time |-> send[r].time,
                   began |-> send[r].began, ended |-> smsNow]
<1>0. smsNow' = smsNow /\ send[r].at = "inserted" /\ smsNow \in Nat
  BY DEF StoreSms, SmsInv, SmsTypeOK
<1>1. CASE send' = [send EXCEPT ![r] = new]
  <2>1. send[r] \in InsertedSends
    BY <1>0, SendKinds DEF SmsInv
  <2>2. new \in StoredSends
    BY <2>1, <1>0 DEF InsertedSends, StoredSends
  <2>3. SmsTypeOK'
    BY <1>0, <1>1, <2>2 DEF SmsInv, SmsTypeOK
  <2>4. send'[r] = new /\ \A q \in Sends \ {r} : send'[q] = send[q]
    BY <1>1 DEF SmsInv, SmsTypeOK
  <2>5. Looked' = Looked
    BY <1>0, <2>4 DEF Looked
  <2>6. \A q \in Looked : send'[q].of = send[q].of /\ send'[q].began = send[q].began
    BY <2>4 DEF Looked
  <2>7. PastOnly'
    BY <1>0, <2>4, <2>5 DEF SmsInv, PastOnly, Looked
  <2>8. ASSUME NEW b \in Looked', NEW a \in Stored(send[b].of)',
               send'[a].ended < send'[b].began
        PROVE  CreateTime(send'[a].time) + RateLimit * Steps < send'[b].began
    <3>1. b \in Looked /\ send'[b].of = send[b].of /\ send'[b].began = send[b].began
      BY <2>5, <2>6
    <3>2. CASE a = r
      <4>1. send[b].began <= smsNow /\ send'[a].ended = smsNow
        BY <3>1, <3>2, <2>4 DEF SmsInv, PastOnly
      <4>2. send[b].began \in Nat
        BY <3>1, SendKinds DEF SmsInv, Looked, CheckedSends, InsertedSends, StoredSends
      <4> QED
        BY <4>1, <4>2, <3>1, <1>0, <2>8
    <3>3. CASE a # r
      <4>1. a \in Stored(send[b].of) /\ send'[a] = send[a]
        BY <3>1, <3>3, <2>4 DEF Stored
      <4> QED
        BY <4>1, <3>1, <2>8 DEF SmsInv, LookedFirst
    <3> QED
      BY <3>2, <3>3
  <2>9. LookedFirst'
    BY <2>8 DEF LookedFirst, CreateTime
  <2> QED
    BY <2>3, <2>7, <2>9 DEF SmsInv
<1>2. CASE send' = [send EXCEPT ![r] = [at |-> "refused"]]
  BY <1>0, <1>2, GivenUp
<1> QED
  BY <1>1, <1>2 DEF StoreSms

LEMMA SmsTickStep ==
  ASSUME SmsInv, SmsTick
  PROVE  SmsInv'
<1>1. smsNow \in Nat /\ smsNow' = smsNow + 1 /\ send' = send
  BY DEF SmsTick, SmsInv, SmsTypeOK
<1>2. SmsTypeOK'
  BY <1>1 DEF SmsInv, SmsTypeOK
<1>3. PastOnly'
  <2> SUFFICES ASSUME NEW r \in Looked
               PROVE  /\ send[r].began <= smsNow'
                      /\ send[r].at \in {"inserted", "stored"} => send[r].began <= send[r].time
                      /\ send[r].at = "stored" => send[r].ended <= smsNow'
    BY <1>1 DEF PastOnly, Looked
  <2>1. send[r].began \in Nat /\ (send[r].at = "stored" => send[r].ended \in Nat)
    BY SendKinds DEF SmsInv, Looked, CheckedSends, InsertedSends, StoredSends
  <2> QED
    BY <2>1, <1>1 DEF SmsInv, PastOnly
<1>4. LookedFirst'
  BY <1>1 DEF SmsInv, LookedFirst, Looked, Stored, CreateTime
<1> QED
  BY <1>2, <1>3, <1>4 DEF SmsInv

LEMMA SmsInvNext ==
  ASSUME SmsInv, [SmsNext]_smsVars
  PROVE  SmsInv'
<1>1. CASE UNCHANGED smsVars
  BY <1>1 DEF smsVars, SmsInv, SmsTypeOK, PastOnly, LookedFirst, Looked, Stored, CreateTime
<1>2. CASE SmsNext
  BY <1>2, CheckStep, RefuseStep, InsertStep, StoreSmsStep, SmsTickStep DEF SmsNext
<1> QED
  BY <1>1, <1>2

\* The invariant holds at all times.
THEOREM SmsInvariant == SmsSpec => []SmsInv
<1>1. SmsInit => SmsInv
  BY SmsInvInit
<1>2. SmsInv /\ [SmsNext]_smsVars => SmsInv'
  BY SmsInvNext
<1> QED
  BY <1>1, <1>2, PTL DEF SmsSpec

\* A request that begins after another's record was committed finds it, and its
\* own comes when RATE_LIMIT_SECONDS have gone by, but for the part of a second
\* that create_time does not keep.
LEMMA LookedFirstSuffices == SmsInv => OneSmsPerWindow
<1> SUFFICES ASSUME SmsInv, NEW m \in Mobiles, NEW a \in Stored(m), NEW b \in Stored(m),
                    send[a].ended < send[b].began
             PROVE  send[b].time + Steps > send[a].time + RateLimit * Steps
  BY DEF OneSmsPerWindow
<1>1. send[a] \in StoredSends /\ send[b] \in StoredSends /\ b \in Looked /\ send[b].of = m
  BY SendKinds DEF SmsInv, Stored, Looked
<1>2. CreateTime(send[a].time) + RateLimit * Steps < send[b].began
  BY <1>1 DEF SmsInv, LookedFirst
<1>3. send[b].began <= send[b].time
  BY <1>1 DEF SmsInv, PastOnly, Stored, StoredSends
<1>4. CreateTime(send[a].time) \in Nat /\ send[a].time < CreateTime(send[a].time) + Steps
  BY <1>1, CreateTimeIsClose DEF StoredSends
<1>5. RateLimit * Steps \in Nat /\ send[a].time \in Nat /\ send[b].time \in Nat
      /\ send[b].began \in Nat
  BY <1>1 DEF StoredSends
<1> QED
  BY <1>2, <1>3, <1>4, <1>5

\* For any window and any fineness of the clock, two messages reach a mobile
\* less than the window, short of a second, apart only if the request of the one
\* began before the other's had ended (send_sms(), routes_sms.py).
THEOREM WindowsHoldOneSms == SmsSpec => []OneSmsPerWindow
  BY SmsInvariant, LookedFirstSuffices, PTL

HIDE SmsAssumption

-----------------------------------------------------------------------------
(***************************************************************************)
(* Recon, for any payments, refunds, requests, types and days: what the    *)
(* stored reports count, and when a payment may be counted twice.          *)
(***************************************************************************)

OrderWrites ==
    [at : {"open", "committed", "rolled back"}, of : Payments, sets : {"paid", "closed"}, time : Nat]

RefundRows == [at : {"open", "committed", "rolled back"}, time : Nat]

Reports ==
    [at : {"built", "stored", "failed"}, day : Days, type : PayTypes,
     payments : SUBSET Payments, refunds : SUBSET Refunds]

ReconTypeOK ==
    /\ hour \in Nat
    /\ payment \in [Payments -> [status : {"pending", "paid", "closed"}, time : Nat]]
    /\ cashier \in [Cashiers -> {NotMade} \union OrderWrites]
    /\ refund \in [Refunds -> {NotMade} \union RefundRows]
    /\ report \in [Reporters -> {NotMade} \union Reports]

\* A payment that a request wrote is not pending any more.
WrittenNotPending == \A c \in Cashiers : HasWritten(c) => payment[cashier[c].of].status # "pending"

Beside(c, d) == <<c, d>> \in overlaps \/ <<d, c>> \in overlaps

SamePayment(c, d) == cashier[c].of = cashier[d].of

\* Whoever read a payment that another request has written, or wrote it too,
\* ran beside that request: it read the payment while it was pending.
WritersBeside ==
    \A c, d \in Cashiers :
        c # d /\ HasWritten(c) /\ (UnderWay(d) \/ HasWritten(d)) /\ SamePayment(c, d) => Beside(c, d)

Wrote(c, p) ==
    /\ HasWritten(c) /\ cashier[c].of = p
    /\ payment[p].status = cashier[c].sets
    /\ payment[p].status = "paid" => payment[p].time = cashier[c].time

\* The status of a payment, and its time if it is paid, are those one request
\* set.
LastWriter ==
    \A p \in Payments : payment[p].status # "pending" => \E c \in Cashiers : Wrote(c, p)

PaymentsConfirmed(r) ==
    \A p \in report[r].payments : \E c \in Cashiers : ConfirmedOn(c, p, report[r].day)

RefundsCommitted(r) ==
    \A f \in report[r].refunds : refund[f].at = "committed" /\ InDay(refund[f].time, report[r].day)

\* A report holds payments confirmed on its day and committed refunds of it.
ReportsOfTheirDay ==
    \A r \in Reporters : report[r].at # "new" => PaymentsConfirmed(r) /\ RefundsCommitted(r)

\* uk_date_type
OneOfADay ==
    \A r, q \in StoredReports :
        report[r].day = report[q].day /\ report[r].type = report[q].type => r = q

OrdersInv == WrittenNotPending /\ WritersBeside /\ LastWriter

ReconInv == ReconTypeOK /\ OrdersInv /\ ReportsOfTheirDay /\ OneOfADay

USE ReconAssumption

\* Days do not overlap.
LEMMA DaysApart ==
  ASSUME NEW time \in Nat, NEW d \in Nat, NEW e \in Nat, InDay(time, d), InDay(time, e)
  PROVE  d = e
<1> DEFINE L == DayLength
<1>1. L \in Nat
  OBVIOUS
<1>2. ASSUME NEW x \in Nat, NEW y \in Nat, x < y PROVE (x + 1) * L <= y * L
  <2>1. PICK k \in Nat : y = x + 1 + k
    <3>1. y - x - 1 \in Nat /\ y = x + 1 + (y - x - 1)
      BY <1>2
    <3> QED
      BY <3>1
  <2>2. y * L = (x + 1) * L + k * L /\ k * L \in Nat
    BY <1>1, <2>1
  <2>3. (x + 1) * L \in Nat
    BY <1>1
  <2> QED
    BY <2>2, <2>3
<1>3. d * L <= time /\ time < (d + 1) * L
  BY DEF InDay
<1>4. e * L <= time /\ time < (e + 1) * L
  BY DEF InDay
<1>5. d * L \in Nat /\ e * L \in Nat /\ (d + 1) * L \in Nat /\ (e + 1) * L \in Nat
  BY <1>1
<1> HIDE DEF L
<1>6. ~(d < e)
  BY <1>1, <1>2, <1>3, <1>4, <1>5
<1>7. ~(e < d)
  BY <1>1, <1>2, <1>3, <1>4, <1>5
<1> QED
  BY <1>6, <1>7

LEMMA ReconInvInit == ReconInit => ReconInv
  BY DEF ReconInit, ReconInv, ReconTypeOK, OrdersInv, WrittenNotPending, WritersBeside,
         LastWriter, HasWritten, UnderWay, NotMade, ReportsOfTheirDay, OneOfADay, StoredReports

LEMMA NotMadeIsNew == NotMade.at = "new"
BY DEF NotMade

\* What is under way, or has ended, has a record of what it writes.
LEMMA Begun ==
  ASSUME ReconTypeOK
  PROVE  /\ \A c \in Cashiers : cashier[c].at # "new" => cashier[c] \in OrderWrites
         /\ \A f \in Refunds : refund[f].at # "new" => refund[f] \in RefundRows
BY NotMadeIsNew DEF ReconTypeOK

\* Reports stay as good as they were while committed requests and refunds stay.
LEMMA ReportsKept ==
  ASSUME ReconInv, UNCHANGED report,
         \A c \in Cashiers : HasWritten(c) => cashier'[c] = cashier[c],
         \A f \in Refunds : refund[f].at = "committed" => refund'[f] = refund[f]
  PROVE  ReportsOfTheirDay' /\ OneOfADay'
<1>1. ASSUME NEW r \in Reporters, report[r].at # "new"
      PROVE  PaymentsConfirmed(r)' /\ RefundsCommitted(r)'
  <2>1. PaymentsConfirmed(r) /\ RefundsCommitted(r)
    BY <1>1 DEF ReconInv, ReportsOfTheirDay
  <2>2. report[r].refunds \subseteq Refunds
    BY <1>1 DEF ReconInv, ReconTypeOK, Reports, NotMade
  <2>3. RefundsCommitted(r)'
    BY <2>1, <2>2 DEF RefundsCommitted
  <2>4. ASSUME NEW p \in report[r].payments
        PROVE  \E c \in Cashiers : ConfirmedOn(c, p, report[r].day)'
    <3>1. PICK c \in Cashiers : ConfirmedOn(c, p, report[r].day)
      BY <2>1, <2>4 DEF PaymentsConfirmed
    <3> QED
      BY <3>1 DEF ConfirmedOn, HasWritten
  <2> QED
    BY <2>3, <2>4 DEF PaymentsConfirmed
<1>2. OneOfADay'
  BY DEF ReconInv, OneOfADay, StoredReports
<1> QED
  BY <1>1, <1>2 DEF ReportsOfTheirDay

\* A step that leaves the payments and the requests about them alone.
LEMMA OrdersKept ==
  ASSUME OrdersInv, UNCHANGED <<payment, cashier, overlaps>>
  PROVE  OrdersInv'
BY DEF OrdersInv, WrittenNotPending, WritersBeside, LastWriter, Wrote, HasWritten, UnderWay, Beside,
       SamePayment

LEMMA ReadOrderStep ==
  ASSUME ReconInv, NEW c \in Cashiers, ReadOrder(c)
  PROVE  ReconInv'
<1>1. PICK p \in Payments, sets \in {"paid", "closed"} :
        /\ payment[p].status = "pending"
        /\ cashier' = [cashier EXCEPT ![c] = [at |-> "open", of |-> p, sets |-> sets, time |-> hour]]
  BY DEF ReadOrder, Payable
<1>2. cashier[c].at = "new" /\ UNCHANGED <<hour, payment, overlaps, refund, report>>
  BY DEF ReadOrder, NotMade
<1>3. /\ cashier'[c].at = "open" /\ cashier'[c].of = p
      /\ \A d \in Cashiers \ {c} : cashier'[d] = cashier[d]
  BY <1>1 DEF ReconInv, ReconTypeOK
<1>4. ReconTypeOK'
  BY <1>1, <1>2 DEF ReconInv, ReconTypeOK, OrderWrites
<1>5. \A d \in Cashiers : HasWritten(d) => d # c /\ cashier'[d] = cashier[d]
  BY <1>2, <1>3 DEF HasWritten
<1>6. \A d \in Cashiers : HasWritten(d)' => d # c /\ HasWritten(d)
  BY <1>3 DEF HasWritten
<1>7. WrittenNotPending'
  BY <1>2, <1>5, <1>6 DEF ReconInv, OrdersInv, WrittenNotPending
<1>8. WritersBeside'
  <2> SUFFICES ASSUME NEW d \in Cashiers, NEW e \in Cashiers, d # e, HasWritten(d)',
                      UnderWay(e)' \/ HasWritten(e)', SamePayment(d, e)'
               PROVE  Beside(d, e)'
    BY DEF WritersBeside
  <2>1. HasWritten(d) /\ cashier'[d] = cashier[d] /\ payment[cashier[d].of].status # "pending"
    BY <1>5, <1>6 DEF ReconInv, OrdersInv, WrittenNotPending
  <2>2. e # c
    BY <1>1, <1>3, <2>1 DEF SamePayment
  <2>3. (UnderWay(e) \/ HasWritten(e)) /\ SamePayment(d, e)
    BY <1>3, <2>1, <2>2 DEF UnderWay, HasWritten, SamePayment
  <2> QED
    BY <1>2, <2>1, <2>3 DEF ReconInv, OrdersInv, WritersBeside, Beside
<1>9. LastWriter'
  <2> SUFFICES ASSUME NEW q \in Payments, payment[q].status # "pending"
               PROVE  \E d \in Cashiers : Wrote(d, q)'
    BY <1>2 DEF LastWriter
  <2>1. PICK d \in Cashiers : Wrote(d, q)
    BY DEF ReconInv, OrdersInv, LastWriter
  <2> QED
    BY <1>2, <1>5, <2>1 DEF Wrote, HasWritten
<1>10. ReportsOfTheirDay' /\ OneOfADay'
  BY <1>2, <1>5, ReportsKept
<1> QED
  BY <1>4, <1>7, <1>8, <1>9, <1>10 DEF ReconInv, OrdersInv

LEMMA WriteOrderStep ==
  ASSUME ReconInv, NEW c \in Cashiers, WriteOrder(c)
  PROVE  ReconInv'
<1> DEFINE p == cashier[c].of
<1>1. UnderWay(c) /\ UNCHANGED <<hour, refund, report>>
  BY DEF WriteOrder
<1>2. cashier[c] \in OrderWrites
  BY <1>1, Begun DEF ReconInv, UnderWay
<1>3. /\ cashier' = [cashier EXCEPT ![c].at = "committed"]
      /\ overlaps' = overlaps \union
           {<<c, d>> : d \in {d \in Cashiers \ {c} : UnderWay(d) /\ cashier[d].of = cashier[c].of}}
      /\ payment' = [payment EXCEPT ![p] =
               [status |-> cashier[c].sets,
                time   |-> IF cashier[c].sets = "paid" THEN cashier[c].time ELSE @.time]]
  BY DEF WriteOrder
<1>4. p \in Payments /\ cashier[c].sets \in {"paid", "closed"} /\ cashier[c].time \in Nat
  BY <1>2 DEF OrderWrites
<1>5. /\ HasWritten(c)' /\ cashier'[c].of = p /\ cashier'[c].sets = cashier[c].sets
      /\ cashier'[c].time = cashier[c].time
      /\ \A d \in Cashiers \ {c} : cashier'[d] = cashier[d]
  BY <1>2, <1>3 DEF ReconInv, ReconTypeOK, OrderWrites, HasWritten
<1>6. /\ payment'[p].status = cashier[c].sets
      /\ cashier[c].sets = "paid" => payment'[p].time = cashier[c].time
      /\ \A q \in Payments \ {p} : payment'[q] = payment[q]
  BY <1>3, <1>4 DEF ReconInv, ReconTypeOK
<1>7. ReconTypeOK'
  <2>1. payment' \in [Payments -> [status : {"pending", "paid", "closed"}, time : Nat]]
    BY <1>3, <1>4 DEF ReconInv, ReconTypeOK
  <2>2. [cashier[c] EXCEPT !.at = "committed"] \in OrderWrites
    BY <1>2 DEF OrderWrites
  <2> QED
    BY <1>1, <1>3, <2>1, <2>2 DEF ReconInv, ReconTypeOK
<1>8. \A d \in Cashiers : HasWritten(d) => d # c /\ cashier'[d] = cashier[d]
  BY <1>1, <1>5 DEF HasWritten, UnderWay
<1>9. WrittenNotPending'
  <2> SUFFICES ASSUME NEW d \in Cashiers, HasWritten(d)'
               PROVE  payment'[cashier'[d].of].status # "pending"
    BY DEF WrittenNotPending
  <2>1. CASE cashier'[d].of = p
    BY <1>4, <1>6, <2>1
  <2>2. CASE cashier'[d].of # p
    <3>1. d # c /\ HasWritten(d) /\ cashier'[d] = cashier[d]
      BY <1>5, <2>2 DEF HasWritten
    <3>2. payment[cashier[d].of].status # "pending" /\ cashier[d].of \in Payments
      <4>1. cashier[d] \in OrderWrites
        BY <3>1, Begun DEF ReconInv, HasWritten
      <4> QED
        BY <3>1, <4>1 DEF ReconInv, OrdersInv, WrittenNotPending, OrderWrites
    <3> QED
      BY <1>6, <2>2, <3>1, <3>2
  <2> QED
    BY <2>1, <2>2
<1>10. WritersBeside'
  <2> SUFFICES ASSUME NEW d \in Cashiers, NEW e \in Cashiers, d # e, HasWritten(d)',
                      UnderWay(e)' \/ HasWritten(e)', SamePayment(d, e)'
               PROVE  Beside(d, e)'
    BY DEF WritersBeside
  <2>1. UnderWay(e) \/ HasWritten(e)
    BY <1>1, <1>5 DEF UnderWay, HasWritten
  <2>2. SamePayment(d, e) /\ SamePayment(e, d)
    BY <1>5 DEF SamePayment
  <2>3. Beside(d, e) => Beside(d, e)'
    BY <1>3 DEF Beside
  <2>4. CASE d # c
    <3>1. HasWritten(d)
      BY <1>5, <2>4 DEF HasWritten
    <3> QED
      BY <2>1, <2>2, <2>3, <3>1 DEF ReconInv, OrdersInv, WritersBeside
  <2>5. CASE d = c /\ HasWritten(e)
    <3>1. Beside(e, d)
      BY <1>1, <2>2, <2>5 DEF ReconInv, OrdersInv, WritersBeside
    <3> QED
      BY <2>3, <3>1 DEF Beside
  <2>6. CASE d = c /\ UnderWay(e)
    <3>1. <<c, e>> \in overlaps'
      BY <1>3, <2>2, <2>6 DEF SamePayment
    <3> QED
      BY <2>6, <3>1 DEF Beside
  <2> QED
    BY <2>1, <2>4, <2>5, <2>6
<1>11. LastWriter'
  <2> SUFFICES ASSUME NEW q \in Payments, payment'[q].status # "pending"
               PROVE  \E d \in Cashiers : Wrote(d, q)'
    BY DEF LastWriter
  <2>1. CASE q = p
    <3>1. Wrote(c, q)'
      BY <1>5, <1>6, <2>1 DEF Wrote
    <3> QED
      BY <3>1
  <2>2. CASE q # p
    <3>1. payment'[q] = payment[q]
      BY <1>6, <2>2
    <3>2. PICK d \in Cashiers : Wrote(d, q)
      BY <3>1 DEF ReconInv, OrdersInv, LastWriter
    <3> QED
      BY <1>8, <3>1, <3>2 DEF Wrote, HasWritten
  <2> QED
    BY <2>1, <2>2
<1>12. ReportsOfTheirDay' /\ OneOfADay'
  BY <1>1, <1>8, ReportsKept
<1> QED
  BY <1>7, <1>9, <1>10, <1>11, <1>12 DEF ReconInv, OrdersInv

LEMMA AbandonOrderStep ==
  ASSUME ReconInv, NEW c \in Cashiers, AbandonOrder(c)
  PROVE  ReconInv'
<1>1. /\ UnderWay(c) /\ UNCHANGED <<hour, payment, overlaps, refund, report>>
      /\ cashier' = [cashier EXCEPT ![c].at = "rolled back"]
  BY DEF AbandonOrder
<1>2. cashier[c] \in OrderWrites
  BY <1>1, Begun DEF ReconInv, UnderWay
<1>3. [cashier[c] EXCEPT !.at = "rolled back"] \in OrderWrites
  BY <1>2 DEF OrderWrites
<1>4. ReconTypeOK'
  BY <1>1, <1>3 DEF ReconInv, ReconTypeOK
<1>5. /\ cashier'[c].at = "rolled back"
      /\ \A d \in Cashiers \ {c} : cashier'[d] = cashier[d]
  BY <1>1, <1>2 DEF ReconInv, ReconTypeOK, OrderWrites
<1>6. \A d \in Cashiers : /\ HasWritten(d)' <=> HasWritten(d)
                          /\ UnderWay(d)' => UnderWay(d)
                          /\ HasWritten(d) \/ UnderWay(d)' => cashier'[d] = cashier[d]
  BY <1>1, <1>5 DEF HasWritten, UnderWay
<1>7. WrittenNotPending'
  BY <1>1, <1>6 DEF ReconInv, OrdersInv, WrittenNotPending
<1>8. WritersBeside'
  BY <1>1, <1>6 DEF ReconInv, OrdersInv, WritersBeside, Beside, SamePayment
<1>9. LastWriter'
  <2> SUFFICES ASSUME NEW q \in Payments, payment[q].status # "pending"
               PROVE  \E d \in Cashiers : Wrote(d, q)'
    BY <1>1 DEF LastWriter
  <2>1. PICK d \in Cashiers : Wrote(d, q)
    BY DEF ReconInv, OrdersInv, LastWriter
  <2> QED
    BY <1>1, <1>6, <2>1 DEF Wrote
<1>10. ReportsOfTheirDay' /\ OneOfADay'
  BY <1>1, <1>6, ReportsKept
<1> QED
  BY <1>4, <1>7, <1>8, <1>9, <1>10 DEF ReconInv, OrdersInv

LEMMA RefundStep ==
  ASSUME ReconInv, NEW f \in Refunds, InsertRefund(f) \/ EndRefund(f)
  PROVE  ReconInv'
<1>1. refund[f].at # "committed" /\ UNCHANGED <<hour, payment, cashier, overlaps, report>>
  BY NotMadeIsNew DEF InsertRefund, EndRefund
<1>2. PICK row \in RefundRows : refund' = [refund EXCEPT ![f] = row]
  <2>1. CASE InsertRefund(f)
    <3>1. [at |-> "open", time |-> hour] \in RefundRows
      BY DEF ReconInv, ReconTypeOK, RefundRows
    <3> QED
      BY <2>1, <3>1 DEF InsertRefund
  <2>2. CASE EndRefund(f)
    <3>1. PICK at \in {"committed", "rolled back"} : refund' = [refund EXCEPT ![f].at = at]
      BY <2>2 DEF EndRefund
    <3>2. refund[f] \in RefundRows
      BY <2>2, Begun DEF EndRefund, ReconInv
    <3>3. [refund[f] EXCEPT !.at = at] \in RefundRows
      BY <3>2 DEF RefundRows
    <3> QED
      BY <3>1, <3>3
  <2> QED
    BY <2>1, <2>2
<1>3. ReconTypeOK'
  BY <1>1, <1>2 DEF ReconInv, ReconTypeOK
<1>4. \A g \in Refunds : refund[g].at = "committed" => refund'[g] = refund[g]
  BY <1>1, <1>2 DEF ReconInv, ReconTypeOK
<1>5. OrdersInv'
  BY <1>1, OrdersKept DEF ReconInv
<1> QED
  BY <1>1, <1>3, <1>4, <1>5, ReportsKept DEF ReconInv

\* What a report that is built now counts was confirmed or committed.
LEMMA CountsConfirmed ==
  ASSUME ReconInv, NEW day, NEW type
  PROVE  /\ \A p \in PaymentsOf(day, type) : \E c \in Cashiers : ConfirmedOn(c, p, day)
         /\ \A f \in RefundsOf(day) : refund[f].at = "committed" /\ InDay(refund[f].time, day)
<1>1. ASSUME NEW p \in PaymentsOf(day, type)
      PROVE  \E c \in Cashiers : ConfirmedOn(c, p, day)
  <2>1. p \in Payments /\ payment[p].status = "paid" /\ InDay(payment[p].time, day)
    BY <1>1 DEF PaymentsOf
  <2>2. PICK c \in Cashiers : Wrote(c, p)
    BY <2>1 DEF ReconInv, OrdersInv, LastWriter
  <2>3. HasWritten(c) /\ cashier[c].of = p /\ cashier[c].sets = "paid" /\ cashier[c].time = payment[p].time
    BY <2>1, <2>2 DEF Wrote
  <2> QED
    BY <2>1, <2>3 DEF ConfirmedOn
<1> QED
  BY <1>1 DEF RefundsOf

LEMMA BuildReportStep ==
  ASSUME ReconInv, NEW r \in Reporters, BuildReport(r)
  PROVE  ReconInv'
<1>1. PICK day \in Days, type \in PayTypes : report' = [report EXCEPT ![r] =
        [at |-> "built", day |-> day, type |-> type,
         payments |-> PaymentsOf(day, type), refunds |-> RefundsOf(day)]]
  BY DEF BuildReport
<1>2. report[r].at = "new" /\ UNCHANGED <<hour, payment, cashier, overlaps, refund>>
  BY DEF BuildReport, NotMade
<1>3. PaymentsOf(day, type) \subseteq Payments /\ RefundsOf(day) \subseteq Refunds
  BY DEF PaymentsOf, RefundsOf
<1>4. ReconTypeOK'
  BY <1>1, <1>2, <1>3 DEF ReconInv, ReconTypeOK, Reports
<1>5. \A q \in Reporters \ {r} : report'[q] = report[q]
  BY <1>1 DEF ReconInv, ReconTypeOK
<1>6. /\ report'[r].at = "built" /\ report'[r].day = day
      /\ report'[r].payments = PaymentsOf(day, type) /\ report'[r].refunds = RefundsOf(day)
  BY <1>1 DEF ReconInv, ReconTypeOK
<1>7. StoredReports' = StoredReports /\ r \notin StoredReports
  BY <1>2, <1>5, <1>6 DEF StoredReports
<1>8. OneOfADay'
  BY <1>5, <1>7 DEF ReconInv, OneOfADay, StoredReports
<1>9. ReportsOfTheirDay'
  <2> SUFFICES ASSUME NEW q \in Reporters, report'[q].at # "new"
               PROVE  PaymentsConfirmed(q)' /\ RefundsCommitted(q)'
    BY DEF ReportsOfTheirDay
  <2>1. CASE q = r
    BY <1>2, <1>6, <2>1, CountsConfirmed
    DEF PaymentsConfirmed, RefundsCommitted, ConfirmedOn, HasWritten
  <2>2. CASE q # r
    BY <1>2, <1>5, <2>2
    DEF ReconInv, ReportsOfTheirDay, PaymentsConfirmed, RefundsCommitted, ConfirmedOn, HasWritten
  <2> QED
    BY <2>1, <2>2
<1>10. OrdersInv'
  BY <1>2, OrdersKept DEF ReconInv
<1> QED
  BY <1>4, <1>8, <1>9, <1>10 DEF ReconInv

LEMMA StoreReportStep ==
  ASSUME ReconInv, NEW r \in Reporters, StoreReport(r)
  PROVE  ReconInv'
<1>1. /\ report[r].at = "built"
      /\ report' = [report EXCEPT ![r].at = IF SecondReport(r) THEN "failed" ELSE "stored"]
      /\ UNCHANGED <<hour, payment, cashier, overlaps, refund>>
  BY DEF StoreReport
<1>2. report[r] \in Reports
  BY <1>1 DEF ReconInv, ReconTypeOK, NotMade
<1>3. ReconTypeOK'
  <2>1. [report[r] EXCEPT !.at = IF SecondReport(r) THEN "failed" ELSE "stored"] \in Reports
    BY <1>2 DEF Reports
  <2> QED
    BY <1>1, <2>1 DEF ReconInv, ReconTypeOK
<1>4. /\ \A q \in Reporters \ {r} : report'[q] = report[q]
      /\ report'[r].at = IF SecondReport(r) THEN "failed" ELSE "stored"
      /\ report'[r].day = report[r].day /\ report'[r].type = report[r].type
      /\ report'[r].payments = report[r].payments /\ report'[r].refunds = report[r].refunds
  BY <1>1, <1>2 DEF ReconInv, ReconTypeOK, Reports
<1>5. ReportsOfTheirDay'
  <2> SUFFICES ASSUME NEW q \in Reporters, report'[q].at # "new"
               PROVE  PaymentsConfirmed(q)' /\ RefundsCommitted(q)'
    BY DEF ReportsOfTheirDay
  <2>1. PaymentsConfirmed(q) /\ RefundsCommitted(q)
    BY <1>1, <1>4 DEF ReconInv, ReportsOfTheirDay
  <2>2. /\ report'[q].day = report[q].day /\ report'[q].payments = report[q].payments
        /\ report'[q].refunds = report[q].refunds
    BY <1>4
  <2> QED
    BY <1>1, <2>1, <2>2 DEF PaymentsConfirmed, RefundsCommitted, ConfirmedOn, HasWritten
<1>6. OneOfADay'
  <2>1. StoredReports' = IF SecondReport(r) THEN StoredReports ELSE StoredReports \union {r}
    BY <1>1, <1>4 DEF StoredReports
  <2>2. r \notin StoredReports
    BY <1>1 DEF StoredReports
  <2>3. ASSUME NEW p \in StoredReports', NEW q \in StoredReports',
               report'[p].day = report'[q].day, report'[p].type = report'[q].type
        PROVE  p = q
    <3>1. p \in StoredReports /\ q \in StoredReports => p = q
      BY <1>4, <2>2, <2>3 DEF ReconInv, OneOfADay, StoredReports
    <3>2. ~SecondReport(r) /\ p = r => q = r
      BY <1>4, <2>1, <2>3 DEF SecondReport, StoredReports
    <3>3. ~SecondReport(r) /\ q = r => p = r
      BY <1>4, <2>1, <2>3 DEF SecondReport, StoredReports
    <3> QED
      BY <2>1, <3>1, <3>2, <3>3
  <2> QED
    BY <2>3 DEF OneOfADay
<1>7. OrdersInv'
  BY <1>1, OrdersKept DEF ReconInv
<1> QED
  BY <1>3, <1>5, <1>6, <1>7 DEF ReconInv

LEMMA ReconInvStep == ReconInv /\ [ReconNext]_reconVars => ReconInv'
<1> SUFFICES ASSUME ReconInv, [ReconNext]_reconVars PROVE ReconInv'
  OBVIOUS
<1>1. CASE UNCHANGED <<payment, cashier, overlaps, refund, report>> /\ hour' \in Nat
  <2>1. ReconTypeOK'
    BY <1>1 DEF ReconInv, ReconTypeOK
  <2> QED
    BY <1>1, <2>1, OrdersKept, ReportsKept DEF ReconInv
<1>2. CASE UNCHANGED reconVars
  BY <1>1, <1>2 DEF reconVars, ReconInv, ReconTypeOK
<1>3. CASE ReconTick
  BY <1>1, <1>3 DEF ReconTick, ReconInv, ReconTypeOK
<1>4. ASSUME NEW c \in Cashiers, ReadOrder(c) \/ WriteOrder(c) \/ AbandonOrder(c)
      PROVE  ReconInv'
  BY <1>4, ReadOrderStep, WriteOrderStep, AbandonOrderStep
<1>5. ASSUME NEW f \in Refunds, InsertRefund(f) \/ EndRefund(f)
      PROVE  ReconInv'
  BY <1>5, RefundStep
<1>6. ASSUME NEW r \in Reporters, BuildReport(r) \/ StoreReport(r)
      PROVE  ReconInv'
  BY <1>6, BuildReportStep, StoreReportStep
<1> QED
  BY <1>2, <1>3, <1>4, <1>5, <1>6 DEF ReconNext

\* The invariant the theorems below are read off.
THEOREM ReconInvariant == ReconSpec => []ReconInv
<1> QED
  BY ReconInvInit, ReconInvStep, PTL DEF ReconSpec

\* A stored report has a day and rows, and was built from what was confirmed.
LEMMA StoredReport ==
  ASSUME ReconInv, NEW r \in StoredReports
  PROVE  /\ r \in Reporters /\ report[r].day \in Nat
         /\ report[r].payments \subseteq Payments /\ report[r].refunds \subseteq Refunds
         /\ PaymentsConfirmed(r) /\ RefundsCommitted(r)
<1>1. r \in Reporters /\ report[r].at = "stored"
  BY DEF StoredReports
<1>2. report[r] \in Reports
  BY <1>1 DEF ReconInv, ReconTypeOK, NotMade
<1> QED
  BY <1>1, <1>2 DEF Reports, Days, ReconInv, ReportsOfTheirDay

\* Two requests that wrote one payment ran beside each other.
LEMMA TwoWritersBeside ==
  ASSUME ReconInv, NEW c \in Cashiers, NEW d \in Cashiers, c # d, NEW p,
         HasWritten(c), HasWritten(d), cashier[c].of = p, cashier[d].of = p
  PROVE  WroteBeside(c, d, p)
BY DEF ReconInv, OrdersInv, WritersBeside, SamePayment, Beside, WroteBeside

\* For any orders, refunds, days and reports: a refund is in one stored report
\* of a pay type at most; a payment is in two only if requests that overlapped
\* confirmed it on both days (build_daily_recon(), confirm_pay(), uk_date_type).
THEOREM BillsCountedOnce == ReconSpec => []CountedOnce
<1>1. ReconInv => CountedOnce
  <2> SUFFICES ASSUME ReconInv, NEW q \in StoredReports, NEW r \in StoredReports
               PROVE
        /\ \A f \in report[r].refunds : refund[f].at = "committed"
        /\ \A p \in report[r].payments : \E c \in Cashiers : ConfirmedOn(c, p, report[r].day)
        /\ q # r /\ report[q].type = report[r].type =>
            /\ report[q].refunds \intersect report[r].refunds = {}
            /\ \A p \in report[q].payments \intersect report[r].payments :
                \E c, d \in Cashiers : /\ WroteBeside(c, d, p)
                                       /\ ConfirmedOn(c, p, report[q].day)
                                       /\ ConfirmedOn(d, p, report[r].day)
    BY DEF CountedOnce
  <2>1. /\ \A f \in report[r].refunds : refund[f].at = "committed"
        /\ \A p \in report[r].payments : \E c \in Cashiers : ConfirmedOn(c, p, report[r].day)
    BY StoredReport DEF RefundsCommitted, PaymentsConfirmed
  <2> SUFFICES ASSUME q # r, report[q].type = report[r].type
               PROVE  /\ report[q].refunds \intersect report[r].refunds = {}
                      /\ \A p \in report[q].payments \intersect report[r].payments :
                          \E c, d \in Cashiers : /\ WroteBeside(c, d, p)
                                                 /\ ConfirmedOn(c, p, report[q].day)
                                                 /\ ConfirmedOn(d, p, report[r].day)
    BY <2>1
  <2>2. report[q].day # report[r].day
    BY DEF ReconInv, OneOfADay
  <2>3. ~\E time \in Nat : InDay(time, report[q].day) /\ InDay(time, report[r].day)
    BY <2>2, DaysApart, StoredReport
  <2>4. ASSUME NEW f \in report[q].refunds, f \in report[r].refunds PROVE FALSE
    <3>1. /\ refund[f].at = "committed" /\ f \in Refunds
          /\ InDay(refund[f].time, report[q].day) /\ InDay(refund[f].time, report[r].day)
      BY <2>4, StoredReport DEF RefundsCommitted
    <3>2. refund[f].time \in Nat
      BY <3>1, Begun DEF ReconInv, RefundRows
    <3> QED
      BY <2>3, <3>1, <3>2
  <2>5. ASSUME NEW p \in report[q].payments, p \in report[r].payments
        PROVE  \E c, d \in Cashiers : /\ WroteBeside(c, d, p)
                                      /\ ConfirmedOn(c, p, report[q].day)
                                      /\ ConfirmedOn(d, p, report[r].day)
    <3>1. PICK c \in Cashiers : ConfirmedOn(c, p, report[q].day)
      BY <2>5, StoredReport DEF PaymentsConfirmed
    <3>2. PICK d \in Cashiers : ConfirmedOn(d, p, report[r].day)
      BY <2>5, StoredReport DEF PaymentsConfirmed
    <3>3. cashier[c].time \in Nat
      <4>1. cashier[c] \in OrderWrites
        BY <3>1, Begun DEF ReconInv, ConfirmedOn, HasWritten
      <4> QED
        BY <4>1 DEF OrderWrites
    <3>4. c # d
      BY <2>3, <3>1, <3>2, <3>3 DEF ConfirmedOn
    <3>5. WroteBeside(c, d, p)
      BY <3>1, <3>2, <3>4, TwoWritersBeside DEF ConfirmedOn
    <3> QED
      BY <3>1, <3>2, <3>5
  <2> QED
    BY <2>4, <2>5
<1> QED
  BY <1>1, ReconInvariant, PTL

\* For any orders, days and reports, a payment a stored report counts stays paid
\* on that day, unless requests about it overlapped (confirm_pay(),
\* close_payment(), timeout_close(), build_daily_recon()).
THEOREM ReportsRemainTrue == ReconSpec => []ReportsStayTrue
<1>1. ReconInv => ReportsStayTrue
  <2> SUFFICES ASSUME ReconInv, NEW r \in StoredReports, NEW p \in report[r].payments,
                      ~\E c, d \in Cashiers : WroteBeside(c, d, p)
               PROVE  payment[p].status = "paid" /\ InDay(payment[p].time, report[r].day)
    BY DEF ReportsStayTrue
  <2>1. PICK c \in Cashiers : ConfirmedOn(c, p, report[r].day)
    BY StoredReport DEF PaymentsConfirmed
  <2>2. HasWritten(c) /\ cashier[c].of = p /\ cashier[c].sets = "paid"
    BY <2>1 DEF ConfirmedOn
  <2>3. p \in Payments /\ payment[p].status # "pending"
    BY <2>2, StoredReport DEF ReconInv, OrdersInv, WrittenNotPending
  <2>4. PICK d \in Cashiers : Wrote(d, p)
    BY <2>3 DEF ReconInv, OrdersInv, LastWriter
  <2>5. d = c
    BY <2>2, <2>4, TwoWritersBeside DEF Wrote
  <2> QED
    BY <2>1, <2>2, <2>4, <2>5 DEF Wrote, ConfirmedOn
<1> QED
  BY <1>1, ReconInvariant, PTL

HIDE ReconAssumption

-----------------------------------------------------------------------------
(***************************************************************************)
(* Keys, for any processes and any number of pairs: what is signed is      *)
(* signed with the pair whose public file the other services read.         *)
(***************************************************************************)

KeysTypeOK ==
    /\ file \in [{"private", "public"} -> 0..Empty]
    /\ worker \in [Workers -> [at : {"idle", "generated", "private", "half", "public"},
                               pair : 0..MaxKeys]]
    /\ madeKeys \in 0..MaxKeys

\* One process at a time writes the files.
OneWriter ==
    \A p, q \in Workers : worker[p] # NoCall /\ worker[q] # NoCall => p = q

\* Before the public file is opened nothing was signed, and the private one
\* holds the pair of the call that is about to open it ...
NoPublicFile ==
    /\ file["public"] = Missing
    /\ signed = {}
    /\ \A p \in Workers :
          \/ worker[p] = NoCall
          \/ worker[p].at \in {"generated", "private"} /\ worker[p].pair \in 1..MaxKeys
          \/ worker[p].at = "half" /\ worker[p].pair \in 1..MaxKeys
             /\ file["private"] = worker[p].pair

\* ... and from then on, only the key in the private file is used.
PrivateKeySigns ==
    /\ file["private"] \in 1..MaxKeys
    /\ signed \subseteq {file["private"]}

PublicFileOpen ==
    /\ file["public"] = Empty
    /\ PrivateKeySigns
    /\ \E p \in Workers : worker[p] = [at |-> "public", pair |-> file["private"]]

PublicFileWritten ==
    /\ file["public"] = file["private"]
    /\ PrivateKeySigns
    /\ \A p \in Workers : worker[p] = NoCall

KeysInv ==
    /\ KeysTypeOK
    /\ together \/ cut \/
        /\ OneWriter
        /\ NoPublicFile \/ PublicFileOpen \/ PublicFileWritten

USE KeysAssumption

LEMMA KeysInvInit == KeysInit => KeysInv
  BY DEF KeysInit, KeysInv, KeysTypeOK, OneWriter, NoPublicFile, NoCall, Missing, Empty

LEMMA LoadStep ==
  ASSUME KeysInv, NEW p \in Workers, Load(p)
  PROVE  KeysInv'
<1>1. /\ file["public"] # Missing
      /\ signed' = signed \union ({file["private"]} \ {Empty})
      /\ UNCHANGED <<file, worker, madeKeys, together, cut>>
  BY DEF Load, BothThere, SignWith
<1>2. KeysTypeOK'
  BY <1>1 DEF KeysInv, KeysTypeOK, Empty
<1>3. CASE together \/ cut
  BY <1>1, <1>2, <1>3 DEF KeysInv
<1>4. CASE ~together /\ ~cut
  <2>1. OneWriter' /\ (PublicFileOpen \/ PublicFileWritten)
    BY <1>1, <1>4 DEF KeysInv, OneWriter, NoPublicFile
  <2>2. PublicFileOpen' \/ PublicFileWritten'
    BY <1>1, <2>1 DEF PublicFileOpen, PublicFileWritten, PrivateKeySigns, Empty
  <2> QED
    BY <1>2, <2>1, <2>2 DEF KeysInv
<1> QED
  BY <1>3, <1>4

LEMMA GenerateStep ==
  ASSUME KeysInv, NEW p \in Workers, Generate(p)
  PROVE  KeysInv'
<1>1. /\ worker[p] = NoCall /\ madeKeys < MaxKeys /\ madeKeys' = madeKeys + 1
      /\ worker' = [worker EXCEPT ![p] = [at |-> "generated", pair |-> madeKeys + 1]]
      /\ UNCHANGED <<file, signed, cut>>
      /\ file["private"] = Missing \/ file["public"] = Missing
      /\ together' = (together \/ \E q \in Workers : worker[q] # NoCall)
  BY DEF Generate, BothThere
<1>2. KeysTypeOK'
  BY <1>1 DEF KeysInv, KeysTypeOK, Empty
<1>3. CASE together' \/ cut'
  BY <1>2, <1>3 DEF KeysInv
<1>4. CASE ~together' /\ ~cut'
  <2>1. ~together /\ ~cut /\ \A q \in Workers : worker[q] = NoCall
    BY <1>1, <1>4
  <2>2. OneWriter'
    BY <1>1, <2>1 DEF KeysInv, KeysTypeOK, OneWriter
  <2>3. NoPublicFile
    BY <1>1, <2>1 DEF KeysInv, PublicFileOpen, PublicFileWritten, PrivateKeySigns, NoCall,
                      Missing, Empty
  <2>4. worker'[p] = [at |-> "generated", pair |-> madeKeys + 1]
        /\ madeKeys + 1 \in 1..MaxKeys
    BY <1>1 DEF KeysInv, KeysTypeOK
  <2>5. \A q \in Workers \ {p} : worker'[q] = worker[q]
    BY <1>1 DEF KeysInv, KeysTypeOK
  <2>6. NoPublicFile'
    BY <1>1, <2>3, <2>4, <2>5 DEF NoPublicFile
  <2> QED
    BY <1>2, <2>2, <2>6 DEF KeysInv
<1> QED
  BY <1>3, <1>4

\* The only process in a call goes on with it.
LEMMA WriterGoesOn ==
  ASSUME KeysInv, ~together, ~cut, NEW p \in Workers, worker[p] # NoCall,
         NEW at, worker' = [worker EXCEPT ![p].at = at]
  PROVE  /\ OneWriter'
         /\ \A q \in Workers \ {p} : worker[q] = NoCall /\ worker'[q] = NoCall
         /\ worker'[p] = [at |-> at, pair |-> worker[p].pair]
  BY DEF KeysInv, KeysTypeOK, OneWriter

LEMMA WritePrivateFile ==
  ASSUME KeysInv, NEW p \in Workers, OpenPrivate(p) \/ WritePrivate(p)
  PROVE  KeysInv'
<1>1. PICK at \in {"private", "half"} :
        /\ worker[p].at = IF at = "private" THEN "generated" ELSE "private"
        /\ worker' = [worker EXCEPT ![p].at = at]
        /\ file' = [file EXCEPT !["private"] = IF at = "private" THEN Empty ELSE worker[p].pair]
        /\ UNCHANGED <<madeKeys, signed, together, cut>>
  BY DEF OpenPrivate, Open, WritePrivate
<1>2. KeysTypeOK'
  BY <1>1 DEF KeysInv, KeysTypeOK, Empty
<1>3. CASE together \/ cut
  BY <1>1, <1>2, <1>3 DEF KeysInv
<1>4. CASE ~together /\ ~cut
  <2>1. worker[p] # NoCall
    BY <1>1 DEF NoCall
  <2>2. /\ OneWriter'
        /\ \A q \in Workers \ {p} : worker[q] = NoCall /\ worker'[q] = NoCall
        /\ worker'[p] = [at |-> at, pair |-> worker[p].pair]
    BY <1>1, <1>4, <2>1, WriterGoesOn
  <2>3. NoPublicFile
    BY <1>1, <1>4, <2>1, <2>2 DEF KeysInv, PublicFileOpen, PublicFileWritten, NoCall
  <2>4. worker[p].pair \in 1..MaxKeys
    BY <1>1, <2>1, <2>3 DEF NoPublicFile
  <2>5. /\ file'["public"] = file["public"]
        /\ at = "half" => file'["private"] = worker[p].pair
    BY <1>1 DEF KeysInv, KeysTypeOK
  <2>6. NoPublicFile'
    BY <1>1, <2>2, <2>3, <2>4, <2>5 DEF NoPublicFile
  <2> QED
    BY <1>2, <2>2, <2>6 DEF KeysInv
<1> QED
  BY <1>3, <1>4

LEMMA OpenPublicStep ==
  ASSUME KeysInv, NEW p \in Workers, OpenPublic(p)
  PROVE  KeysInv'
<1>1. /\ worker[p].at = "half"
      /\ worker' = [worker EXCEPT ![p].at = "public"]
      /\ file' = [file EXCEPT !["public"] = Empty]
      /\ UNCHANGED <<madeKeys, signed, together, cut>>
  BY DEF OpenPublic, Open
<1>2. KeysTypeOK'
  BY <1>1 DEF KeysInv, KeysTypeOK, Empty
<1>3. CASE together \/ cut
  BY <1>1, <1>2, <1>3 DEF KeysInv
<1>4. CASE ~together /\ ~cut
  <2>1. worker[p] # NoCall
    BY <1>1 DEF NoCall
  <2>2. /\ OneWriter'
        /\ \A q \in Workers \ {p} : worker[q] = NoCall
        /\ worker'[p] = [at |-> "public", pair |-> worker[p].pair]
    BY <1>1, <1>4, <2>1, WriterGoesOn
  <2>3. NoPublicFile
    BY <1>1, <1>4, <2>1, <2>2 DEF KeysInv, PublicFileOpen, PublicFileWritten, NoCall
  <2>4. worker[p].pair \in 1..MaxKeys /\ file["private"] = worker[p].pair /\ signed = {}
    BY <1>1, <2>1, <2>3 DEF NoPublicFile
  <2>5. file'["public"] = Empty /\ file'["private"] = file["private"]
    BY <1>1 DEF KeysInv, KeysTypeOK
  <2>6. PublicFileOpen'
    BY <1>1, <2>2, <2>4, <2>5 DEF PublicFileOpen, PrivateKeySigns, Empty
  <2> QED
    BY <1>2, <2>2, <2>6 DEF KeysInv
<1> QED
  BY <1>3, <1>4

LEMMA WritePublicStep ==
  ASSUME KeysInv, NEW p \in Workers, WritePublic(p)
  PROVE  KeysInv'
<1>1. /\ worker[p].at = "public"
      /\ worker' = [worker EXCEPT ![p] = NoCall]
      /\ file' = [file EXCEPT !["public"] = worker[p].pair]
      /\ signed' = signed \union ({worker[p].pair} \ {Empty})
      /\ UNCHANGED <<madeKeys, together, cut>>
  BY DEF WritePublic, SignWith
<1>2. KeysTypeOK'
  BY <1>1 DEF KeysInv, KeysTypeOK, Empty, NoCall, Missing
<1>3. CASE together \/ cut
  BY <1>1, <1>2, <1>3 DEF KeysInv
<1>4. CASE ~together /\ ~cut
  <2>1. worker[p] # NoCall
    BY <1>1 DEF NoCall
  <2>2. \A q \in Workers \ {p} : worker[q] = NoCall
    BY <1>4, <2>1 DEF KeysInv, OneWriter
  <2>3. PublicFileOpen
    BY <1>1, <1>4, <2>1 DEF KeysInv, NoPublicFile, PublicFileWritten
  <2>4. worker[p] = [at |-> "public", pair |-> file["private"]]
    BY <2>2, <2>3 DEF PublicFileOpen, NoCall
  <2>5. file'["public"] = file["private"] /\ file'["private"] = file["private"]
    BY <1>1, <2>4 DEF KeysInv, KeysTypeOK
  <2>6. \A q \in Workers : worker'[q] = NoCall
    BY <1>1, <2>2 DEF KeysInv, KeysTypeOK
  <2>7. PublicFileWritten' /\ OneWriter'
    BY <1>1, <2>3, <2>4, <2>5, <2>6 DEF PublicFileOpen, PublicFileWritten, PrivateKeySigns, OneWriter
  <2> QED
    BY <1>2, <2>7 DEF KeysInv
<1> QED
  BY <1>3, <1>4

LEMMA DieStep ==
  ASSUME KeysInv, NEW p \in Workers, Die(p)
  PROVE  KeysInv'
<1>1. /\ worker[p] # NoCall
      /\ worker' = [worker EXCEPT ![p] = NoCall]
      /\ cut' = (cut \/ worker[p].at = "public")
      /\ UNCHANGED <<file, madeKeys, signed, together>>
  BY DEF Die
<1>2. KeysTypeOK'
  BY <1>1 DEF KeysInv, KeysTypeOK, NoCall, Missing
<1>3. CASE together' \/ cut'
  BY <1>2, <1>3 DEF KeysInv
<1>4. CASE ~together' /\ ~cut'
  <2>1. ~together /\ ~cut /\ worker[p].at # "public"
    BY <1>1, <1>4
  <2>2. \A q \in Workers \ {p} : worker[q] = NoCall
    BY <1>1, <2>1 DEF KeysInv, OneWriter
  <2>3. NoPublicFile
    BY <1>1, <2>1, <2>2 DEF KeysInv, PublicFileOpen, PublicFileWritten, NoCall
  <2>4. \A q \in Workers : worker'[q] = NoCall
    BY <1>1, <2>2 DEF KeysInv, KeysTypeOK
  <2>5. NoPublicFile' /\ OneWriter'
    BY <1>1, <2>3, <2>4 DEF NoPublicFile, OneWriter
  <2> QED
    BY <1>2, <2>5 DEF KeysInv
<1> QED
  BY <1>3, <1>4

LEMMA KeysInvStep == KeysInv /\ [KeysNext]_keysVars => KeysInv'
<1> SUFFICES ASSUME KeysInv, [KeysNext]_keysVars PROVE KeysInv'
  OBVIOUS
<1>1. CASE UNCHANGED keysVars
  BY <1>1 DEF keysVars, KeysInv, KeysTypeOK, OneWriter, NoPublicFile, PublicFileOpen,
              PublicFileWritten, PrivateKeySigns
<1>2. ASSUME NEW p \in Workers,
             \/ Load(p) \/ Generate(p) \/ OpenPrivate(p) \/ WritePrivate(p)
             \/ OpenPublic(p) \/ WritePublic(p) \/ Die(p)
      PROVE  KeysInv'
  BY <1>2, LoadStep, GenerateStep, WritePrivateFile, OpenPublicStep, WritePublicStep, DieStep
<1> QED
  BY <1>1, <1>2 DEF KeysNext

\* The invariant the theorem below is read off.
THEOREM KeysInvariant == KeysSpec => []KeysInv
<1> QED
  BY KeysInvInit, KeysInvStep, PTL DEF KeysSpec

\* For any number of processes and deaths, but for two calls that generate at
\* once and a death in the write of the public file, what was signed can be
\* verified, or will be once that write is done (aids_mock/rsa.py:29-53).
THEOREM SignaturesCanBeVerified == KeysSpec => []SignaturesVerify
<1>1. KeysInv => SignaturesVerify
  BY DEF KeysInv, NoPublicFile, PublicFileOpen, PublicFileWritten, PrivateKeySigns,
         SignaturesVerify
<1> QED
  BY <1>1, KeysInvariant, PTL

=============================================================================
