----------------------------- MODULE Logistics -----------------------------
(***************************************************************************)
(* The mock logistics channel (aids_mock/routes_logistics.py).  A waybill  *)
(* has no process of its own: whoever queries it adds the nodes that are   *)
(* due by then.  Requests run in transactions that read what is committed  *)
(* when they begin; the unique keys of the tables are checked when they    *)
(* commit.  Time is counted in the seconds DATETIME keeps.                 *)
(***************************************************************************)
EXTENDS Naturals, Sequences, FiniteSets

CONSTANTS
    Waybills,       \* delivery numbers
    Clients,        \* requests that may be under way at once
    TraceNodes,     \* _TRACE_NODES: the offset and the status of each node
    MaxClock        \* bound on the clock

ASSUME LogisticsAssumption ==
    /\ TraceNodes \in Seq([offset : Nat, status : Nat])
    /\ Len(TraceNodes) > 0 /\ TraceNodes[1].offset = 0
    /\ \A i, j \in 1..Len(TraceNodes) :
        i < j => /\ TraceNodes[i].offset + 1 < TraceNodes[j].offset
                 /\ TraceNodes[i].status <= TraceNodes[j].status
    /\ MaxClock \in Nat

VARIABLES
    clock,
    waybill,    \* waybill[w]: NoRow, or when it was created and its status
    nodes,      \* nodes[w]: its rows in mock_logistics_trace
    client      \* client[c]: what c has read and will write

logisticsVars == <<clock, waybill, nodes, client>>

NoRow == [created |-> 0, status |-> 0]

Nobody == [at |-> "idle"]

Exists(w) == waybill[w] # NoRow

LogisticsInit ==
    /\ clock = 1
    /\ waybill = [w \in Waybills |-> NoRow]
    /\ nodes = [w \in Waybills |-> {}]
    /\ client = [c \in Clients |-> Nobody]

\* create_waybill(): a number that is known is refused.
CreateBegins(c, w) ==
    /\ client[c] = Nobody
    /\ ~Exists(w)
    /\ client' = [client EXCEPT ![c] = [at |-> "creating", of |-> w]]
    /\ UNCHANGED <<clock, waybill, nodes>>

\* The row gets the time of the database, cut to the second; the first node
\* gets the time of the service, which DATETIME rounds: it may be one later.
CreateCommits(c) ==
    /\ client[c].at = "creating"
    /\ LET w == client[c].of
       IN IF Exists(w)
          THEN UNCHANGED <<waybill, nodes>>     \* uk_delivery_no
          ELSE /\ waybill' = [waybill EXCEPT ![w] =
                                [created |-> clock, status |-> TraceNodes[1].status]]
               /\ \E late \in {0, 1} :
                    nodes' = [nodes EXCEPT ![w] = {[time |-> clock + late, node |-> 1]}]
    /\ client' = [client EXCEPT ![c] = Nobody]
    /\ UNCHANGED clock

Times(rows) == {r.time : r \in rows}

\* Mutation: of the nodes that are due only the last is added.
DueNodes_Last(w) ==
    LET due == {i \in 1..Len(TraceNodes) : waybill[w].created + TraceNodes[i].offset <= clock}
        last == Cardinality(due)
    IN  {r \in {[time |-> waybill[w].created + TraceNodes[last].offset, node |-> last]} :
            due # {} /\ r.time \notin Times(nodes[w])}

\* _advance_traces(): every node whose time has come and is not taken.
DueNodes(w) ==
    {r \in {[time |-> waybill[w].created + TraceNodes[i].offset, node |-> i] :
                i \in 1..Len(TraceNodes)} :
        r.time <= clock /\ r.time \notin Times(nodes[w])}

\* query_trace() reads the waybill and its nodes and computes what is due.
QueryBegins(c, w) ==
    /\ client[c] = Nobody
    /\ Exists(w)
    /\ client' = [client EXCEPT ![c] =
            [at |-> "querying", of |-> w, adds |-> DueNodes(w), saw |-> waybill[w].status]]
    /\ UNCHANGED <<clock, waybill, nodes>>

\* Mutation: no uk_delivery_time.
Collides_Never(w, rows) == FALSE

\* uk_delivery_time: one node of a waybill at a time.
Collides(w, rows) == Times(rows) \intersect Times(nodes[w]) # {}

Latest(rows) == CHOOSE i \in {r.node : r \in rows} : \A r \in rows : r.node <= i

\* The status of the last node added; an UPDATE is sent if it is another than
\* the one that was read.
NextStatus(w, rows, saw) ==
    LET new == TraceNodes[Latest(rows)].status
    IN  IF rows = {} \/ new = saw THEN waybill[w].status ELSE new

QueryCommits(c) ==
    /\ client[c].at = "querying"
    /\ LET w == client[c].of
           rows == client[c].adds
       IN IF Collides(w, rows)
          THEN UNCHANGED <<waybill, nodes>>
          ELSE /\ nodes' = [nodes EXCEPT ![w] = @ \union rows]
               /\ waybill' = [waybill EXCEPT ![w].status = NextStatus(w, rows, client[c].saw)]
    /\ client' = [client EXCEPT ![c] = Nobody]
    /\ UNCHANGED clock

\* A client goes away, or the process dies: the transaction is rolled back.
Abandon(c) ==
    /\ client[c] # Nobody
    /\ client' = [client EXCEPT ![c] = Nobody]
    /\ UNCHANGED <<clock, waybill, nodes>>

LogisticsTick ==
    /\ clock < MaxClock
    /\ clock' = clock + 1
    /\ UNCHANGED <<waybill, nodes, client>>

LogisticsNext ==
    \/ \E c \in Clients : \/ \E w \in Waybills : CreateBegins(c, w) \/ QueryBegins(c, w)
                          \/ CreateCommits(c) \/ QueryCommits(c) \/ Abandon(c)
    \/ LogisticsTick

LogisticsSpec == LogisticsInit /\ [][LogisticsNext]_logisticsVars

-----------------------------------------------------------------------------
(* Properties *)

\* The status a merchant sees never goes back, whatever queries overlap: one
\* that computed an older status has a node in common with the one that
\* overtook it, and is rejected as a whole (routes_logistics.py:118-147).
StatusNeverGoesBack ==
    [][\A w \in Waybills : Exists(w) => waybill'[w].status >= waybill[w].status]_logisticsVars

\* The status is that of the latest node, and the nodes before that one are all
\* there, however seldom the waybill is queried; the first node may be there
\* twice, for the second it was rounded to and the one the row was created in.
StatusTellsTrace ==
    \A w \in Waybills : Exists(w) =>
        \E last \in nodes[w] :
            /\ waybill[w].status = TraceNodes[last.node].status
            /\ \A r \in nodes[w] : r.time <= last.time
            /\ {r.node : r \in nodes[w]} = 1..last.node
            /\ Cardinality(nodes[w]) <= last.node + 1
=============================================================================
