--------------------------- MODULE Outbox_proofs ---------------------------
(***************************************************************************)
(* Proofs about Outbox, for any set of events, writers and relays and any  *)
(* retry limit, batch size and backoff table.                              *)
(***************************************************************************)
EXTENDS Outbox, FiniteSetTheorems, TLAPS

\* An open business transaction that adds no row found the row in place.
WriterInv == \A w \in Writers : txn[w].adds = 0 => txn[w].event \subseteq Rows

\* A round works on existing rows, what it calls sent has arrived, and what
\* it read of a row was below the limit.
RoundInv ==
    \A r \in Relays : /\ InRound(r) \subseteq Rows
                      /\ \A e \in sent[r] : arrivals[e] > 0
                      /\ \A e \in InRound(r) : seen[r][e] < MaxRetry

\* A row whose count is at the limit is out of the backlog.
RetryInv == \A e \in Events : status[e] \in {"none", "pending"} => retry[e] < MaxRetry

\* The inductive invariant: WriterInv makes RegisteredTogether inductive,
\* RoundInv the two properties of the broker, and RetryInv keeps every use of
\* the backoff table inside its domain.
RelayInv ==
    /\ TypeOK
    /\ RegisteredTogether
    /\ NoPhantomEvent
    /\ NothingLost
    /\ WriterInv
    /\ RoundInv
    /\ RetryInv

LEMMA RelayInvInit == Init => RelayInv
<1> SUFFICES ASSUME Init PROVE RelayInv
  OBVIOUS
<1>1. TypeOK
  BY OutboxAssumption DEF Init, TypeOK, Status, Idle
<1>2. Rows = {}
  BY DEF Init, Rows
<1> QED
  BY <1>1, <1>2, OutboxAssumption
  DEF Init, RelayInv, RegisteredTogether, NoPhantomEvent, NothingLost, WriterInv,
      RoundInv, RetryInv, InRound, Idle

LEMMA FreeIdsAreNumbers == FreeIds \subseteq Nat
<1>1. Cardinality(Events) \in Nat
  BY OutboxAssumption, FS_CardinalityType
<1> QED
  BY <1>1 DEF FreeIds

\* The shape of an open transaction.
LEMMA TxnShape ==
  ASSUME TypeOK, NEW w \in Writers
  PROVE  /\ txn[w].adds \in 0..2
         /\ txn[w].event \subseteq Events
         /\ Idle \in [event : {{}} \union {{e} : e \in Events}, adds : 0..2]
<1>1. txn[w] \in [event : {{}} \union {{e} : e \in Events}, adds : 0..2]
  BY DEF TypeOK
<1>2. Idle \in [event : {{}} \union {{e} : e \in Events}, adds : 0..2]
  BY DEF Idle
<1>3. txn[w].adds \in 0..2 /\ txn[w].event \in {{}} \union {{e} : e \in Events}
  BY <1>1
<1> QED
  BY <1>2, <1>3

\* A step that touches neither rows, business, rounds nor the broker.
LEMMA QuietStep ==
  ASSUME RelayInv, TypeOK', WriterInv',
         UNCHANGED <<biz, status, retry, letters, todo, seen, sent, failed, arrivals>>
  PROVE  RelayInv'
<1>1. Rows' = Rows /\ \A r \in Relays : InRound(r)' = InRound(r)
  BY DEF Rows, InRound
<1>2. RegisteredTogether' /\ NoPhantomEvent' /\ NothingLost'
  BY <1>1 DEF RelayInv, RegisteredTogether, NoPhantomEvent, NothingLost
<1>3. RoundInv' /\ RetryInv'
  BY <1>1 DEF RelayInv, RoundInv, RetryInv
<1> QED
  BY <1>2, <1>3 DEF RelayInv

LEMMA EnqueueStep ==
  ASSUME RelayInv, NEW w \in Writers, NEW e \in Events, Enqueue(w, e)
  PROVE  RelayInv'
<1>0. TypeOK
  BY DEF RelayInv
<1>1. UNCHANGED <<biz, rowVars, roundVars, extVars>>
  BY DEF Enqueue
<1> DEFINE new == [event |-> {e},
                   adds  |-> IF e \in Rows THEN txn[w].adds ELSE txn[w].adds + 1]
<1>2. txn' = [txn EXCEPT ![w] = new]
  BY DEF Enqueue
<1>3. txn[w].adds \in 0..2 /\ txn[w].adds < 2
  BY <1>0 DEF Enqueue, TypeOK, Idle
<1>4. new \in [event : {{}} \union {{f} : f \in Events}, adds : 0..2]
  <2>1. new.adds \in 0..2
    BY <1>3
  <2> QED
    BY <2>1
<1>5. TypeOK'
  BY <1>0, <1>1, <1>2, <1>4 DEF TypeOK, rowVars, roundVars, extVars
<1>6. new.adds = 0 => new.event \subseteq Rows
  BY <1>3
<1>7. WriterInv'
  <2>1. Rows' = Rows
    BY <1>1 DEF Rows, rowVars
  <2> QED
    BY <1>0, <1>2, <1>6, <2>1 DEF WriterInv, RelayInv, TypeOK
<1> QED
  BY <1>1, <1>5, <1>7, QuietStep DEF rowVars, roundVars, extVars

\* The row a business transaction adds was not there: ~Conflict.
LEMMA AddedRowIsNew ==
  ASSUME TypeOK, NEW w \in Writers, CommitBusiness(w), txn[w].adds = 1,
         NEW e \in txn[w].event
  PROVE  status[e] = "none"
<1>1. txn[w].event \in {{}} \union {{f} : f \in Events} /\ ~(txn[w].event \subseteq Rows)
  BY DEF CommitBusiness, Conflict, TypeOK
<1>2. PICK f \in Events : txn[w].event = {f} /\ f \notin Rows
  BY <1>1
<1> QED
  BY <1>2 DEF Rows

LEMMA CommitBusinessStep ==
  ASSUME RelayInv, NEW w \in Writers, CommitBusiness(w)
  PROVE  RelayInv'
<1>0. TypeOK
  BY DEF RelayInv
<1>1. txn' = [txn EXCEPT ![w] = Idle] /\ biz' = biz \union txn[w].event
  BY DEF CommitBusiness
<1>2. TypeOK'
  <2>1. txn' \in [Writers -> [event : {{}} \union {{f} : f \in Events}, adds : 0..2]]
    BY <1>0, <1>1, TxnShape DEF TypeOK
  <2>2. biz' \subseteq Events
    BY <1>0, <1>1, TxnShape DEF TypeOK
  <2>3. status' \in [Events -> Status]
    BY <1>0 DEF CommitBusiness, TypeOK, Status
  <2>4. id' \in [Events -> Nat]
    BY <1>0, FreeIdsAreNumbers DEF CommitBusiness, TypeOK
  <2>5. UNCHANGED <<retry, wait, letters, roundVars, extVars>>
    BY DEF CommitBusiness
  <2> QED
    BY <1>0, <2>1, <2>2, <2>3, <2>4, <2>5 DEF TypeOK, roundVars, extVars
<1>3. txn[w].adds = 0 => txn[w].event \subseteq Rows
  BY DEF RelayInv, WriterInv
<1>4. txn[w].adds \in {0, 1} /\ txn[w].event \subseteq Events
  BY <1>0, TxnShape DEF CommitBusiness, Conflict
<1>5. \A e \in Events : \/ status'[e] = status[e]
                        \/ status[e] = "none" /\ status'[e] = "pending"
  <2>1. status' = [e \in Events |-> IF txn[w].adds = 1 /\ e \in txn[w].event
                                    THEN "pending" ELSE status[e]]
    BY DEF CommitBusiness
  <2>2. \A e \in Events : txn[w].adds = 1 /\ e \in txn[w].event => status[e] = "none"
    BY <1>0, AddedRowIsNew
  <2> QED
    BY <2>1, <2>2
<1>6. Rows' = Rows \union txn[w].event
  BY <1>0, <1>3, <1>4 DEF CommitBusiness, TypeOK, Rows
<1>7. UNCHANGED <<retry, letters, todo, seen, sent, failed, arrivals>>
  BY DEF CommitBusiness, roundVars, extVars
<1>8. RegisteredTogether' /\ NoPhantomEvent'
  BY <1>6, <1>7 DEF CommitBusiness, RelayInv, RegisteredTogether, NoPhantomEvent
<1>9. NothingLost'
  BY <1>5, <1>7 DEF RelayInv, NothingLost, Rows
<1>10. WriterInv'
  BY <1>0, <1>6 DEF CommitBusiness, RelayInv, WriterInv, TypeOK, Idle
<1>11. RoundInv'
  BY <1>6, <1>7 DEF RelayInv, RoundInv, InRound
<1>12. RetryInv'
  BY <1>0, <1>5, <1>7, <1>9 DEF RelayInv, RetryInv, TypeOK, CommitBusiness, Rows
<1> QED
  BY <1>2, <1>8, <1>9, <1>10, <1>11, <1>12 DEF RelayInv

LEMMA DropBusinessStep ==
  ASSUME RelayInv, NEW w \in Writers, RejectBusiness(w) \/ AbortBusiness(w)
  PROVE  RelayInv'
<1>0. TypeOK
  BY DEF RelayInv
<1>1. /\ txn' = [txn EXCEPT ![w] = Idle]
      /\ UNCHANGED <<biz, rowVars, roundVars, extVars>>
  BY DEF RejectBusiness, AbortBusiness
<1>2. TypeOK'
  BY <1>0, <1>1 DEF TypeOK, Idle, rowVars, roundVars, extVars
<1>3. WriterInv'
  <2>1. Rows' = Rows
    BY <1>1 DEF Rows, rowVars
  <2> QED
    BY <1>0, <1>1, <2>1 DEF WriterInv, RelayInv, TypeOK, Idle
<1> QED
  BY <1>1, <1>2, <1>3, QuietStep DEF rowVars, roundVars, extVars

LEMMA ScanStep ==
  ASSUME RelayInv, NEW r \in Relays, Scan(r)
  PROVE  RelayInv'
<1>0. TypeOK
  BY DEF RelayInv
<1>1. PICK rows \in SUBSET Due : todo' = [todo EXCEPT ![r] = rows]
  BY DEF Scan
<1>2. /\ seen' = [seen EXCEPT ![r] = retry]
      /\ age' = [age EXCEPT ![r] = 0]
      /\ UNCHANGED <<bizVars, rowVars, sent, failed, extVars>>
  BY DEF Scan
<1>3. rows \subseteq Rows /\ \A e \in rows : e \in Events /\ status[e] = "pending"
  BY DEF Due, Rows
<1>4. TypeOK'
  BY <1>0, <1>1, <1>2, <1>3 DEF TypeOK, bizVars, rowVars, extVars
<1>5. Rows' = Rows
  BY <1>2 DEF Rows, rowVars
<1>6. RegisteredTogether' /\ NoPhantomEvent' /\ NothingLost' /\ WriterInv' /\ RetryInv'
  BY <1>2, <1>5
  DEF RelayInv, RegisteredTogether, NoPhantomEvent, NothingLost, WriterInv, RetryInv,
      bizVars, rowVars, extVars
<1>7. sent[r] = {} /\ failed[r] = {}
  BY DEF Scan, Working, InRound
<1>8. \A e \in rows : retry[e] < MaxRetry
  BY <1>3 DEF RelayInv, RetryInv
<1>9. RoundInv'
  <2> SUFFICES ASSUME NEW s \in Relays
               PROVE  /\ InRound(s)' \subseteq Rows
                      /\ \A e \in sent'[s] : arrivals'[e] > 0
                      /\ \A e \in InRound(s)' : seen'[s][e] < MaxRetry
    BY <1>5 DEF RoundInv
  <2>1. CASE s = r
    BY <2>1, <1>0, <1>1, <1>2, <1>3, <1>7, <1>8 DEF InRound, TypeOK
  <2>2. CASE s # r
    BY <2>2, <1>0, <1>1, <1>2 DEF RelayInv, RoundInv, InRound, TypeOK, extVars
  <2> QED
    BY <2>1, <2>2
<1> QED
  BY <1>4, <1>6, <1>9 DEF RelayInv

LEMMA AttemptStep ==
  ASSUME RelayInv, NEW r \in Relays, NEW e \in Events, Attempt(r, e)
  PROVE  RelayInv'
<1>0. TypeOK
  BY DEF RelayInv
<1>1. /\ e \in todo[r]
      /\ todo' = [todo EXCEPT ![r] = @ \ {e}]
      /\ UNCHANGED <<bizVars, rowVars, seen, age, kafkaUp>>
  BY DEF Attempt, SendOk, SendFail, SendAckLost, NextInRound, extVars
<1>2. /\ \/ arrivals' = [arrivals EXCEPT ![e] = arrivals[e] + 1]
         \/ arrivals' = arrivals /\ sent' = sent
      /\ sent' = sent \/ sent' = [sent EXCEPT ![r] = sent[r] \union {e}]
      /\ failed' = failed \/ failed' = [failed EXCEPT ![r] = failed[r] \union {e}]
  BY DEF Attempt, SendOk, SendFail, SendAckLost, extVars
<1>3. faults' \in Nat
  BY <1>0 DEF Attempt, SendOk, SendFail, SendAckLost, extVars, TypeOK
<1>4. TypeOK'
  <2>1. todo' \in [Relays -> SUBSET Events]
    BY <1>0, <1>1 DEF TypeOK
  <2>3. sent' \in [Relays -> SUBSET Events]
    BY <1>0, <1>2 DEF TypeOK
  <2>4. failed' \in [Relays -> SUBSET Events]
    BY <1>0, <1>2 DEF TypeOK
  <2>2. arrivals' \in [Events -> Nat]
    <3>1. arrivals \in [Events -> Nat]
      BY <1>0 DEF TypeOK
    <3>2. arrivals' = arrivals \/ arrivals' = [arrivals EXCEPT ![e] = arrivals[e] + 1]
      BY <1>2
    <3> QED
      BY <3>1, <3>2
  <2> QED
    BY <1>0, <1>1, <1>3, <2>1, <2>2, <2>3, <2>4 DEF TypeOK, bizVars, rowVars
<1>5. Rows' = Rows
  BY <1>1 DEF Rows, rowVars
<1>6. e \in Rows
  BY <1>1 DEF RelayInv, RoundInv, InRound
<1>7. \A f \in Events : /\ arrivals[f] > 0 => arrivals'[f] > 0
                        /\ f # e => arrivals'[f] = arrivals[f]
  BY <1>0, <1>2 DEF TypeOK
<1>8. NoPhantomEvent'
  BY <1>1, <1>6, <1>7 DEF RelayInv, RegisteredTogether, NoPhantomEvent, bizVars
<1>9. NothingLost'
  BY <1>1, <1>5, <1>7 DEF RelayInv, NothingLost, Rows, rowVars
<1>10. RegisteredTogether' /\ WriterInv' /\ RetryInv'
  BY <1>1, <1>5
  DEF RelayInv, RegisteredTogether, WriterInv, RetryInv, bizVars, rowVars
<1>11. \A s \in Relays : InRound(s)' \subseteq InRound(s)
  BY <1>0, <1>1, <1>2 DEF InRound, TypeOK
<1>12. \A s \in Relays : \A f \in sent'[s] : arrivals'[f] > 0
  BY <1>0, <1>2, <1>7 DEF RelayInv, RoundInv, TypeOK
<1>13. RoundInv'
  BY <1>1, <1>5, <1>11, <1>12 DEF RelayInv, RoundInv
<1> QED
  BY <1>4, <1>8, <1>9, <1>10, <1>13 DEF RelayInv

\* Ending a round empties it and leaves the rounds of the others as they are.
LEMMA EndRoundShape ==
  ASSUME TypeOK, NEW r \in Relays, EndRound(r)
  PROVE  /\ todo' \in [Relays -> SUBSET Events]
         /\ sent' \in [Relays -> SUBSET Events]
         /\ failed' \in [Relays -> SUBSET Events]
         /\ seen' \in [Relays -> [Events -> 0..MaxRetry]]
         /\ age' \in [Relays -> Nat]
         /\ \A s \in Relays : /\ InRound(s)' \subseteq InRound(s)
                              /\ sent'[s] \subseteq sent[s]
                              /\ \A e \in InRound(s)' : seen'[s] = seen[s]
BY OutboxAssumption DEF EndRound, TypeOK, InRound

LEMMA CrashStep ==
  ASSUME RelayInv, NEW r \in Relays, CrashRound(r)
  PROVE  RelayInv'
<1>0. TypeOK /\ EndRound(r)
  BY DEF RelayInv, CrashRound
<1>1. UNCHANGED <<bizVars, rowVars, arrivals, kafkaUp>>
  BY DEF CrashRound
<1>2. TypeOK'
  <2>1. faults' \in Nat
    BY <1>0 DEF CrashRound, TypeOK
  <2> QED
    BY <1>0, <1>1, <2>1, EndRoundShape DEF TypeOK, bizVars, rowVars
<1>3. Rows' = Rows
  BY <1>1 DEF Rows, rowVars
<1>4. RegisteredTogether' /\ NoPhantomEvent' /\ NothingLost' /\ WriterInv' /\ RetryInv'
  BY <1>1, <1>3
  DEF RelayInv, RegisteredTogether, NoPhantomEvent, NothingLost, WriterInv, RetryInv,
      bizVars, rowVars
<1>5. RoundInv'
  BY <1>0, <1>1, <1>3, EndRoundShape DEF RelayInv, RoundInv
<1> QED
  BY <1>2, <1>4, <1>5 DEF RelayInv

\* The commit of a round, which writes what the round read at its scan.
LEMMA CommitStep ==
  ASSUME RelayInv, NEW r \in Relays, CommitRound(r)
  PROVE  RelayInv'
<1>0. TypeOK /\ EndRound(r)
  BY DEF RelayInv, CommitRound
<1>1. \A e \in failed[r] : e \in Events /\ seen[r][e] \in 0..(MaxRetry - 1)
  BY <1>0, OutboxAssumption DEF RelayInv, RoundInv, InRound, TypeOK
<1>2. \A e \in failed[r] : TimeLeft(r, e) \in Nat
  BY <1>0, <1>1, OutboxAssumption DEF TimeLeft, TypeOK
<1>3. Exhausted(r) \subseteq failed[r] /\ failed[r] \subseteq Events
  BY <1>0 DEF Exhausted, TypeOK
<1>4. /\ status' \in [Events -> Status]
      /\ letters' \in [Events -> Nat]
  BY <1>0 DEF CommitRound, TypeOK, Status
<1>5. retry' \in [Events -> 0..MaxRetry]
  BY <1>0, <1>1, OutboxAssumption DEF CommitRound, TypeOK
<1>6. wait' \in [Events -> Nat]
  BY <1>0, <1>2 DEF CommitRound, TypeOK
<1>7. UNCHANGED <<bizVars, id, extVars>>
  BY DEF CommitRound
<1>8. TypeOK'
  BY <1>0, <1>4, <1>5, <1>6, <1>7, EndRoundShape DEF TypeOK, bizVars, extVars
<1>9. \A e \in Events : \/ status'[e] = status[e]
                        \/ e \in sent[r] /\ status'[e] = "delivered"
                        \/ e \in Exhausted(r) /\ status'[e] = "dead"
  BY DEF CommitRound
<1>10. sent[r] \subseteq Rows /\ failed[r] \subseteq Rows
  BY DEF RelayInv, RoundInv, InRound
<1>11. Rows' = Rows
  BY <1>0, <1>3, <1>9, <1>10 DEF Rows
<1>12. NothingLost'
  <2> SUFFICES ASSUME NEW e \in Rows
               PROVE  \/ status'[e] = "pending"
                      \/ status'[e] = "delivered" /\ arrivals'[e] > 0
                      \/ status'[e] = "dead" /\ letters'[e] > 0
    BY <1>11 DEF NothingLost
  <2>1. e \in Events
    BY DEF Rows
  <2>2. letters'[e] >= letters[e] /\ (e \in Exhausted(r) => letters'[e] > 0)
    BY <1>0, <2>1 DEF CommitRound, TypeOK
  <2>3. e \in sent[r] => arrivals[e] > 0
    BY DEF RelayInv, RoundInv
  <2>4. \/ status[e] = "pending"
        \/ status[e] = "delivered" /\ arrivals[e] > 0
        \/ status[e] = "dead" /\ letters[e] > 0
    BY DEF RelayInv, NothingLost
  <2>5. letters[e] \in Nat /\ letters'[e] \in Nat
    BY <1>0, <1>4, <2>1 DEF TypeOK
  <2> QED
    BY <1>7, <1>9, <2>1, <2>2, <2>3, <2>4, <2>5 DEF extVars
<1>13. RetryInv'
  <2> SUFFICES ASSUME NEW e \in Events, status'[e] \in {"none", "pending"}
               PROVE  retry'[e] < MaxRetry
    BY DEF RetryInv
  <2>1. status[e] \in {"none", "pending"} /\ e \notin Exhausted(r)
    BY <1>0 DEF CommitRound, TypeOK
  <2>2. CASE e \in failed[r]
    BY <2>1, <2>2, <1>1, OutboxAssumption DEF CommitRound, Exhausted
  <2>3. CASE e \notin failed[r]
    BY <2>1, <2>3 DEF CommitRound, RelayInv, RetryInv
  <2> QED
    BY <2>2, <2>3
<1>14. RegisteredTogether' /\ NoPhantomEvent' /\ WriterInv'
  BY <1>7, <1>11
  DEF RelayInv, RegisteredTogether, NoPhantomEvent, WriterInv, bizVars, extVars
<1>15. RoundInv'
  BY <1>0, <1>7, <1>11, EndRoundShape DEF RelayInv, RoundInv, extVars
<1> QED
  BY <1>8, <1>12, <1>13, <1>14, <1>15 DEF RelayInv

LEMMA EnvironmentStep ==
  ASSUME RelayInv, Tick \/ KafkaToggle \/ UNCHANGED vars
  PROVE  RelayInv'
<1>0. TypeOK
  BY DEF RelayInv
<1>1. UNCHANGED <<biz, txn, id, status, retry, letters, todo, seen, sent, failed, arrivals, faults>>
  BY DEF Tick, KafkaToggle, vars, bizVars, rowVars, roundVars, extVars
<1>2. wait' \in [Events -> Nat] /\ age' \in [Relays -> Nat] /\ kafkaUp' \in BOOLEAN
  <2>1. CASE Tick
    BY <2>1, <1>0 DEF Tick, TypeOK, extVars
  <2>2. CASE KafkaToggle \/ UNCHANGED vars
    BY <2>2, <1>0 DEF KafkaToggle, TypeOK, vars, rowVars, roundVars, extVars
  <2> QED
    BY <2>1, <2>2
<1>3. TypeOK'
  BY <1>0, <1>1, <1>2 DEF TypeOK
<1>4. WriterInv'
  BY <1>1 DEF RelayInv, WriterInv, Rows
<1> QED
  BY <1>1, <1>3, <1>4, QuietStep

LEMMA RelayInvNext == RelayInv /\ [Next]_vars => RelayInv'
BY EnqueueStep, CommitBusinessStep, DropBusinessStep, ScanStep, AttemptStep, CrashStep,
   CommitStep, EnvironmentStep
DEF Next

\* The inductive invariant holds for any number of writers and relays.
THEOREM RelayInvariant == Spec => []RelayInv
BY RelayInvInit, RelayInvNext, PTL DEF Spec

\* Every column, every transaction and every round has its type.
THEOREM TypeCorrect == Spec => []TypeOK
<1>1. RelayInv => TypeOK
  BY DEF RelayInv
<1> QED
  BY <1>1, RelayInvariant, PTL

\* enqueue() and session_scope(): business and message commit together.
THEOREM Atomicity == Spec => []RegisteredTogether
<1>1. RelayInv => RegisteredTogether
  BY DEF RelayInv
<1> QED
  BY <1>1, RelayInvariant, PTL

\* The broker holds only events of committed business.
THEOREM NoPhantom == Spec => []NoPhantomEvent
<1>1. RelayInv => NoPhantomEvent
  BY DEF RelayInv
<1> QED
  BY <1>1, RelayInvariant, PTL

\* However many relays overwrite each other, a message leaves the backlog
\* only with a copy at the broker or with a dead letter.
THEOREM NoMessageLost == Spec => []NothingLost
<1>1. RelayInv => NothingLost
  BY DEF RelayInv
<1> QED
  BY <1>1, RelayInvariant, PTL

-----------------------------------------------------------------------------
(* How many copies of a message arrive, with any number of relays.         *)

\* The relays that have message e before them, and those that sent it and
\* have not committed.
Ahead(e) == {r \in Relays : e \in todo[r]}
Past(e)  == {r \in Relays : e \in sent[r]}

\* While a message is pending, each copy is known to a relay that has not
\* committed, or was a fault.  A settled one is not selected again, and only the
\* relays that have it before them can send it.
Accounted(e) ==
    IF status[e] \in {"none", "pending"}
    THEN arrivals[e] <= Cardinality(Past(e)) + faults
    ELSE arrivals[e] + Cardinality(Ahead(e)) <= Cardinality(Relays) + faults

CopiesInv ==
    /\ \A r \in Relays, e \in Events : ~(e \in todo[r] /\ e \in sent[r])
    /\ \A e \in Events : Accounted(e)

LEMMA CountOfRelays ==
  ASSUME NEW S \in SUBSET Relays
  PROVE  /\ IsFiniteSet(S)
         /\ Cardinality(S) \in Nat
         /\ Cardinality(Relays) \in Nat
         /\ Cardinality(S) <= Cardinality(Relays)
  BY FS_Subset, FS_CardinalityType, OutboxAssumption

\* A relay has a message before it or has sent it, not both.
LEMMA AheadOrPast ==
  ASSUME CopiesInv, NEW e \in Events
  PROVE  Cardinality(Ahead(e)) + Cardinality(Past(e)) <= Cardinality(Relays)
<1>1. Ahead(e) \in SUBSET Relays /\ Past(e) \in SUBSET Relays
  BY DEF Ahead, Past
<1>2. Ahead(e) \intersect Past(e) = {}
  BY DEF Ahead, Past, CopiesInv
<1>3. IsFiniteSet(Ahead(e)) /\ IsFiniteSet(Past(e))
  BY <1>1, CountOfRelays
<1>4. Cardinality(Ahead(e) \union Past(e))
         = Cardinality(Ahead(e)) + Cardinality(Past(e)) - Cardinality({})
  BY <1>2, <1>3, FS_Union
<1>5. Cardinality({}) = 0
  BY FS_EmptySet
<1>6. Ahead(e) \union Past(e) \in SUBSET Relays
  BY <1>1
<1>7. Cardinality(Ahead(e) \union Past(e)) <= Cardinality(Relays)
  BY <1>6, CountOfRelays
<1> QED
  BY <1>1, <1>4, <1>5, <1>7, CountOfRelays

\* What must be seen of a step to know that message e stays accounted for.
LEMMA StaysAccounted ==
  ASSUME TypeOK, TypeOK', CopiesInv, NEW e \in Events,
         arrivals'[e] = arrivals[e], faults' >= faults,
         Ahead(e)' \subseteq Ahead(e),
         status'[e] \in {"none", "pending"} =>
            /\ status[e] \in {"none", "pending"}
            /\ Cardinality(Past(e)) + faults <= Cardinality(Past(e)') + faults'
  PROVE  Accounted(e)'
<1>1. /\ Ahead(e) \in SUBSET Relays /\ Past(e) \in SUBSET Relays
      /\ Ahead(e)' \in SUBSET Relays /\ Past(e)' \in SUBSET Relays
  BY DEF Ahead, Past
<1>2. /\ Cardinality(Ahead(e)) \in Nat /\ Cardinality(Past(e)) \in Nat
      /\ Cardinality(Ahead(e)') \in Nat /\ Cardinality(Past(e)') \in Nat
      /\ Cardinality(Relays) \in Nat /\ IsFiniteSet(Ahead(e))
  BY <1>1, CountOfRelays
<1>3. Cardinality(Ahead(e)') <= Cardinality(Ahead(e))
  BY <1>2, FS_Subset
<1>4. /\ faults \in Nat /\ faults' \in Nat /\ arrivals[e] \in Nat /\ arrivals'[e] \in Nat
  BY DEF TypeOK
<1>5. Accounted(e)
  BY DEF CopiesInv
<1>6. CASE status'[e] \in {"none", "pending"}
  <2>1. arrivals[e] <= Cardinality(Past(e)) + faults
    BY <1>5, <1>6 DEF Accounted
  <2>2. arrivals'[e] <= Cardinality(Past(e)') + faults'
    BY <1>2, <1>4, <1>6, <2>1
  <2> QED
    BY <1>6, <2>2 DEF Accounted, Past
<1>7. CASE status'[e] \notin {"none", "pending"}
  <2>1. arrivals[e] + Cardinality(Ahead(e)) <= Cardinality(Relays) + faults
    <3>1. CASE status[e] \in {"none", "pending"}
      BY <1>2, <1>4, <1>5, <3>1, AheadOrPast DEF Accounted
    <3>2. CASE status[e] \notin {"none", "pending"}
      BY <1>5, <3>2 DEF Accounted
    <3> QED
      BY <3>1, <3>2
  <2>2. arrivals'[e] + Cardinality(Ahead(e)') <= Cardinality(Relays) + faults'
    BY <1>2, <1>3, <1>4, <2>1
  <2> QED
    BY <1>7, <2>2 DEF Accounted, Ahead
<1> QED
  BY <1>6, <1>7

LEMMA CopiesInvInit == Init => CopiesInv
<1> SUFFICES ASSUME Init PROVE CopiesInv
  OBVIOUS
<1>1. \A e \in Events : status[e] = "none" /\ arrivals[e] = 0 /\ Past(e) = {} /\ faults = 0
  BY DEF Init, Past
<1>2. \A r \in Relays : todo[r] = {}
  BY DEF Init
<1> QED
  BY <1>1, <1>2, FS_EmptySet DEF CopiesInv, Accounted

\* A step that sends nothing and ends no round; a message may become pending.
LEMMA NoSendStep ==
  ASSUME TypeOK, TypeOK', CopiesInv, UNCHANGED <<arrivals, todo, sent, faults>>,
         \A e \in Events : \/ status'[e] = status[e]
                           \/ status[e] \in {"none", "pending"}
  PROVE  CopiesInv'
<1>1. ASSUME NEW e \in Events PROVE Accounted(e)'
  <2>1. Ahead(e)' = Ahead(e) /\ Past(e)' = Past(e)
    BY DEF Ahead, Past
  <2>2. Past(e) \in SUBSET Relays
    BY DEF Past
  <2>3. Cardinality(Past(e)) \in Nat /\ faults \in Nat
    BY <2>2, CountOfRelays DEF TypeOK
  <2> QED
    BY <2>1, <2>3, StaysAccounted
<1> QED
  BY <1>1 DEF CopiesInv

LEMMA BusinessCopiesStep ==
  ASSUME RelayInv, TypeOK', CopiesInv, NEW w \in Writers, CommitBusiness(w)
  PROVE  CopiesInv'
<1>0. TypeOK
  BY DEF RelayInv
<1>1. UNCHANGED <<arrivals, todo, sent, faults>>
  BY DEF CommitBusiness, roundVars, extVars
<1>2. \A e \in Events : status'[e] = status[e] \/ status[e] = "none"
  <2>1. CASE txn[w].adds = 1
    <3>1. \A e \in txn[w].event : status[e] = "none"
      BY <1>0, <2>1, AddedRowIsNew
    <3> QED
      BY <2>1, <3>1 DEF CommitBusiness
  <2>2. CASE txn[w].adds # 1
    BY <2>2 DEF CommitBusiness
  <2> QED
    BY <2>1, <2>2
<1> QED
  BY <1>0, <1>1, <1>2, NoSendStep

LEMMA ScanCopiesStep ==
  ASSUME TypeOK, TypeOK', CopiesInv, NEW r \in Relays, Scan(r)
  PROVE  CopiesInv'
<1>1. UNCHANGED <<status, arrivals, sent, faults>> /\ sent[r] = {}
  BY DEF Scan, rowVars, extVars, Working, InRound
<1>2. PICK rows \in SUBSET Due : todo' = [todo EXCEPT ![r] = rows]
  BY DEF Scan
<1>3. ASSUME NEW e \in Events PROVE Accounted(e)'
  <2>1. Past(e)' = Past(e) /\ Past(e) \in SUBSET Relays
    BY <1>1 DEF Past
  <2>2. Cardinality(Past(e)) \in Nat /\ faults \in Nat
    BY <2>1, CountOfRelays DEF TypeOK
  <2>3. CASE status[e] = "pending"
    BY <1>1, <2>1, <2>3 DEF CopiesInv, Accounted
  <2>4. CASE status[e] # "pending"
    <3>1. Ahead(e)' \subseteq Ahead(e)
      BY <1>2, <2>4 DEF Ahead, Due, TypeOK
    <3> QED
      BY <1>1, <2>1, <2>2, <3>1, StaysAccounted
  <2> QED
    BY <2>3, <2>4
<1>4. \A s \in Relays, e \in Events : ~(e \in todo'[s] /\ e \in sent'[s])
  BY <1>1, <1>2 DEF CopiesInv, TypeOK
<1> QED
  BY <1>3, <1>4 DEF CopiesInv

LEMMA AttemptCopiesStep ==
  ASSUME TypeOK, TypeOK', CopiesInv, NEW r \in Relays, NEW e \in Events, Attempt(r, e)
  PROVE  CopiesInv'
<1>1. /\ status' = status
      /\ todo' = [todo EXCEPT ![r] = @ \ {e}]
      /\ e \in todo[r] /\ e \notin sent[r]
      /\ faults \in Nat /\ faults' \in Nat
  BY DEF Attempt, SendOk, SendFail, SendAckLost, NextInRound, rowVars, CopiesInv, TypeOK
<1>2. \/ /\ arrivals' = [arrivals EXCEPT ![e] = @ + 1]
         /\ sent' = [sent EXCEPT ![r] = @ \union {e}]
         /\ faults' = faults
      \/ /\ arrivals' = [arrivals EXCEPT ![e] = @ + 1]
         /\ sent' = sent
         /\ faults' = faults + 1
      \/ arrivals' = arrivals /\ sent' = sent /\ faults' = faults
  BY DEF Attempt, SendOk, SendFail, SendAckLost, extVars
<1>3. ASSUME NEW f \in Events
      PROVE  /\ Ahead(f) \in SUBSET Relays /\ Past(f) \in SUBSET Relays
             /\ Cardinality(Ahead(f)) \in Nat /\ Cardinality(Past(f)) \in Nat
             /\ IsFiniteSet(Ahead(f)) /\ IsFiniteSet(Past(f))
             /\ Cardinality(Relays) \in Nat
  <2>1. Ahead(f) \in SUBSET Relays /\ Past(f) \in SUBSET Relays
    BY DEF Ahead, Past
  <2> QED
    BY <2>1, CountOfRelays
<1>4. ASSUME NEW f \in Events \ {e} PROVE Accounted(f)'
  <2>1. Ahead(f)' = Ahead(f)
    BY <1>1 DEF Ahead, TypeOK
  <2>2. Past(f)' = Past(f)
    <3>1. \A s \in Relays : f \in sent'[s] <=> f \in sent[s]
      <4>1. CASE sent' = sent
        BY <4>1
      <4>2. CASE sent' = [sent EXCEPT ![r] = @ \union {e}]
        BY <4>2 DEF TypeOK
      <4> QED
        BY <1>2, <4>1, <4>2
    <3> QED
      BY <3>1 DEF Past
  <2>3. arrivals'[f] = arrivals[f] /\ faults' >= faults
    BY <1>1, <1>2 DEF TypeOK
  <2> QED
    BY <1>1, <1>3, <2>1, <2>2, <2>3, StaysAccounted
<1>5. Accounted(e)'
  <2>1. Ahead(e)' = Ahead(e) \ {r} /\ r \in Ahead(e) /\ r \notin Past(e)
    BY <1>1 DEF Ahead, Past, TypeOK
  <2>2. Cardinality(Ahead(e)') = Cardinality(Ahead(e)) - 1
    BY <1>3, <2>1, FS_RemoveElement
  <2>3. \/ /\ arrivals'[e] = arrivals[e] + 1
           /\ Cardinality(Past(e)') = Cardinality(Past(e)) + 1
           /\ faults' = faults
        \/ /\ arrivals'[e] = arrivals[e] + 1
           /\ Cardinality(Past(e)') = Cardinality(Past(e))
           /\ faults' = faults + 1
        \/ /\ arrivals'[e] = arrivals[e]
           /\ Cardinality(Past(e)') = Cardinality(Past(e))
           /\ faults' = faults
    <3>1. CASE /\ arrivals' = [arrivals EXCEPT ![e] = @ + 1]
               /\ sent' = [sent EXCEPT ![r] = @ \union {e}]
               /\ faults' = faults
      <4>1. Past(e)' = Past(e) \union {r}
        BY <3>1 DEF Past, TypeOK
      <4>2. Cardinality(Past(e)') = Cardinality(Past(e)) + 1
        BY <1>3, <2>1, <4>1, FS_AddElement
      <4> QED
        BY <3>1, <4>2 DEF TypeOK
    <3>2. CASE /\ arrivals' = [arrivals EXCEPT ![e] = @ + 1]
               /\ sent' = sent
               /\ faults' = faults + 1
      BY <3>2 DEF Past, TypeOK
    <3>3. CASE arrivals' = arrivals /\ sent' = sent /\ faults' = faults
      BY <3>3 DEF Past, TypeOK
    <3> QED
      BY <1>2, <3>1, <3>2, <3>3
  <2>4. arrivals[e] \in Nat
    BY DEF TypeOK
  <2>5. Accounted(e)
    BY DEF CopiesInv
  <2>6. CASE status[e] \in {"none", "pending"}
    <3>1. arrivals'[e] <= Cardinality(Past(e)') + faults'
      BY <1>1, <1>3, <2>3, <2>4, <2>5, <2>6 DEF Accounted
    <3> QED
      BY <1>1, <2>6, <3>1 DEF Accounted, Past
  <2>7. CASE status[e] \notin {"none", "pending"}
    <3>1. arrivals[e] + Cardinality(Ahead(e)) <= Cardinality(Relays) + faults
      BY <2>5, <2>7 DEF Accounted
    <3>2. arrivals'[e] + Cardinality(Ahead(e)') <= Cardinality(Relays) + faults'
      BY <1>1, <1>3, <2>2, <2>3, <2>4, <3>1
    <3> QED
      BY <1>1, <2>7, <3>2 DEF Accounted, Ahead
  <2> QED
    BY <2>6, <2>7
<1>6. \A s \in Relays, f \in Events : ~(f \in todo'[s] /\ f \in sent'[s])
  BY <1>1, <1>2 DEF CopiesInv, TypeOK
<1> QED
  BY <1>4, <1>5, <1>6 DEF CopiesInv

\* A round that ends has nothing before it any more.
LEMMA EndCopies ==
  ASSUME TypeOK, CopiesInv, NEW r \in Relays, EndRound(r)
  PROVE  /\ \A e \in Events : /\ Ahead(e)' \subseteq Ahead(e)
                              /\ Past(e)' = Past(e) \ {r}
                              /\ IsFiniteSet(Past(e)) /\ Cardinality(Past(e)) \in Nat
         /\ \A s \in Relays, e \in Events : ~(e \in todo'[s] /\ e \in sent'[s])
<1>1. \A e \in Events : Past(e) \in SUBSET Relays
  BY DEF Past
<1>2. \A e \in Events : IsFiniteSet(Past(e)) /\ Cardinality(Past(e)) \in Nat
  BY <1>1, CountOfRelays
<1>3. \A e \in Events : Ahead(e)' \subseteq Ahead(e) /\ Past(e)' = Past(e) \ {r}
  BY DEF EndRound, TypeOK, Ahead, Past
<1>4. \A s \in Relays, e \in Events : ~(e \in todo'[s] /\ e \in sent'[s])
  BY DEF EndRound, TypeOK, CopiesInv
<1> QED
  BY <1>2, <1>3, <1>4

LEMMA CommitCopiesStep ==
  ASSUME TypeOK, TypeOK', CopiesInv, NEW r \in Relays, CommitRound(r)
  PROVE  CopiesInv'
<1>1. UNCHANGED <<arrivals, faults>> /\ EndRound(r) /\ faults \in Nat
  BY DEF CommitRound, extVars, TypeOK
<1>2. ASSUME NEW e \in Events PROVE Accounted(e)'
  <2>1. status'[e] \in {"none", "pending"} => status'[e] = status[e] /\ r \notin Past(e)
    BY DEF CommitRound, Past
  <2>2. r \notin Past(e) => Past(e)' = Past(e)
    BY <1>1, EndCopies
  <2> QED
    BY <1>1, <2>1, <2>2, EndCopies, StaysAccounted
<1> QED
  BY <1>1, <1>2, EndCopies DEF CopiesInv

LEMMA CrashCopiesStep ==
  ASSUME TypeOK, TypeOK', CopiesInv, NEW r \in Relays, CrashRound(r)
  PROVE  CopiesInv'
<1>1. /\ UNCHANGED <<arrivals, status>> /\ EndRound(r)
      /\ faults' = faults + 1 /\ faults \in Nat
  BY DEF CrashRound, TypeOK, rowVars
<1>2. ASSUME NEW e \in Events PROVE Accounted(e)'
  <2>0. /\ IsFiniteSet(Past(e)) /\ Cardinality(Past(e)) \in Nat
        /\ Past(e)' = Past(e) \ {r}
    BY <1>1, EndCopies
  <2>1. /\ IsFiniteSet(Past(e) \ {r})
        /\ Cardinality(Past(e)) <= Cardinality(Past(e) \ {r}) + 1
    <3>1. /\ IsFiniteSet(Past(e) \ {r})
          /\ Cardinality(Past(e) \ {r}) = IF r \in Past(e) THEN Cardinality(Past(e)) - 1
                                                         ELSE Cardinality(Past(e))
      BY <2>0, FS_RemoveElement
    <3> QED
      BY <2>0, <3>1
  <2>2. Cardinality(Past(e) \ {r}) \in Nat
    BY <2>1, FS_CardinalityType
  <2>3. Cardinality(Past(e)) + faults <= Cardinality(Past(e)') + faults'
    BY <1>1, <2>0, <2>1, <2>2
  <2> QED
    BY <1>1, <2>3, EndCopies, StaysAccounted
<1> QED
  BY <1>1, <1>2, EndCopies DEF CopiesInv

LEMMA CopiesInvStep == RelayInv /\ RelayInv' /\ CopiesInv /\ [Next]_vars => CopiesInv'
<1> SUFFICES ASSUME RelayInv, RelayInv', CopiesInv, [Next]_vars PROVE CopiesInv'
  OBVIOUS
<1>0. TypeOK /\ TypeOK'
  BY DEF RelayInv
<1>1. CASE UNCHANGED <<status, arrivals, todo, sent, faults>>
  BY <1>0, <1>1, NoSendStep
<1>2. ASSUME NEW w \in Writers,
             \/ \E e \in Events : Enqueue(w, e)
             \/ RejectBusiness(w)
             \/ AbortBusiness(w)
      PROVE  CopiesInv'
  BY <1>1, <1>2
  DEF Enqueue, RejectBusiness, AbortBusiness, rowVars, roundVars, extVars
<1>3. CASE Tick \/ KafkaToggle \/ UNCHANGED vars
  BY <1>1, <1>3 DEF Tick, KafkaToggle, vars, rowVars, roundVars, extVars
<1> QED
  BY <1>0, <1>2, <1>3, BusinessCopiesStep, ScanCopiesStep, AttemptCopiesStep,
     CommitCopiesStep, CrashCopiesStep DEF Next

\* With any number of relays that overwrite each other, the broker gets at
\* most one copy from each of them and one for each crash or lost answer.
THEOREM DuplicatesBounded == Spec => []DuplicatesAccounted
<1>1. RelayInv /\ CopiesInv => DuplicatesAccounted
  <2> SUFFICES ASSUME RelayInv, CopiesInv, NEW e \in Events
               PROVE  arrivals[e] <= Cardinality(Relays) + faults
    BY DEF DuplicatesAccounted
  <2>1. Accounted(e)
    BY DEF CopiesInv
  <2>2. Ahead(e) \in SUBSET Relays /\ Past(e) \in SUBSET Relays
    BY DEF Ahead, Past
  <2>3. arrivals[e] \in Nat /\ faults \in Nat
    BY DEF RelayInv, TypeOK
  <2>4. /\ Cardinality(Ahead(e)) \in Nat /\ Cardinality(Past(e)) \in Nat
        /\ Cardinality(Relays) \in Nat /\ Cardinality(Past(e)) <= Cardinality(Relays)
    BY <2>2, CountOfRelays
  <2> QED
    BY <2>1, <2>3, <2>4 DEF Accounted
<1>2. Init => CopiesInv
  BY CopiesInvInit
<1>3. RelayInv /\ RelayInv' /\ CopiesInv /\ [Next]_vars => CopiesInv'
  BY CopiesInvStep
<1> QED
  BY <1>1, <1>2, <1>3, RelayInvariant, PTL DEF Spec

-----------------------------------------------------------------------------
(* One relay, the deployment outbox.py is written for.                     *)

\* What the round of a sole relay read is still what the rows hold, so its
\* commit overwrites nothing, and the three parts of a round are disjoint.
RoundCurrent(r) ==
    /\ \A e \in InRound(r) : status[e] = "pending" /\ seen[r][e] = retry[e]
    /\ todo[r] \cap sent[r] = {}
    /\ todo[r] \cap failed[r] = {}
    /\ sent[r] \cap failed[r] = {}

SoleInv(r) ==
    /\ RelayInv
    /\ RoundCurrent(r)
    /\ OneLetterPerDeadMessage

LEMMA SoleInit ==
  ASSUME NEW r, Relays = {r}, Init
  PROVE  SoleInv(r)
<1>1. RelayInv
  BY RelayInvInit
<1> QED
  BY <1>1, OutboxAssumption
  DEF Init, SoleInv, RoundCurrent, OneLetterPerDeadMessage, InRound

LEMMA SoleBusiness ==
  ASSUME NEW r, Relays = {r}, SoleInv(r), NEW w \in Writers,
         \/ \E e \in Events : Enqueue(w, e)
         \/ CommitBusiness(w)
         \/ RejectBusiness(w)
         \/ AbortBusiness(w)
  PROVE  RoundCurrent(r)' /\ OneLetterPerDeadMessage'
<1>0. TypeOK /\ RelayInv
  BY DEF SoleInv, RelayInv
<1>1. UNCHANGED <<retry, letters, todo, seen, sent, failed, arrivals, faults>>
  BY DEF Enqueue, CommitBusiness, RejectBusiness, AbortBusiness, rowVars, roundVars, extVars
<1>2. \A e \in Events : \/ status'[e] = status[e]
                        \/ status[e] = "none" /\ status'[e] = "pending"
  <2>1. CASE CommitBusiness(w)
    <3>1. txn[w].adds = 1 => \A e \in txn[w].event : status[e] = "none"
      BY <1>0, <2>1, AddedRowIsNew
    <3> QED
      BY <2>1, <3>1 DEF CommitBusiness
  <2>2. CASE ~CommitBusiness(w)
    BY <2>2 DEF Enqueue, RejectBusiness, AbortBusiness, rowVars
  <2> QED
    BY <2>1, <2>2
<1>3. InRound(r)' = InRound(r) /\ InRound(r) \subseteq Events
  BY <1>0, <1>1 DEF InRound, TypeOK
<1> QED
  BY <1>0, <1>1, <1>2, <1>3
  DEF SoleInv, RoundCurrent, OneLetterPerDeadMessage

LEMMA SoleScan ==
  ASSUME NEW r, Relays = {r}, SoleInv(r), Scan(r)
  PROVE  RoundCurrent(r)' /\ OneLetterPerDeadMessage'
<1>0. TypeOK
  BY DEF SoleInv, RelayInv
<1>1. PICK rows \in SUBSET Due : todo' = [todo EXCEPT ![r] = rows]
  BY DEF Scan
<1>2. UNCHANGED <<status, retry, letters, sent, failed, arrivals, faults>>
  BY DEF Scan, rowVars, extVars
<1>3. sent[r] = {} /\ failed[r] = {} /\ todo'[r] = rows /\ seen'[r] = retry
  BY <1>0, <1>1 DEF Scan, Working, InRound, TypeOK
<1>4. \A e \in rows : status[e] = "pending"
  BY DEF Due
<1> QED
  BY <1>2, <1>3, <1>4
  DEF SoleInv, RoundCurrent, OneLetterPerDeadMessage, InRound

LEMMA SoleAttempt ==
  ASSUME NEW r, Relays = {r}, SoleInv(r), NEW e \in Events, Attempt(r, e)
  PROVE  RoundCurrent(r)' /\ OneLetterPerDeadMessage'
<1>0. TypeOK
  BY DEF SoleInv, RelayInv
<1>1. UNCHANGED <<status, retry, letters, seen>>
  BY DEF Attempt, SendOk, SendFail, SendAckLost, rowVars
<1>2. e \in todo[r] /\ todo'[r] = todo[r] \ {e}
  BY <1>0 DEF Attempt, SendOk, SendFail, SendAckLost, NextInRound, TypeOK
<1>3. \/ sent'[r] = sent[r] \union {e} /\ failed' = failed
      \/ failed'[r] = failed[r] \union {e} /\ sent' = sent
  BY <1>0 DEF Attempt, SendOk, SendFail, SendAckLost, TypeOK
<1>4. RoundCurrent(r)'
  BY <1>1, <1>2, <1>3 DEF SoleInv, RoundCurrent, InRound
<1>5. OneLetterPerDeadMessage'
  BY <1>1 DEF SoleInv, OneLetterPerDeadMessage
<1> QED
  BY <1>4, <1>5

LEMMA SoleCrash ==
  ASSUME NEW r, Relays = {r}, SoleInv(r), CrashRound(r)
  PROVE  RoundCurrent(r)' /\ OneLetterPerDeadMessage'
<1>0. TypeOK
  BY DEF SoleInv, RelayInv
<1>1. UNCHANGED <<status, retry, letters>>
  BY DEF CrashRound, rowVars
<1>2. todo'[r] = {} /\ sent'[r] = {} /\ failed'[r] = {}
  BY <1>0 DEF CrashRound, EndRound, TypeOK
<1> QED
  BY <1>1, <1>2 DEF SoleInv, RoundCurrent, OneLetterPerDeadMessage, InRound

LEMMA SoleCommit ==
  ASSUME NEW r, Relays = {r}, SoleInv(r), CommitRound(r)
  PROVE  RoundCurrent(r)' /\ OneLetterPerDeadMessage'
<1>0. TypeOK
  BY DEF SoleInv, RelayInv
<1>1. todo'[r] = {} /\ sent'[r] = {} /\ failed'[r] = {}
  BY <1>0 DEF CommitRound, EndRound, TypeOK
<1>2. RoundCurrent(r)'
  BY <1>1 DEF RoundCurrent, InRound
<1>3. OneLetterPerDeadMessage'
  <2> SUFFICES ASSUME NEW e \in Events
               PROVE  IF status'[e] = "dead" THEN letters'[e] = 1 /\ retry'[e] = MaxRetry
                                             ELSE letters'[e] = 0 /\ retry'[e] < MaxRetry
    BY DEF OneLetterPerDeadMessage
  <2>1. IF status[e] = "dead" THEN letters[e] = 1 /\ retry[e] = MaxRetry
                              ELSE letters[e] = 0 /\ retry[e] < MaxRetry
    BY DEF SoleInv, OneLetterPerDeadMessage
  <2>2. MaxRetry \in Nat /\ retry[e] \in Nat
    BY <1>0, OutboxAssumption DEF TypeOK
  <2>3. CASE e \in failed[r]
    <3>1. e \notin sent[r] /\ status[e] = "pending" /\ seen[r][e] = retry[e]
      BY <2>3 DEF SoleInv, RoundCurrent, InRound
    <3>2. e \in Exhausted(r) <=> retry[e] + 1 >= MaxRetry
      BY <2>3, <3>1 DEF Exhausted
    <3> QED
      BY <2>1, <2>2, <2>3, <3>1, <3>2 DEF CommitRound
  <2>4. CASE e \notin failed[r]
    <3>1. e \notin Exhausted(r)
      BY <2>4 DEF Exhausted
    <3>2. e \in sent[r] => status[e] = "pending"
      BY DEF SoleInv, RoundCurrent, InRound
    <3> QED
      BY <2>1, <2>4, <3>1, <3>2 DEF CommitRound
  <2> QED
    BY <2>3, <2>4
<1> QED
  BY <1>2, <1>3

LEMMA SoleEnvironment ==
  ASSUME NEW r, Relays = {r}, SoleInv(r), Tick \/ KafkaToggle \/ UNCHANGED vars
  PROVE  RoundCurrent(r)' /\ OneLetterPerDeadMessage'
<1>1. UNCHANGED <<status, retry, letters, todo, seen, sent, failed, arrivals, faults>>
  BY DEF Tick, KafkaToggle, vars, rowVars, roundVars, extVars
<1> QED
  BY <1>1 DEF SoleInv, RoundCurrent, OneLetterPerDeadMessage, InRound

LEMMA SoleNext ==
  ASSUME NEW r, Relays = {r}
  PROVE  SoleInv(r) /\ [Next]_vars => SoleInv(r)'
<1> SUFFICES ASSUME SoleInv(r), [Next]_vars PROVE SoleInv(r)'
  OBVIOUS
<1>1. RelayInv'
  BY RelayInvNext DEF SoleInv
<1>2. RoundCurrent(r)' /\ OneLetterPerDeadMessage'
  BY SoleBusiness, SoleScan, SoleAttempt, SoleCrash, SoleCommit, SoleEnvironment DEF Next
<1> QED
  BY <1>1, <1>2 DEF SoleInv

\* The invariant that a sole relay adds to RelayInv.
THEOREM SoleInvariant ==
  ASSUME NEW CONSTANT r, Relays = {r}
  PROVE  Spec => []SoleInv(r)
<1>1. Init => SoleInv(r)
  BY SoleInit
<1>2. SoleInv(r) /\ [Next]_vars => SoleInv(r)'
  BY SoleNext
<1> QED
  BY <1>1, <1>2, PTL DEF Spec

\* With one relay, one dead letter per dead message, after MAX_RETRY failures.
THEOREM DeadLetterOnce ==
  ASSUME NEW CONSTANT r, Relays = {r}
  PROVE  Spec => []OneLetterPerDeadMessage
<1>1. SoleInv(r) => OneLetterPerDeadMessage
  BY DEF SoleInv
<1> QED
  BY <1>1, SoleInvariant, PTL

-----------------------------------------------------------------------------
(* One relay implements the contract.                                      *)

ArrivedSet == {e \in Events : arrivals[e] > 0}

LEMMA ContractInit == Init => Contract!CInit
BY DEF Init, Contract!CInit

LEMMA ContractStep ==
  ASSUME NEW r, Relays = {r}, SoleInv(r), [Next]_vars
  PROVE  [Contract!CNext]_(Contract!cvars)
<1> USE DEF ArrivedSet
<1>0. TypeOK /\ RelayInv
  BY DEF SoleInv, RelayInv
<1>1. ASSUME NEW w \in Writers, CommitBusiness(w)
      PROVE  Contract!CNext \/ UNCHANGED <<status, ArrivedSet>>
  <2>1. UNCHANGED ArrivedSet
    BY <1>1 DEF CommitBusiness, extVars
  <2>2. CASE txn[w].adds = 1
    <3>1. txn[w].event \in {{}} \union {{e} : e \in Events}
      BY <1>0 DEF TypeOK
    <3>2. CASE txn[w].event = {}
      BY <1>0, <1>1, <2>1, <3>2 DEF CommitBusiness, TypeOK
    <3>3. ASSUME NEW e \in Events, txn[w].event = {e}
          PROVE  Contract!Register(e)
      <4>1. status[e] = "none"
        BY <1>1, <2>2, <3>3 DEF CommitBusiness, Conflict, Rows
      <4>2. status' = [status EXCEPT ![e] = "pending"]
        BY <1>0, <1>1, <2>2, <3>3 DEF CommitBusiness, TypeOK
      <4> QED
        BY <2>1, <4>1, <4>2 DEF Contract!Register
    <3> QED
      BY <3>1, <3>2, <3>3 DEF Contract!CNext
  <2>3. CASE txn[w].adds # 1
    BY <1>0, <1>1, <2>1, <2>3 DEF CommitBusiness, TypeOK
  <2> QED
    BY <2>2, <2>3
<1>2. ASSUME NEW e \in Events, Attempt(r, e)
      PROVE  Contract!CNext \/ UNCHANGED <<status, ArrivedSet>>
  <2>1. status[e] = "pending" /\ UNCHANGED status
    BY <1>2
    DEF Attempt, SendOk, SendFail, SendAckLost, NextInRound, rowVars, SoleInv,
        RoundCurrent, InRound
  <2>2. CASE arrivals' = [arrivals EXCEPT ![e] = arrivals[e] + 1]
    <3>1. ArrivedSet' = ArrivedSet \union {e}
      BY <1>0, <2>2 DEF TypeOK
    <3> QED
      BY <2>1, <3>1 DEF Contract!CNext, Contract!Arrive
  <2>3. CASE UNCHANGED arrivals
    BY <2>1, <2>3
  <2> QED
    BY <1>2, <2>2, <2>3 DEF Attempt, SendOk, SendFail, SendAckLost, extVars
<1>3. ASSUME CommitRound(r)
      PROVE  Contract!CNext
  <2>1. sent[r] \in SUBSET Events /\ Exhausted(r) \in SUBSET Events
    BY <1>0 DEF TypeOK, Exhausted
  <2>2. \A e \in sent[r] \union Exhausted(r) : status[e] = "pending"
    BY DEF SoleInv, RoundCurrent, InRound, Exhausted
  <2>3. sent[r] \subseteq ArrivedSet
    BY <1>0, <2>1 DEF RelayInv, RoundInv
  <2>4. UNCHANGED ArrivedSet
    BY <1>3 DEF CommitRound, extVars
  <2>5. Contract!Settle(sent[r], Exhausted(r))
    BY <1>3, <2>2, <2>3, <2>4 DEF CommitRound, Contract!Settle
  <2> QED
    BY <2>1, <2>5 DEF Contract!CNext
<1>4. CASE \/ \E w \in Writers : \/ \E e \in Events : Enqueue(w, e)
                                 \/ RejectBusiness(w)
                                 \/ AbortBusiness(w)
           \/ Scan(r) \/ CrashRound(r) \/ Tick \/ KafkaToggle \/ UNCHANGED vars
  <2>1. UNCHANGED <<status, arrivals>>
    BY <1>4
    DEF Enqueue, RejectBusiness, AbortBusiness, Scan, CrashRound, Tick, KafkaToggle, vars,
        rowVars, extVars
  <2> QED
    BY <2>1 DEF Contract!cvars
<1>5. UNCHANGED <<status, ArrivedSet>> => UNCHANGED Contract!cvars
  BY DEF Contract!cvars
<1> QED
  BY <1>1, <1>2, <1>3, <1>4, <1>5 DEF Next

\* Every step of the outbox with one relay is a step of its contract: nothing
\* is published before its business commits or after it is settled, and what
\* is settled stays so.
THEOREM Refinement ==
  ASSUME NEW CONSTANT r, Relays = {r}
  PROVE  Spec => ImplementsContract
<1>1. SoleInv(r) /\ [Next]_vars => [Contract!CNext]_(Contract!cvars)
  BY ContractStep
<1> QED
  BY <1>1, ContractInit, SoleInvariant, PTL DEF Spec, ImplementsContract, Contract!CSpec
=============================================================================
