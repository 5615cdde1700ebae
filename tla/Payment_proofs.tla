-------------------------- MODULE Payment_proofs --------------------------
(***************************************************************************)
(* Proofs about Payment, for any orders, refunds, amounts, requests and    *)
(* dispatchers, and any limit, repetition and retry count.                 *)
(***************************************************************************)
EXTENDS Payment, FiniteSetTheorems, TLAPS

RequestRecords ==
    {Idle} \union
    [op : {"create", "confirm", "close", "refund"}, trade : Trades,
     no : RefundNos \union {NoRefund}, status : PayStatus, refunded : 0..Amount]

\* The conjuncts of TypeOK about the callbacks, and about the orders.
CbType ==
    /\ owner \in [Logs -> Trades \union {NoTrade}]
    /\ logStatus \in [Logs -> {"none", "waiting", "delivered", "failed", "abandoned"}]
    /\ retry \in [Logs -> 0..MaxCallbackRetry]
    /\ due \subseteq Registered
    /\ handled \in [Logs -> Nat]
    /\ todo \in [Dispatchers -> SUBSET Logs]
    /\ seen \in [Dispatchers -> [Logs -> 0..MaxCallbackRetry]]
    /\ accepted \in [Dispatchers -> SUBSET Logs]
    /\ refused \in [Dispatchers -> SUBSET Logs]
    /\ faults \in Nat

PayType ==
    /\ payStatus \in [Trades -> PayStatus]
    /\ refunded \in [Trades -> 0..Amount]
    /\ expired \subseteq Trades
    /\ refundRows \subseteq RefundNos
    /\ request \in [Requests -> RequestRecords]
    /\ overwritten \subseteq Trades

\* The ids in use have no gap, so that a new row takes no used id.
IdsInv == Registered = 1..Cardinality(Registered)

\* A dispatch request works on existing rows, what it read of them was below
\* the limit, and what it noted as accepted was processed by the merchant.
DispatchInv ==
    /\ \A l \in Logs : logStatus[l] \in {"none", "waiting"} => retry[l] < MaxCallbackRetry
    /\ \A l \in Logs \ Registered : logStatus[l] = "none"
    /\ \A d \in Dispatchers :
          /\ todo[d] \union accepted[d] \union refused[d] \subseteq Registered
          /\ \A l \in todo[d] \union accepted[d] \union refused[d] : seen[d][l] < MaxCallbackRetry
          /\ \A l \in accepted[d] : handled[l] > 0

\* The row a request read allowed what the request is about to write.
RequestInv ==
    \A q \in Requests :
        LET r == request[q]
        IN  /\ r.op \in {"confirm", "close"} => r.status = "pending"
            /\ r.op = "create" => r.status = "none"
            /\ r.op = "refund" => /\ r.no \in RefundNos /\ r.trade = RefundTrade[r.no]
                                  /\ r.status = "success"
                                  /\ r.refunded + RefundAmount[r.no] <= Amount

PayInv ==
    /\ CbType
    /\ PayType
    /\ IdsInv
    /\ DispatchInv
    /\ DeliveredWasHandled
    /\ RequestInv
    /\ OnlyPaidMoves

LEMMA PayInvInit == Init => PayInv
<1> SUFFICES ASSUME Init PROVE PayInv
  OBVIOUS
<1>1. CbType
  BY CallbackAssumption DEF Init, CbInit, CbType, Registered
<1>2. PayType
  BY PaymentAssumption DEF Init, PayType, PayStatus, RequestRecords
<1>3. DispatchInv /\ DeliveredWasHandled
  BY CallbackAssumption DEF Init, CbInit, DispatchInv, DeliveredWasHandled
<1>6. IdsInv
  <2>1. Registered = {}
    BY DEF Init, CbInit, Registered
  <2> QED
    BY <2>1, FS_EmptySet DEF IdsInv
<1>4. RequestInv
  BY DEF Init, RequestInv, Idle
<1>5. OnlyPaidMoves
  <2>1. \A t \in Trades : LogsOf(t) = {} /\ RefundsOf(t) = {}
    BY CallbackAssumption DEF Init, CbInit, LogsOf, RefundsOf
  <2> QED
    BY <2>1, FS_EmptySet, CallbackAssumption DEF OnlyPaidMoves
<1> QED
  BY <1>1, <1>2, <1>3, <1>4, <1>5, <1>6 DEF PayInv

LEMMA TypeSplit == CbType /\ PayType => TypeOK
  BY DEF CbType, PayType, TypeOK, RequestRecords

\* A step of the dispatchers keeps everything about orders.
LEMMA OrdersQuiet ==
  ASSUME PayInv, UNCHANGED payVars, UNCHANGED owner
  PROVE  PayType' /\ IdsInv' /\ RequestInv' /\ OnlyPaidMoves'
<1>1. UNCHANGED <<payStatus, refunded, expired, refundRows, request, overwritten>>
  BY DEF payVars, orderVars
<1>2. PayType' /\ RequestInv'
  BY <1>1 DEF PayInv, PayType, RequestInv
<1>3. \A t \in Trades : LogsOf(t)' = LogsOf(t) /\ RefundsOf(t)' = RefundsOf(t)
  BY <1>1 DEF LogsOf, RefundsOf
<1>4. OnlyPaidMoves'
  BY <1>1, <1>3 DEF PayInv, OnlyPaidMoves
<1>5. IdsInv'
  <2>1. Registered' = Registered
    BY DEF Registered
  <2> QED
    BY <2>1 DEF PayInv, IdsInv
<1> QED
  BY <1>2, <1>4, <1>5

LEMMA BecomeDueStep ==
  ASSUME PayInv, NEW l \in Logs, BecomeDue(l)
  PROVE  CbType' /\ DispatchInv' /\ DeliveredWasHandled' /\ UNCHANGED owner
<1>1. UNCHANGED <<owner, logStatus, retry, handled, todo, seen, accepted, refused, faults>>
  BY DEF BecomeDue, dispatchVars
<1>2. Registered' = Registered /\ due' \subseteq Registered
  BY <1>1 DEF BecomeDue, Registered, PayInv, CbType
<1> QED
  BY <1>1, <1>2 DEF PayInv, CbType, DispatchInv, DeliveredWasHandled

LEMMA ScanDueStep ==
  ASSUME PayInv, NEW d \in Dispatchers, ScanDue(d)
  PROVE  CbType' /\ DispatchInv' /\ DeliveredWasHandled' /\ UNCHANGED owner
<1>1. UNCHANGED <<owner, logStatus, retry, due, handled, accepted, refused, faults>>
  BY DEF ScanDue, logVars
<1>2. accepted[d] = {} /\ refused[d] = {}
  BY DEF ScanDue, Pushing
<1>3. PICK rows \in SUBSET Selectable : todo' = [todo EXCEPT ![d] = rows]
  BY DEF ScanDue
<1>4. seen' = [seen EXCEPT ![d] = retry]
  BY DEF ScanDue
<1>5. rows \subseteq Logs /\ \A l \in rows : retry[l] < MaxCallbackRetry
  BY DEF Selectable, PayInv, CbType, Registered, DispatchInv
<1>8. Registered' = Registered /\ rows \subseteq Registered
  BY <1>1 DEF Registered, Selectable, PayInv, CbType
<1>6. CbType'
  BY <1>1, <1>3, <1>4, <1>5 DEF PayInv, CbType, Registered
<1>7. DispatchInv'
  BY <1>1, <1>2, <1>3, <1>4, <1>5, <1>8 DEF PayInv, CbType, DispatchInv
<1> QED
  BY <1>1, <1>6, <1>7 DEF PayInv, DeliveredWasHandled

LEMMA PushStep ==
  ASSUME PayInv, NEW d \in Dispatchers, NEW l \in Logs, Push(d, l)
  PROVE  CbType' /\ DispatchInv' /\ DeliveredWasHandled' /\ UNCHANGED owner
<1>1. /\ UNCHANGED <<owner, logStatus, retry, due, seen>>
      /\ todo' = [todo EXCEPT ![d] = @ \ {l}]
      /\ l \in todo[d]
  BY DEF Push, PushAccepted, PushRefused, PushAnswerLost, NextToPush, logVars
<1>5. Registered' = Registered
  BY <1>1 DEF Registered
<1>2. CASE PushAccepted(d, l)
  <2>1. /\ handled' = [handled EXCEPT ![l] = @ + 1]
        /\ accepted' = [accepted EXCEPT ![d] = @ \union {l}]
        /\ UNCHANGED <<refused, faults>>
    BY <1>2 DEF PushAccepted
  <2>2. CbType'
    BY <1>1, <2>1 DEF PayInv, CbType, Registered
  <2>3. DispatchInv' /\ DeliveredWasHandled'
    BY <1>1, <1>5, <2>1 DEF PayInv, CbType, DispatchInv, DeliveredWasHandled
  <2> QED
    BY <1>1, <2>2, <2>3
<1>3. CASE PushRefused(d, l)
  <2>1. /\ refused' = [refused EXCEPT ![d] = @ \union {l}]
        /\ UNCHANGED <<handled, accepted, faults>>
    BY <1>3 DEF PushRefused
  <2>2. CbType'
    BY <1>1, <2>1 DEF PayInv, CbType, Registered
  <2>3. DispatchInv' /\ DeliveredWasHandled'
    BY <1>1, <1>5, <2>1 DEF PayInv, CbType, DispatchInv, DeliveredWasHandled
  <2> QED
    BY <1>1, <2>2, <2>3
<1>4. CASE PushAnswerLost(d, l)
  <2>1. /\ handled' = [handled EXCEPT ![l] = @ + 1]
        /\ refused' = [refused EXCEPT ![d] = @ \union {l}]
        /\ faults' = faults + 1
        /\ UNCHANGED accepted
    BY <1>4 DEF PushAnswerLost
  <2>2. CbType'
    BY <1>1, <2>1 DEF PayInv, CbType, Registered
  <2>3. DispatchInv' /\ DeliveredWasHandled'
    BY <1>1, <1>5, <2>1 DEF PayInv, CbType, DispatchInv, DeliveredWasHandled
  <2> QED
    BY <1>1, <2>2, <2>3
<1> QED
  BY <1>2, <1>3, <1>4 DEF Push

\* Ending a dispatch request empties what it noted.
LEMMA EndDispatchShape ==
  ASSUME CbType, NEW d \in Dispatchers, EndDispatch(d)
  PROVE  /\ todo' \in [Dispatchers -> SUBSET Logs]
         /\ seen' \in [Dispatchers -> [Logs -> 0..MaxCallbackRetry]]
         /\ accepted' \in [Dispatchers -> SUBSET Logs]
         /\ refused' \in [Dispatchers -> SUBSET Logs]
         /\ todo'[d] = {} /\ accepted'[d] = {} /\ refused'[d] = {}
         /\ \A c \in Dispatchers \ {d} :
               /\ todo'[c] = todo[c] /\ seen'[c] = seen[c]
               /\ accepted'[c] = accepted[c] /\ refused'[c] = refused[c]
  BY CallbackAssumption DEF EndDispatch, CbType

LEMMA CommitDispatchStep ==
  ASSUME PayInv, NEW d \in Dispatchers, CommitDispatch(d)
  PROVE  CbType' /\ DispatchInv' /\ DeliveredWasHandled' /\ UNCHANGED owner
<1>0. CbType /\ DispatchInv /\ DeliveredWasHandled
  BY DEF PayInv
<1>1. UNCHANGED <<owner, handled, faults>> /\ EndDispatch(d)
  BY DEF CommitDispatch
<1>2. \A l \in Logs : /\ logStatus'[l] = AfterPush(d, l)
                      /\ retry'[l] = IF l \in refused[d] THEN seen[d][l] + 1 ELSE retry[l]
  BY DEF CommitDispatch
<1>3. \A l \in Logs :
         \/ l \in accepted[d] /\ AfterPush(d, l) = "delivered"
         \/ l \in refused[d] /\ AfterPush(d, l) \in {"abandoned", "failed"}
         \/ /\ l \notin accepted[d] /\ l \notin refused[d]
            /\ AfterPush(d, l) = logStatus[l]
         \/ l \in refused[d] /\ l \in accepted[d] /\ AfterPush(d, l) = "failed"
  BY DEF AfterPush
<1>4. \A l \in refused[d] : seen[d][l] + 1 \in 0..MaxCallbackRetry
  BY <1>0, CallbackAssumption DEF CbType, DispatchInv
<1>5. CbType'
  <2>1. logStatus' \in [Logs -> {"none", "waiting", "delivered", "failed", "abandoned"}]
    BY <1>0, <1>3 DEF CommitDispatch, CbType
  <2>2. retry' \in [Logs -> 0..MaxCallbackRetry]
    BY <1>0, <1>4 DEF CommitDispatch, CbType
  <2>3. due' \subseteq Registered'
    BY <1>0, <1>1 DEF CommitDispatch, CbType, Registered
  <2> QED
    BY <1>0, <1>1, <2>1, <2>2, <2>3, EndDispatchShape DEF CbType
<1>6. DispatchInv'
  <2>0. Registered' = Registered
    BY <1>1 DEF Registered
  <2>1. \A l \in Logs : logStatus'[l] \in {"none", "waiting"} => retry'[l] < MaxCallbackRetry
    BY <1>0, <1>2, <1>3 DEF DispatchInv
  <2>4. \A l \in Logs \ Registered' : logStatus'[l] = "none"
    <3>1. \A l \in Logs \ Registered : l \notin accepted[d] /\ l \notin refused[d]
      BY <1>0 DEF DispatchInv
    <3> QED
      BY <1>0, <1>2, <1>3, <2>0, <3>1 DEF DispatchInv
  <2>2. ASSUME NEW c \in Dispatchers
        PROVE  /\ todo'[c] \union accepted'[c] \union refused'[c] \subseteq Registered'
               /\ \A l \in todo'[c] \union accepted'[c] \union refused'[c] :
                     seen'[c][l] < MaxCallbackRetry
               /\ \A l \in accepted'[c] : handled'[l] > 0
    <3>1. CASE c = d
      BY <3>1, <1>0, <1>1, EndDispatchShape
    <3>2. CASE c # d
      BY <3>2, <1>0, <1>1, <2>0, EndDispatchShape DEF DispatchInv
    <3> QED
      BY <3>1, <3>2
  <2> QED
    BY <2>1, <2>2, <2>4 DEF DispatchInv
<1>7. DeliveredWasHandled'
  BY <1>0, <1>1, <1>2, <1>3 DEF DispatchInv, DeliveredWasHandled
<1> QED
  BY <1>1, <1>5, <1>6, <1>7

LEMMA CrashDispatchStep ==
  ASSUME PayInv, NEW d \in Dispatchers, CrashDispatch(d)
  PROVE  CbType' /\ DispatchInv' /\ DeliveredWasHandled' /\ UNCHANGED owner
<1>0. CbType /\ DispatchInv /\ DeliveredWasHandled
  BY DEF PayInv
<1>1. /\ UNCHANGED <<owner, logStatus, retry, due, handled>>
      /\ EndDispatch(d) /\ faults' = faults + 1
  BY DEF CrashDispatch, logVars
<1>2. CbType'
  BY <1>0, <1>1, EndDispatchShape DEF CbType, Registered
<1>3. DispatchInv'
  <2>0. Registered' = Registered
    BY <1>1 DEF Registered
  <2>1. ASSUME NEW c \in Dispatchers
        PROVE  /\ todo'[c] \union accepted'[c] \union refused'[c] \subseteq Registered'
               /\ \A l \in todo'[c] \union accepted'[c] \union refused'[c] :
                     seen'[c][l] < MaxCallbackRetry
               /\ \A l \in accepted'[c] : handled'[l] > 0
    <3>1. CASE c = d
      BY <3>1, <1>0, <1>1, EndDispatchShape
    <3>2. CASE c # d
      BY <3>2, <1>0, <1>1, <2>0, EndDispatchShape DEF DispatchInv
    <3> QED
      BY <3>1, <3>2
  <2> QED
    BY <1>0, <1>1, <2>0, <2>1 DEF DispatchInv
<1> QED
  BY <1>0, <1>1, <1>2, <1>3 DEF DeliveredWasHandled

\* A step on the orders that leaves the callbacks alone.
LEMMA CallbacksQuiet ==
  ASSUME PayInv, UNCHANGED cbVars
  PROVE  /\ CbType' /\ IdsInv' /\ DispatchInv' /\ DeliveredWasHandled'
         /\ \A t : LogsOf(t)' = LogsOf(t)
<1>1. UNCHANGED <<owner, logStatus, retry, due, handled, todo, seen, accepted, refused, faults>>
  BY DEF cbVars, logVars, dispatchVars
<1>2. Registered' = Registered /\ \A t : LogsOf(t)' = LogsOf(t)
  BY <1>1 DEF Registered, LogsOf
<1> QED
  BY <1>1, <1>2 DEF PayInv, CbType, IdsInv, DispatchInv, DeliveredWasHandled

LEMMA RequestShape ==
  ASSUME PayInv, NEW q \in Requests, request[q].op # "idle"
  PROVE  /\ request[q] \in [op : {"create", "confirm", "close", "refund"}, trade : Trades,
                            no : RefundNos \union {NoRefund}, status : PayStatus,
                            refunded : 0..Amount]
         /\ request[q].trade \in Trades
  BY DEF PayInv, PayType, RequestRecords, Idle

\* Reading a row starts no request the row does not allow.
LEMMA ReadStep ==
  ASSUME PayInv, NEW q \in Requests, NEW op, NEW t \in Trades,
         NEW n \in RefundNos \union {NoRefund},
         Read(q, op, t, n),
         \/ op = "create" /\ payStatus[t] = "none"
         \/ op \in {"confirm", "close"} /\ payStatus[t] = "pending"
         \/ /\ op = "refund" /\ n \in RefundNos /\ t = RefundTrade[n]
            /\ payStatus[t] = "success" /\ refunded[t] + RefundAmount[n] <= Amount
  PROVE  PayInv'
<1> DEFINE new == [op |-> op, trade |-> t, no |-> n,
                   status |-> payStatus[t], refunded |-> refunded[t]]
<1>1. /\ request' = [request EXCEPT ![q] = new]
      /\ UNCHANGED <<payStatus, refunded, expired, refundRows, overwritten>>
      /\ UNCHANGED cbVars
  BY DEF Read, orderVars
<1>2. new \in RequestRecords
  BY DEF PayInv, PayType, RequestRecords
<1>3. PayType'
  BY <1>1, <1>2 DEF PayInv, PayType
<1>4. RequestInv'
  BY <1>1 DEF PayInv, PayType, RequestInv
<1>5. OnlyPaidMoves'
  BY <1>1, CallbacksQuiet DEF PayInv, OnlyPaidMoves, RefundsOf
<1> QED
  BY <1>1, <1>3, <1>4, <1>5, CallbacksQuiet DEF PayInv

LEMMA BeginOrderStep ==
  ASSUME PayInv, NEW q \in Requests, NEW t \in Trades, BeginOrder(q, t)
  PROVE  PayInv'
<1>1. CASE MayCreate(t) /\ Read(q, "create", t, NoRefund)
  BY <1>1, ReadStep DEF MayCreate
<1>2. CASE MayConfirm(t) /\ Read(q, "confirm", t, NoRefund)
  BY <1>2, ReadStep DEF MayConfirm
<1>3. CASE (MayCancel(t) \/ MayTimeOut(t)) /\ Read(q, "close", t, NoRefund)
  BY <1>3, ReadStep DEF MayCancel, MayTimeOut
<1> QED
  BY <1>1, <1>2, <1>3 DEF BeginOrder

LEMMA BeginRefundStep ==
  ASSUME PayInv, NEW q \in Requests, NEW n \in RefundNos, BeginRefund(q, n)
  PROVE  PayInv'
<1>1. RefundTrade[n] \in Trades
  BY PaymentAssumption
<1>2. payStatus[RefundTrade[n]] = "success" /\ WithinPaid(n)
  BY DEF BeginRefund, RefundOutcome
<1> QED
  BY <1>1, <1>2, ReadStep DEF BeginRefund, WithinPaid

\* The request is over; its order is marked unless its row was as it was read.
LEMMA FinishShape ==
  ASSUME PayInv, NEW q \in Requests, request[q].op # "idle", Finish(q)
  PROVE  LET r == request[q]
         IN  /\ request' = [request EXCEPT ![q] = Idle]
             /\ request' \in [Requests -> RequestRecords]
             /\ overwritten \subseteq overwritten' /\ overwritten' \subseteq Trades
             /\ r.trade \notin overwritten' =>
                   r.status = payStatus[r.trade] /\ r.refunded = refunded[r.trade]
<1>1. request' = [request EXCEPT ![q] = Idle]
  BY DEF Finish
<1>2. request' \in [Requests -> RequestRecords]
  BY <1>1 DEF PayInv, PayType, RequestRecords
<1> QED
  BY <1>1, <1>2, RequestShape DEF Finish, PayInv, PayType

LEMMA RequestInvKept ==
  ASSUME PayInv, NEW q \in Requests, request' = [request EXCEPT ![q] = Idle]
  PROVE  RequestInv'
  BY DEF PayInv, PayType, RequestInv, Idle

\* A commit of q that only changes the status of its order, when the rows of
\* the order and of all others are as they were.
LEMMA CommitStatusStep ==
  ASSUME PayInv, NEW q \in Requests, NEW s \in PayStatus \ {"success"},
         request[q].op \in {"create", "close"},
         payStatus' = [payStatus EXCEPT ![request[q].trade] = s],
         Finish(q), UNCHANGED cbVars, UNCHANGED <<refunded, expired, refundRows>>
  PROVE  PayInv'
<1> DEFINE t == request[q].trade
<1>1. t \in Trades /\ request[q].status \in {"none", "pending"}
  BY RequestShape DEF PayInv, RequestInv
<1>2. PayType'
  BY <1>1, FinishShape DEF PayInv, PayType
<1>3. RequestInv'
  BY FinishShape, RequestInvKept
<1>4. ASSUME NEW u \in Trades \ overwritten'
      PROVE  /\ LogsOf(u)' # {} \/ RefundsOf(u)' # {} => payStatus'[u] = "success"
             /\ Cardinality(LogsOf(u)') <= Repeat
  <2>1. u \notin overwritten /\ LogsOf(u)' = LogsOf(u) /\ RefundsOf(u)' = RefundsOf(u)
    BY FinishShape, CallbacksQuiet DEF RefundsOf
  <2>2. u = t => payStatus[u] # "success"
    BY <1>1, FinishShape
  <2>3. u # t => payStatus'[u] = payStatus[u]
    BY DEF PayInv, PayType
  <2> QED
    BY <2>1, <2>2, <2>3 DEF PayInv, OnlyPaidMoves
<1>5. OnlyPaidMoves'
  BY <1>4 DEF OnlyPaidMoves
<1> QED
  BY <1>2, <1>3, <1>5, CallbacksQuiet DEF PayInv

LEMMA CommitCreateStep ==
  ASSUME PayInv, NEW q \in Requests, CommitCreate(q)
  PROVE  PayInv'
  BY CommitStatusStep DEF CommitCreate, PayStatus

LEMMA CommitCloseStep ==
  ASSUME PayInv, NEW q \in Requests, CommitClose(q)
  PROVE  PayInv'
  BY CommitStatusStep DEF CommitClose, PayStatus

LEMMA LogsFinite == \A t : IsFiniteSet(LogsOf(t)) /\ Cardinality(LogsOf(t)) \in Nat
<1>1. IsFiniteSet(Logs)
  BY FS_Interval, CallbackAssumption DEF Logs
<1>2. \A t : LogsOf(t) \subseteq Logs
  BY DEF LogsOf
<1> QED
  BY <1>1, <1>2, FS_Subset, FS_CardinalityType

LEMMA RegisteredCardinality == Cardinality(Registered) \in Nat
<1>1. IsFiniteSet(Logs)
  BY FS_Interval, CallbackAssumption DEF Logs
<1>2. Registered \subseteq Logs
  BY DEF Registered
<1> QED
  BY <1>1, <1>2, FS_Subset, FS_CardinalityType

LEMMA CommitConfirmStep ==
  ASSUME PayInv, NEW q \in Requests, CommitConfirm(q)
  PROVE  PayInv'
<1>0. request[q].op = "confirm"
  BY DEF CommitConfirm
<1> PICK t \in Trades : t = request[q].trade
  BY <1>0, RequestShape
<1>1. /\ request[q].op = "confirm" /\ Finish(q) /\ Register(t)
      /\ payStatus' = [payStatus EXCEPT ![t] = "success"]
      /\ UNCHANGED <<refunded, expired, refundRows, handled, todo, seen, accepted,
                     refused, faults>>
  BY DEF CommitConfirm, dispatchVars
<1>2. request[q].status = "pending"
  BY <1>1 DEF PayInv, RequestInv
<1> DEFINE used == Cardinality(Registered)
<1>3. PICK n \in 0..Repeat :
        LET new == (used + 1)..(used + n)
        IN  /\ new \subseteq Logs
            /\ owner' = [l \in Logs |-> IF l \in new THEN t ELSE owner[l]]
            /\ logStatus' = [l \in Logs |-> IF l \in new THEN "waiting" ELSE logStatus[l]]
            /\ UNCHANGED <<retry, due>>
  BY <1>1 DEF Register
<1> DEFINE new == (used + 1)..(used + n)
<1>4. IsFiniteSet(new) /\ Cardinality(new) = n
  <2>1. used \in Nat /\ n \in Nat
    BY RegisteredCardinality, CallbackAssumption
  <2>2. used + 1 \in Int /\ used + n \in Int
    BY <2>1
  <2>3. /\ IsFiniteSet(new)
        /\ Cardinality(new) = IF used + 1 > used + n THEN 0 ELSE (used + n) - (used + 1) + 1
    BY <2>2, FS_Interval
  <2> QED
    BY <2>1, <2>3
<1>5. PayType'
  BY <1>1, <1>2, FinishShape DEF PayInv, PayType, PayStatus
<1>6. RequestInv'
  BY <1>1, FinishShape, RequestInvKept
<1>7. CbType'
  <2>1. Registered \subseteq Registered'
    BY <1>2, <1>3, CallbackAssumption DEF PayInv, CbType, Registered
  <2>2. due' \subseteq Registered'
    BY <1>3, <2>1 DEF PayInv, CbType
  <2> QED
    BY <1>1, <1>2, <1>3, <2>2 DEF PayInv, CbType
<1>8. DeliveredWasHandled'
  BY <1>1, <1>3 DEF PayInv, CbType, DeliveredWasHandled
<1>11. IdsInv' /\ Registered \subseteq Registered' /\ new \intersect Registered = {}
  <2>1. used \in Nat /\ n \in Nat /\ Registered = 1..used
    BY RegisteredCardinality, CallbackAssumption DEF PayInv, IdsInv
  <2>2. Registered' = Registered \union new
    <3>1. NoTrade # t
      BY CallbackAssumption
    <3>2. \A l \in Logs : owner'[l] = IF l \in new THEN t ELSE owner[l]
      BY <1>3
    <3>3. new \subseteq Logs
      BY <1>3
    <3> HIDE DEF new
    <3> QED
      BY <3>1, <3>2, <3>3 DEF Registered
  <2>3. Registered' = 1..(used + n) /\ new \intersect Registered = {}
    BY <2>1, <2>2
  <2>4. Cardinality(1..(used + n)) = used + n
    BY <2>1, FS_Interval
  <2> QED
    BY <2>2, <2>3, <2>4 DEF IdsInv
<1>10. DispatchInv'
  <2> HIDE DEF new
  <2>0. /\ new \subseteq Logs /\ new \subseteq Registered'
        /\ \A l \in Logs : logStatus'[l] = IF l \in new THEN "waiting" ELSE logStatus[l]
        /\ retry' = retry
    <3>1. /\ new \subseteq Logs /\ t # NoTrade
          /\ \A l \in Logs : owner'[l] = IF l \in new THEN t ELSE owner[l]
      BY <1>3, CallbackAssumption DEF new
    <3>2. new \subseteq Registered'
      BY <3>1 DEF Registered
    <3> QED
      BY <1>3, <3>1, <3>2 DEF new
  <2>1. \A l \in new : logStatus[l] = "none" /\ retry[l] < MaxCallbackRetry
    BY <2>0, <1>11 DEF PayInv, DispatchInv
  <2>2. \A l \in Logs : logStatus'[l] \in {"none", "waiting"} => retry'[l] < MaxCallbackRetry
    BY <2>0, <2>1 DEF PayInv, DispatchInv
  <2>3. \A l \in Logs \ Registered' : logStatus'[l] = "none"
    BY <2>0, <1>11 DEF PayInv, DispatchInv
  <2> QED
    BY <1>1, <1>11, <2>2, <2>3 DEF PayInv, DispatchInv
<1>9. OnlyPaidMoves'
  <2>1. \A u \in Trades \ {t} : LogsOf(u)' \subseteq LogsOf(u)
    BY <1>3 DEF LogsOf
  <2>2. LogsOf(t)' \subseteq LogsOf(t) \union new
    BY <1>3 DEF LogsOf
  <2>3. ASSUME NEW u \in Trades \ overwritten'
        PROVE  /\ LogsOf(u)' # {} \/ RefundsOf(u)' # {} => payStatus'[u] = "success"
               /\ Cardinality(LogsOf(u)') <= Repeat
    <3>1. u \notin overwritten /\ RefundsOf(u)' = RefundsOf(u)
      BY <1>1, FinishShape DEF RefundsOf
    <3>2. CASE u = t
      <4>1. payStatus[t] = "pending"
        BY <1>1, <1>2, <3>2, FinishShape
      <4>2. LogsOf(t)' \subseteq new
        BY <2>2, <3>1, <3>2, <4>1 DEF PayInv, OnlyPaidMoves
      <4>3. Cardinality(LogsOf(t)') <= Repeat
        <5>1. Cardinality(LogsOf(t)') <= Cardinality(new) /\ IsFiniteSet(LogsOf(t)')
          BY <1>4, <4>2, FS_Subset
        <5>2. Cardinality(LogsOf(t)') \in Nat /\ n <= Repeat
          BY <5>1, FS_CardinalityType, CallbackAssumption
        <5> QED
          BY <1>4, <5>1, <5>2, CallbackAssumption
      <4> QED
        BY <1>1, <1>2, <3>2, <4>3 DEF PayInv, PayType
    <3>3. CASE u # t
      <4>1. LogsOf(u)' \subseteq LogsOf(u) /\ payStatus'[u] = payStatus[u]
        BY <1>1, <2>1, <3>3 DEF PayInv, PayType
      <4>2. Cardinality(LogsOf(u)') <= Cardinality(LogsOf(u))
        BY <4>1, LogsFinite, FS_Subset
      <4>3. Cardinality(LogsOf(u)') \in Nat
        BY <4>1, LogsFinite, FS_Subset, FS_CardinalityType
      <4> QED
        BY <3>1, <4>1, <4>2, <4>3, LogsFinite, CallbackAssumption
        DEF PayInv, OnlyPaidMoves
    <3> QED
      BY <3>2, <3>3
  <2> QED
    BY <2>3 DEF OnlyPaidMoves
<1> QED
  BY <1>5, <1>6, <1>7, <1>8, <1>9, <1>10, <1>11 DEF PayInv

\* The refund of q adds the row, and what q computed for the order.
LEMMA CommitRefundStep ==
  ASSUME PayInv, NEW q \in Requests, CommitRefund(q)
  PROVE  PayInv'
<1>0. request[q].op = "refund"
  BY DEF CommitRefund
<1>1. PICK n \in RefundNos : n = request[q].no
  BY <1>0 DEF PayInv, RequestInv
<1>2. PICK t \in Trades : t = request[q].trade
  BY <1>0, RequestShape
<1>3. /\ t = RefundTrade[n]
      /\ request[q].status = "success"
      /\ request[q].refunded + RefundAmount[n] <= Amount
      /\ request[q].refunded \in 0..Amount
  BY <1>0, <1>1, <1>2, RequestShape DEF PayInv, RequestInv
<1>4. /\ Finish(q)
      /\ refundRows' = refundRows \union {n}
      /\ refunded' = [refunded EXCEPT ![t] = request[q].refunded + RefundAmount[n]]
      /\ UNCHANGED cbVars /\ UNCHANGED <<payStatus, expired>>
  BY <1>1, <1>2 DEF CommitRefund
<1>5. PayType'
  <2>1. RefundAmount[n] \in Nat \ {0} /\ Amount \in Nat
    BY PaymentAssumption
  <2>2. request[q].refunded + RefundAmount[n] \in 0..Amount
    BY <1>3, <2>1
  <2> QED
    BY <1>0, <1>4, <2>2, FinishShape DEF PayInv, PayType
<1>6. RequestInv'
  BY <1>0, <1>4, FinishShape, RequestInvKept
<1>7. ASSUME NEW u \in Trades \ overwritten'
      PROVE  /\ LogsOf(u)' # {} \/ RefundsOf(u)' # {} => payStatus'[u] = "success"
             /\ Cardinality(LogsOf(u)') <= Repeat
  <2>1. u \notin overwritten /\ LogsOf(u)' = LogsOf(u)
    BY <1>0, <1>4, FinishShape, CallbacksQuiet
  <2>2. CASE u = t
    BY <1>0, <1>2, <1>3, <1>4, <2>1, <2>2, FinishShape DEF PayInv, OnlyPaidMoves
  <2>3. CASE u # t
    <3>1. RefundsOf(u)' = RefundsOf(u)
      BY <1>3, <1>4, <2>3 DEF RefundsOf
    <3> QED
      BY <1>4, <2>1, <3>1 DEF PayInv, OnlyPaidMoves
  <2> QED
    BY <2>2, <2>3
<1>8. OnlyPaidMoves'
  BY <1>7 DEF OnlyPaidMoves
<1> QED
  BY <1>4, <1>5, <1>6, <1>8, CallbacksQuiet DEF PayInv

LEMMA RollbackStep ==
  ASSUME PayInv, NEW q \in Requests, Rollback(q)
  PROVE  PayInv'
<1>1. /\ request' = [request EXCEPT ![q] = Idle]
      /\ UNCHANGED <<payStatus, refunded, expired, refundRows, overwritten>>
      /\ UNCHANGED cbVars
  BY DEF Rollback, orderVars
<1>2. PayType'
  BY <1>1 DEF PayInv, PayType, RequestRecords
<1>3. OnlyPaidMoves'
  BY <1>1, CallbacksQuiet DEF PayInv, OnlyPaidMoves, RefundsOf
<1> QED
  BY <1>1, <1>2, <1>3, RequestInvKept, CallbacksQuiet DEF PayInv

LEMMA ExpireStep ==
  ASSUME PayInv, NEW t \in Trades, Expire(t)
  PROVE  PayInv'
<1>1. /\ expired' = expired \union {t}
      /\ UNCHANGED <<payStatus, refunded, refundRows, request, overwritten>>
      /\ UNCHANGED cbVars
  BY DEF Expire
<1>2. PayType' /\ RequestInv'
  BY <1>1 DEF PayInv, PayType, RequestInv
<1>3. OnlyPaidMoves'
  BY <1>1, CallbacksQuiet DEF PayInv, OnlyPaidMoves, RefundsOf
<1> QED
  BY <1>1, <1>2, <1>3, CallbacksQuiet DEF PayInv

LEMMA CbNextStep ==
  ASSUME PayInv, CbNext, UNCHANGED payVars
  PROVE  PayInv'
<1>1. CbType' /\ DispatchInv' /\ DeliveredWasHandled' /\ UNCHANGED owner
  BY BecomeDueStep, ScanDueStep, PushStep, CommitDispatchStep, CrashDispatchStep DEF CbNext
<1> QED
  BY <1>1, OrdersQuiet DEF PayInv

LEMMA PayInvStep == PayInv /\ [Next]_vars => PayInv'
<1> SUFFICES ASSUME PayInv, [Next]_vars PROVE PayInv'
  OBVIOUS
<1>1. ASSUME NEW q \in Requests, NEW t \in Trades, BeginOrder(q, t) PROVE PayInv'
  BY <1>1, BeginOrderStep
<1>2. ASSUME NEW q \in Requests, NEW n \in RefundNos, BeginRefund(q, n) PROVE PayInv'
  BY <1>2, BeginRefundStep
<1>3. ASSUME NEW q \in Requests, Commit(q) PROVE PayInv'
  BY <1>3, CommitCreateStep, CommitConfirmStep, CommitCloseStep, CommitRefundStep DEF Commit
<1>4. ASSUME NEW q \in Requests, Rollback(q) PROVE PayInv'
  BY <1>4, RollbackStep
<1>5. ASSUME NEW t \in Trades, Expire(t) PROVE PayInv'
  BY <1>5, ExpireStep
<1>6. CASE CbNext /\ UNCHANGED payVars
  BY <1>6, CbNextStep
<1>7. CASE UNCHANGED vars
  <2>1. UNCHANGED cbVars /\ UNCHANGED payVars
    BY <1>7 DEF vars
  <2>2. UNCHANGED owner
    BY <2>1 DEF cbVars, logVars
  <2> QED
    BY <2>1, <2>2, OrdersQuiet, CallbacksQuiet DEF PayInv
<1> QED
  BY <1>1, <1>2, <1>3, <1>4, <1>5, <1>6, <1>7 DEF Next

-----------------------------------------------------------------------------

\* The inductive invariant holds in every reachable state.
THEOREM PaymentInvariant == Spec => []PayInv
  BY PayInvInit, PayInvStep, PTL DEF Spec

\* Types and ranges: no order ever books more refunds than its amount, and no
\* retry_count passes MAX_CALLBACK_RETRY.
THEOREM PaymentTypeCorrect == Spec => []TypeOK
<1>1. PayInv => TypeOK
  BY TypeSplit DEF PayInv
<1> QED
  BY <1>1, PaymentInvariant, PTL

\* Only paid orders have callbacks or refunds and a repeated confirmation
\* registers no second batch, except on an order a lost update has hit.
THEOREM PaidOnly == Spec => []OnlyPaidMoves
<1>1. PayInv => OnlyPaidMoves
  BY DEF PayInv
<1> QED
  BY <1>1, PaymentInvariant, PTL

\* A callback marked delivered was processed by the merchant, with any number
\* of overlapping dispatch requests, crashes and lost answers.
THEOREM DeliveredHandled == Spec => []DeliveredWasHandled
<1>1. PayInv => DeliveredWasHandled
  BY DEF PayInv
<1> QED
  BY <1>1, PaymentInvariant, PTL

LEMMA FinalKept ==
  ASSUME PayInv, Next, NEW t \in Trades \ overwritten', payStatus[t] \in {"success", "closed"}
  PROVE  payStatus'[t] = payStatus[t]
<1>1. ASSUME NEW q \in Requests, Commit(q) PROVE payStatus'[t] = payStatus[t]
  <2>0. request[q].op # "idle" /\ Finish(q)
    BY <1>1 DEF Commit, CommitCreate, CommitConfirm, CommitClose, CommitRefund
  <2>1. request[q].trade = t => request[q].status = payStatus[t]
    BY <2>0, FinishShape
  <2>2. CASE CommitRefund(q)
    BY <2>2 DEF CommitRefund
  <2>3. CASE ~CommitRefund(q)
    <3>1. request[q].status \in {"none", "pending"}
      BY <1>1, <2>3 DEF Commit, CommitCreate, CommitConfirm, CommitClose, PayInv, RequestInv
    <3>2. request[q].trade # t
      BY <2>1, <3>1
    <3> QED
      BY <1>1, <2>3, <3>2
      DEF Commit, CommitCreate, CommitConfirm, CommitClose, PayInv, PayType
  <2> QED
    BY <2>2, <2>3
<1>2. CASE ~\E q \in Requests : Commit(q)
  BY <1>2 DEF Next, BeginOrder, BeginRefund, Read, Rollback, Expire, orderVars, payVars
<1> QED
  BY <1>1, <1>2

\* "Paid" and "closed" are final whatever confirm, cancel and timeout-close
\* requests overlap, except on an order a lost update has hit.
THEOREM FinalStatus == Spec => FinalStatusStays
<1> DEFINE A == \A t \in Trades \ overwritten' :
                   payStatus[t] \in {"success", "closed"} => payStatus'[t] = payStatus[t]
<1>1. PayInv /\ [Next]_vars => [A]_vars
  BY FinalKept
<1>2. Spec => [][A]_vars
  BY <1>1, PaymentInvariant, PTL DEF Spec
<1> QED
  BY <1>2 DEF FinalStatusStays

-----------------------------------------------------------------------------
(***************************************************************************)
(* The sum of the refunds.                                                 *)
(***************************************************************************)

\* Refunds are only ever added, so what a request read of refunded_amount is
\* at most what the refunds of its order come to when it commits.
SumInv ==
    /\ \A t \in Trades : IsFiniteSet(RefundUnits(t))
    /\ RefundsBooked
    /\ \A q \in Requests, t \in Trades :
          request[q].op = "refund" /\ request[q].trade = t => request[q].refunded <= RefundSum(t)

LEMMA SumIsNatural ==
  ASSUME NEW t, IsFiniteSet(RefundUnits(t))
  PROVE  RefundSum(t) \in Nat
  BY FS_CardinalityType DEF RefundSum

LEMMA UnitsOfOne ==
  ASSUME NEW n \in RefundNos
  PROVE  /\ IsFiniteSet({n} \X (1..RefundAmount[n]))
         /\ Cardinality({n} \X (1..RefundAmount[n])) = RefundAmount[n]
<1>1. RefundAmount[n] \in Nat
  BY PaymentAssumption
<1>2. IsFiniteSet(1..RefundAmount[n]) /\ Cardinality(1..RefundAmount[n]) = RefundAmount[n]
  <2>1. /\ IsFiniteSet(1..RefundAmount[n])
        /\ Cardinality(1..RefundAmount[n])
              = IF 1 > RefundAmount[n] THEN 0 ELSE RefundAmount[n] - 1 + 1
    <3>1. 1 \in Int /\ RefundAmount[n] \in Int
      BY <1>1
    <3> QED
      BY <3>1, FS_Interval
  <2> QED
    BY <1>1, <2>1
<1>3. IsFiniteSet({n}) /\ Cardinality({n}) = 1
  BY FS_Singleton
<1>4. /\ IsFiniteSet({n} \X (1..RefundAmount[n]))
      /\ Cardinality({n} \X (1..RefundAmount[n]))
            = Cardinality({n}) * Cardinality(1..RefundAmount[n])
  BY <1>2, <1>3, FS_Product
<1> QED
  BY <1>1, <1>2, <1>3, <1>4

\* A new refund adds its amount to the sum of its order and to no other.
LEMMA SumAdds ==
  ASSUME NEW n \in RefundNos \ refundRows, refundRows' = refundRows \union {n},
         NEW t, IsFiniteSet(RefundUnits(t))
  PROVE  /\ IsFiniteSet(RefundUnits(t)')
         /\ RefundSum(t)' = RefundSum(t) + IF RefundTrade[n] = t THEN RefundAmount[n] ELSE 0
<1>1. CASE RefundTrade[n] # t
  <2>1. RefundsOf(t)' = RefundsOf(t)
    BY <1>1 DEF RefundsOf
  <2>2. RefundUnits(t)' = RefundUnits(t)
    BY <2>1 DEF RefundUnits
  <2> QED
    BY <1>1, <2>2, SumIsNatural DEF RefundSum
<1>2. CASE RefundTrade[n] = t
  <2> DEFINE one == {n} \X (1..RefundAmount[n])
  <2>1. RefundsOf(t)' = RefundsOf(t) \union {n} /\ n \notin RefundsOf(t)
    BY <1>2 DEF RefundsOf
  <2>2. RefundUnits(t)' = RefundUnits(t) \union one
    BY <2>1 DEF RefundUnits
  <2>3. RefundUnits(t) \intersect one = {}
    BY <2>1 DEF RefundUnits
  <2>4. IsFiniteSet(one) /\ Cardinality(one) = RefundAmount[n] /\ RefundAmount[n] \in Nat
    BY UnitsOfOne, PaymentAssumption
  <2> HIDE DEF one
  <2>5. /\ IsFiniteSet(RefundUnits(t) \union one)
        /\ Cardinality(RefundUnits(t) \union one)
              = Cardinality(RefundUnits(t)) + Cardinality(one) - Cardinality({})
    BY <2>3, <2>4, FS_Union
  <2>6. Cardinality({}) = 0
    BY FS_EmptySet
  <2> QED
    BY <1>2, <2>2, <2>4, <2>5, <2>6, SumIsNatural DEF RefundSum
<1> QED
  BY <1>1, <1>2

LEMMA SumInvInit == Init => SumInv
<1> SUFFICES ASSUME Init PROVE SumInv
  OBVIOUS
<1>1. \A t \in Trades : RefundUnits(t) = {}
  BY DEF Init, RefundUnits, RefundsOf
<1>2. \A t \in Trades : IsFiniteSet(RefundUnits(t)) /\ RefundSum(t) = 0
  BY <1>1, FS_EmptySet DEF RefundSum
<1>3. \A t \in Trades : refunded[t] = 0 /\ 0 <= Amount
  BY PaymentAssumption DEF Init
<1>4. RefundsBooked
  BY <1>2, <1>3 DEF RefundsBooked
<1> QED
  BY <1>2, <1>4 DEF Init, SumInv, Idle

\* Without a new refund the sums stay, and so do the booked amounts.
LEMMA SumQuiet ==
  ASSUME SumInv, UNCHANGED <<refunded, refundRows>>, overwritten \subseteq overwritten'
  PROVE  /\ \A t \in Trades : IsFiniteSet(RefundUnits(t)')
         /\ \A t : RefundSum(t)' = RefundSum(t)
         /\ RefundsBooked'
<1>1. \A t : RefundUnits(t)' = RefundUnits(t)
  BY DEF RefundUnits, RefundsOf
<1>2. \A t : RefundSum(t)' = RefundSum(t)
  BY <1>1 DEF RefundSum
<1> QED
  BY <1>1, <1>2 DEF SumInv, RefundsBooked

LEMMA SumReadStep ==
  ASSUME PayInv, SumInv, NEW q \in Requests, NEW op, NEW t \in Trades, NEW n, Read(q, op, t, n)
  PROVE  SumInv'
<1>1. /\ request' = [request EXCEPT ![q] = [op |-> op, trade |-> t, no |-> n,
                          status |-> payStatus[t], refunded |-> refunded[t]]]
      /\ UNCHANGED <<refunded, refundRows, overwritten>>
  BY DEF Read, orderVars
<1>2. ASSUME NEW p \in Requests, NEW u \in Trades,
             request'[p].op = "refund", request'[p].trade = u
      PROVE  request'[p].refunded <= RefundSum(u)'
  <2>1. RefundSum(u)' = RefundSum(u)
    BY <1>1, SumQuiet
  <2>2. CASE p = q
    <3>1. request'[p].refunded = refunded[t] /\ u = t
      BY <1>1, <1>2, <2>2 DEF PayInv, PayType
    <3> QED
      BY <2>1, <3>1 DEF SumInv, RefundsBooked
  <2>3. CASE p # q
    <3>1. request'[p] = request[p]
      BY <1>1, <2>3 DEF PayInv, PayType
    <3> QED
      BY <1>2, <2>1, <3>1 DEF SumInv
  <2> QED
    BY <2>2, <2>3
<1>3. (\A u \in Trades : IsFiniteSet(RefundUnits(u)')) /\ RefundsBooked'
  BY <1>1, SumQuiet
<1> QED
  BY <1>2, <1>3 DEF SumInv

\* A request that ends, and books nothing.
LEMMA SumEndStep ==
  ASSUME PayInv, SumInv, NEW q \in Requests, request' = [request EXCEPT ![q] = Idle],
         UNCHANGED <<refunded, refundRows>>, overwritten \subseteq overwritten'
  PROVE  SumInv'
<1>1. ASSUME NEW p \in Requests, request'[p].op = "refund"
      PROVE  request'[p] = request[p]
  BY <1>1 DEF Idle, PayInv, PayType
<1> QED
  BY <1>1, SumQuiet DEF SumInv

LEMMA SumRefundStep ==
  ASSUME PayInv, SumInv, NEW q \in Requests, CommitRefund(q)
  PROVE  SumInv'
<1> DEFINE r == request[q]
           n == r.no
           t == r.trade
<1>1. /\ r.op = "refund" /\ n \in RefundNos \ refundRows /\ Finish(q)
      /\ refundRows' = refundRows \union {n}
      /\ refunded' = [refunded EXCEPT ![t] = r.refunded + RefundAmount[n]]
  BY DEF CommitRefund, PayInv, RequestInv
<1>2. /\ t \in Trades /\ RefundTrade[n] = t /\ RefundAmount[n] \in Nat /\ r.refunded \in Nat
      /\ r.refunded + RefundAmount[n] <= Amount /\ r.refunded <= RefundSum(t)
  BY <1>1, RequestShape, PaymentAssumption DEF PayInv, RequestInv, SumInv
<1>3. /\ request' = [request EXCEPT ![q] = Idle]
      /\ overwritten \subseteq overwritten'
      /\ t \notin overwritten' => r.refunded = refunded[t]
  BY <1>1, FinishShape
<1>4. ASSUME NEW u \in Trades
      PROVE  /\ IsFiniteSet(RefundUnits(u)')
             /\ RefundSum(u) \in Nat
             /\ RefundSum(u)' = RefundSum(u) + IF u = t THEN RefundAmount[n] ELSE 0
  <2>1. IsFiniteSet(RefundUnits(u))
    BY DEF SumInv
  <2> HIDE DEF n, t, r
  <2> QED
    BY <1>1, <1>2, <2>1, SumAdds, SumIsNatural
<1>5. \A u \in Trades : /\ refunded[u] \in Nat
                        /\ refunded'[u] = IF u = t THEN r.refunded + RefundAmount[n] ELSE refunded[u]
  BY <1>1, PaymentAssumption DEF PayInv, PayType
<1>6. \A u \in Trades : /\ refunded[u] <= Amount /\ refunded[u] <= RefundSum(u)
                        /\ u \notin overwritten => refunded[u] = RefundSum(u)
  BY DEF SumInv, RefundsBooked
<1>7. RefundsBooked'
  <2> HIDE DEF n, t, r
  <2>1. ASSUME NEW u \in Trades
        PROVE  /\ refunded'[u] <= Amount
               /\ refunded'[u] <= RefundSum(u)'
               /\ u \notin overwritten' => refunded'[u] = RefundSum(u)'
    <3>1. CASE u = t
      BY <1>2, <1>3, <1>4, <1>5, <1>6, <3>1, PaymentAssumption
    <3>2. CASE u # t
      BY <1>3, <1>4, <1>5, <1>6, <3>2
    <3> QED
      BY <3>1, <3>2
  <2> QED
    BY <2>1 DEF RefundsBooked
<1>8. ASSUME NEW p \in Requests, NEW u \in Trades,
             request'[p].op = "refund", request'[p].trade = u
      PROVE  request'[p].refunded <= RefundSum(u)'
  <2>1. request'[p] = request[p]
    BY <1>3, <1>8 DEF Idle, PayInv, PayType
  <2>2. request[p].refunded <= RefundSum(u)
    BY <1>8, <2>1 DEF SumInv
  <2>3. request[p].refunded \in Nat
    BY <1>8, <2>1, RequestShape, PaymentAssumption
  <2>4. RefundSum(u) <= RefundSum(u)' /\ RefundSum(u) \in Nat /\ RefundSum(u)' \in Nat
    BY <1>2, <1>4
  <2> QED
    BY <2>1, <2>2, <2>3, <2>4
<1>9. \A u \in Trades : IsFiniteSet(RefundUnits(u)')
  BY <1>4
<1> QED
  BY <1>7, <1>8, <1>9 DEF SumInv

LEMMA SumInvStep == PayInv /\ SumInv /\ [Next]_vars => SumInv'
<1> SUFFICES ASSUME PayInv, SumInv, [Next]_vars PROVE SumInv'
  OBVIOUS
<1>1. ASSUME NEW q \in Requests, NEW t \in Trades, BeginOrder(q, t) PROVE SumInv'
  BY <1>1, SumReadStep DEF BeginOrder
<1>2. ASSUME NEW q \in Requests, NEW n \in RefundNos, BeginRefund(q, n) PROVE SumInv'
  BY <1>2, SumReadStep, PaymentAssumption DEF BeginRefund
<1>3. ASSUME NEW q \in Requests, CommitCreate(q) \/ CommitConfirm(q) \/ CommitClose(q)
      PROVE  SumInv'
  <2>1. /\ request[q].op # "idle" /\ Finish(q) /\ UNCHANGED <<refunded, refundRows>>
    BY <1>3 DEF CommitCreate, CommitConfirm, CommitClose
  <2> QED
    BY <2>1, FinishShape, SumEndStep
<1>4. ASSUME NEW q \in Requests, CommitRefund(q) PROVE SumInv'
  BY <1>4, SumRefundStep
<1>5. ASSUME NEW q \in Requests, Rollback(q) PROVE SumInv'
  BY <1>5, SumEndStep DEF Rollback, orderVars
<1>6. CASE UNCHANGED <<refunded, refundRows, request, overwritten>>
  BY <1>6, SumQuiet DEF SumInv
<1>7. ASSUME NEW t \in Trades, Expire(t) PROVE SumInv'
  BY <1>6, <1>7 DEF Expire
<1>8. CASE CbNext /\ UNCHANGED payVars
  BY <1>6, <1>8 DEF payVars, orderVars
<1>9. CASE UNCHANGED vars
  BY <1>6, <1>9 DEF vars, payVars, orderVars
<1> QED
  BY <1>1, <1>2, <1>3, <1>4, <1>5, <1>7, <1>8, <1>9 DEF Next, Commit

\* refunded_amount is what the refund rows come to, except on an order a lost
\* update has hit, and there never more; for any amounts and any requests.
THEOREM RefundsAgree == Spec => []RefundsBooked
<1>1. SumInv => RefundsBooked
  BY DEF SumInv
<1> QED
  BY <1>1, SumInvInit, SumInvStep, PaymentInvariant, PTL DEF Spec

-----------------------------------------------------------------------------
(***************************************************************************)
(* How often a callback is pushed.                                         *)
(***************************************************************************)

\* The dispatch requests that have row l before them, and those that pushed
\* it with success and have not committed.
Ahead(l)  == {d \in Dispatchers : l \in todo[d]}
Pushed(l) == {d \in Dispatchers : l \in accepted[d]}

\* While a row waits, each push is known to a request that has not committed,
\* or was a fault.  Once it does not wait nobody selects it again, and only the
\* requests that have it before them can push it.
Accounted(l) ==
    IF logStatus[l] \in {"none", "waiting"}
    THEN handled[l] <= Cardinality(Pushed(l)) + faults
    ELSE handled[l] + Cardinality(Ahead(l)) <= Cardinality(Dispatchers) + faults

PushesInv ==
    /\ \A d \in Dispatchers, l \in Logs : ~(l \in todo[d] /\ l \in accepted[d])
    /\ \A l \in Logs : Accounted(l)

LEMMA CountOfRequests ==
  ASSUME NEW S \in SUBSET Dispatchers
  PROVE  /\ IsFiniteSet(S)
         /\ Cardinality(S) \in Nat
         /\ Cardinality(Dispatchers) \in Nat
         /\ Cardinality(S) <= Cardinality(Dispatchers)
  BY FS_Subset, FS_CardinalityType, CallbackAssumption

\* A request has a row before it or has pushed it, not both.
LEMMA AheadOrPushed ==
  ASSUME PushesInv, NEW l \in Logs
  PROVE  Cardinality(Ahead(l)) + Cardinality(Pushed(l)) <= Cardinality(Dispatchers)
<1>1. Ahead(l) \in SUBSET Dispatchers /\ Pushed(l) \in SUBSET Dispatchers
  BY DEF Ahead, Pushed
<1>2. Ahead(l) \intersect Pushed(l) = {}
  BY DEF Ahead, Pushed, PushesInv
<1>3. IsFiniteSet(Ahead(l)) /\ IsFiniteSet(Pushed(l))
  BY <1>1, CountOfRequests
<1>4. Cardinality(Ahead(l) \union Pushed(l))
         = Cardinality(Ahead(l)) + Cardinality(Pushed(l)) - Cardinality({})
  BY <1>2, <1>3, FS_Union
<1>5. Cardinality({}) = 0
  BY FS_EmptySet
<1>6. Ahead(l) \union Pushed(l) \in SUBSET Dispatchers
  BY <1>1
<1>7. Cardinality(Ahead(l) \union Pushed(l)) <= Cardinality(Dispatchers)
  BY <1>6, CountOfRequests
<1> QED
  BY <1>1, <1>4, <1>5, <1>7, CountOfRequests

\* What must be seen of a step to know that row l stays accounted for.
LEMMA StaysAccounted ==
  ASSUME CbType, CbType', PushesInv, NEW l \in Logs,
         handled'[l] = handled[l], faults' >= faults,
         Ahead(l)' \subseteq Ahead(l),
         logStatus'[l] \in {"none", "waiting"} =>
            /\ logStatus[l] \in {"none", "waiting"}
            /\ Cardinality(Pushed(l)) + faults <= Cardinality(Pushed(l)') + faults'
  PROVE  Accounted(l)'
<1>1. /\ Ahead(l) \in SUBSET Dispatchers /\ Pushed(l) \in SUBSET Dispatchers
      /\ Ahead(l)' \in SUBSET Dispatchers /\ Pushed(l)' \in SUBSET Dispatchers
  BY DEF Ahead, Pushed
<1>2. /\ Cardinality(Ahead(l)) \in Nat /\ Cardinality(Pushed(l)) \in Nat
      /\ Cardinality(Ahead(l)') \in Nat /\ Cardinality(Pushed(l)') \in Nat
      /\ Cardinality(Dispatchers) \in Nat /\ IsFiniteSet(Ahead(l))
  BY <1>1, CountOfRequests
<1>3. Cardinality(Ahead(l)') <= Cardinality(Ahead(l))
  BY <1>2, FS_Subset
<1>4. /\ faults \in Nat /\ faults' \in Nat /\ handled[l] \in Nat /\ handled'[l] \in Nat
  BY DEF CbType
<1>5. Accounted(l)
  BY DEF PushesInv
<1>6. CASE logStatus'[l] \in {"none", "waiting"}
  <2>1. handled[l] <= Cardinality(Pushed(l)) + faults
    BY <1>5, <1>6 DEF Accounted
  <2>2. handled'[l] <= Cardinality(Pushed(l)') + faults'
    BY <1>2, <1>4, <1>6, <2>1
  <2> QED
    BY <1>6, <2>2 DEF Accounted, Pushed
<1>7. CASE logStatus'[l] \notin {"none", "waiting"}
  <2>1. handled[l] + Cardinality(Ahead(l)) <= Cardinality(Dispatchers) + faults
    <3>1. CASE logStatus[l] \in {"none", "waiting"}
      BY <1>2, <1>4, <1>5, <3>1, AheadOrPushed DEF Accounted
    <3>2. CASE logStatus[l] \notin {"none", "waiting"}
      BY <1>5, <3>2 DEF Accounted
    <3> QED
      BY <3>1, <3>2
  <2>2. handled'[l] + Cardinality(Ahead(l)') <= Cardinality(Dispatchers) + faults'
    BY <1>2, <1>3, <1>4, <2>1
  <2> QED
    BY <1>7, <2>2 DEF Accounted, Ahead
<1> QED
  BY <1>6, <1>7

LEMMA PushesInvInit == Init => PushesInv
<1> SUFFICES ASSUME Init PROVE PushesInv
  OBVIOUS
<1>1. \A l \in Logs : logStatus[l] = "none" /\ handled[l] = 0 /\ Pushed(l) = {} /\ faults = 0
  BY DEF Init, CbInit, Pushed
<1>2. \A d \in Dispatchers : todo[d] = {}
  BY DEF Init, CbInit
<1> QED
  BY <1>1, <1>2, FS_EmptySet DEF PushesInv, Accounted

\* A step that pushes nothing and ends no request; a row may begin to wait.
LEMMA NoPushStep ==
  ASSUME PayInv, PayInv', PushesInv, UNCHANGED <<handled, todo, accepted, faults>>,
         \A l \in Logs : \/ logStatus'[l] = logStatus[l]
                         \/ logStatus[l] \in {"none", "waiting"}
  PROVE  PushesInv'
<1>1. ASSUME NEW l \in Logs PROVE Accounted(l)'
  <2>1. Ahead(l)' = Ahead(l) /\ Pushed(l)' = Pushed(l)
    BY DEF Ahead, Pushed
  <2>2. Pushed(l) \in SUBSET Dispatchers
    BY DEF Pushed
  <2>3. Cardinality(Pushed(l)) \in Nat /\ faults \in Nat
    BY <2>2, CountOfRequests DEF PayInv, CbType
  <2>4. CbType /\ CbType'
    BY DEF PayInv
  <2> QED
    BY <2>1, <2>3, <2>4, StaysAccounted
<1> QED
  BY <1>1 DEF PushesInv

LEMMA ConfirmPushesStep ==
  ASSUME PayInv, PayInv', PushesInv, NEW q \in Requests, CommitConfirm(q)
  PROVE  PushesInv'
<1>1. UNCHANGED <<handled, todo, accepted, faults>>
  BY DEF CommitConfirm, dispatchVars
<1> DEFINE used == Cardinality(Registered)
<1>2. PICK n \in 0..Repeat : \A l \in Logs :
         l \notin (used + 1)..(used + n) => logStatus'[l] = logStatus[l]
  BY DEF CommitConfirm, Register
<1>3. \A l \in Logs : l \in (used + 1)..(used + n) => logStatus[l] = "none"
  <2>1. used \in Nat /\ n \in Nat /\ Registered = 1..used
    BY RegisteredCardinality, CallbackAssumption DEF PayInv, IdsInv
  <2> QED
    BY <2>1 DEF PayInv, DispatchInv
<1> HIDE DEF used
<1> QED
  BY <1>1, <1>2, <1>3, NoPushStep

LEMMA ScanPushesStep ==
  ASSUME PayInv, PayInv', PushesInv, NEW d \in Dispatchers, ScanDue(d)
  PROVE  PushesInv'
<1>0. CbType /\ CbType'
  BY DEF PayInv
<1>1. UNCHANGED <<logStatus, handled, accepted, faults>> /\ accepted[d] = {}
  BY DEF ScanDue, logVars, Pushing
<1>2. PICK rows \in SUBSET Selectable : todo' = [todo EXCEPT ![d] = rows]
  BY DEF ScanDue
<1>3. ASSUME NEW l \in Logs PROVE Accounted(l)'
  <2>1. Pushed(l)' = Pushed(l) /\ Pushed(l) \in SUBSET Dispatchers
    BY <1>1 DEF Pushed
  <2>2. Cardinality(Pushed(l)) \in Nat /\ faults \in Nat
    BY <2>1, CountOfRequests DEF PayInv, CbType
  <2>3. CASE logStatus[l] = "waiting"
    BY <1>1, <2>1, <2>3 DEF PushesInv, Accounted
  <2>4. CASE logStatus[l] # "waiting"
    <3>1. Ahead(l)' \subseteq Ahead(l)
      BY <1>0, <1>2, <2>4 DEF Ahead, Selectable, CbType
    <3> QED
      BY <1>0, <1>1, <2>1, <2>2, <3>1, StaysAccounted
  <2> QED
    BY <2>3, <2>4
<1>4. \A c \in Dispatchers, l \in Logs : ~(l \in todo'[c] /\ l \in accepted'[c])
  BY <1>0, <1>1, <1>2 DEF PushesInv, CbType
<1> QED
  BY <1>3, <1>4 DEF PushesInv

LEMMA PushPushesStep ==
  ASSUME PayInv, PayInv', PushesInv, NEW d \in Dispatchers, NEW l \in Logs, Push(d, l)
  PROVE  PushesInv'
<1>0. CbType /\ CbType'
  BY DEF PayInv
<1>1. /\ logStatus' = logStatus
      /\ todo' = [todo EXCEPT ![d] = @ \ {l}]
      /\ l \in todo[d] /\ l \notin accepted[d]
      /\ faults \in Nat /\ faults' \in Nat
  BY <1>0 DEF Push, PushAccepted, PushRefused, PushAnswerLost, NextToPush, logVars,
              PushesInv, CbType
<1>2. \/ /\ handled' = [handled EXCEPT ![l] = @ + 1]
         /\ accepted' = [accepted EXCEPT ![d] = @ \union {l}]
         /\ faults' = faults
      \/ /\ handled' = [handled EXCEPT ![l] = @ + 1]
         /\ accepted' = accepted
         /\ faults' = faults + 1
      \/ handled' = handled /\ accepted' = accepted /\ faults' = faults
  BY DEF Push, PushAccepted, PushRefused, PushAnswerLost
<1>3. ASSUME NEW m \in Logs
      PROVE  /\ Ahead(m) \in SUBSET Dispatchers /\ Pushed(m) \in SUBSET Dispatchers
             /\ Cardinality(Ahead(m)) \in Nat /\ Cardinality(Pushed(m)) \in Nat
             /\ IsFiniteSet(Ahead(m)) /\ IsFiniteSet(Pushed(m))
             /\ Cardinality(Dispatchers) \in Nat
  <2>1. Ahead(m) \in SUBSET Dispatchers /\ Pushed(m) \in SUBSET Dispatchers
    BY DEF Ahead, Pushed
  <2> QED
    BY <2>1, CountOfRequests
<1>4. ASSUME NEW m \in Logs \ {l} PROVE Accounted(m)'
  <2>1. Ahead(m)' = Ahead(m)
    BY <1>0, <1>1 DEF Ahead, CbType
  <2>2. Pushed(m)' = Pushed(m)
    <3>1. \A c \in Dispatchers : m \in accepted'[c] <=> m \in accepted[c]
      <4>1. CASE accepted' = accepted
        BY <4>1
      <4>2. CASE accepted' = [accepted EXCEPT ![d] = @ \union {l}]
        BY <1>0, <4>2 DEF CbType
      <4> QED
        BY <1>2, <4>1, <4>2
    <3> QED
      BY <3>1 DEF Pushed
  <2>3. handled'[m] = handled[m] /\ faults' >= faults
    BY <1>0, <1>1, <1>2 DEF CbType
  <2> QED
    BY <1>0, <1>1, <1>3, <2>1, <2>2, <2>3, StaysAccounted
<1>5. Accounted(l)'
  <2>1. Ahead(l)' = Ahead(l) \ {d} /\ d \in Ahead(l) /\ d \notin Pushed(l)
    BY <1>0, <1>1 DEF Ahead, Pushed, CbType
  <2>2. Cardinality(Ahead(l)') = Cardinality(Ahead(l)) - 1
    BY <1>3, <2>1, FS_RemoveElement
  <2>3. \/ /\ handled'[l] = handled[l] + 1
           /\ Cardinality(Pushed(l)') = Cardinality(Pushed(l)) + 1
           /\ faults' = faults
        \/ /\ handled'[l] = handled[l] + 1
           /\ Cardinality(Pushed(l)') = Cardinality(Pushed(l))
           /\ faults' = faults + 1
        \/ /\ handled'[l] = handled[l]
           /\ Cardinality(Pushed(l)') = Cardinality(Pushed(l))
           /\ faults' = faults
    <3>1. CASE /\ handled' = [handled EXCEPT ![l] = @ + 1]
               /\ accepted' = [accepted EXCEPT ![d] = @ \union {l}]
               /\ faults' = faults
      <4>1. Pushed(l)' = Pushed(l) \union {d}
        BY <1>0, <3>1 DEF Pushed, CbType
      <4>2. Cardinality(Pushed(l)') = Cardinality(Pushed(l)) + 1
        BY <1>3, <2>1, <4>1, FS_AddElement
      <4> QED
        BY <1>0, <3>1, <4>2 DEF CbType
    <3>2. CASE /\ handled' = [handled EXCEPT ![l] = @ + 1]
               /\ accepted' = accepted
               /\ faults' = faults + 1
      BY <1>0, <3>2 DEF Pushed, CbType
    <3>3. CASE handled' = handled /\ accepted' = accepted /\ faults' = faults
      BY <1>0, <3>3 DEF Pushed, CbType
    <3> QED
      BY <1>2, <3>1, <3>2, <3>3
  <2>4. handled[l] \in Nat
    BY <1>0 DEF CbType
  <2>5. Accounted(l)
    BY DEF PushesInv
  <2>6. CASE logStatus[l] \in {"none", "waiting"}
    <3>1. handled'[l] <= Cardinality(Pushed(l)') + faults'
      BY <1>1, <1>3, <2>3, <2>4, <2>5, <2>6 DEF Accounted
    <3> QED
      BY <1>1, <2>6, <3>1 DEF Accounted, Pushed
  <2>7. CASE logStatus[l] \notin {"none", "waiting"}
    <3>1. handled[l] + Cardinality(Ahead(l)) <= Cardinality(Dispatchers) + faults
      BY <2>5, <2>7 DEF Accounted
    <3>2. handled'[l] + Cardinality(Ahead(l)') <= Cardinality(Dispatchers) + faults'
      BY <1>1, <1>3, <2>2, <2>3, <2>4, <3>1
    <3> QED
      BY <1>1, <2>7, <3>2 DEF Accounted, Ahead
  <2> QED
    BY <2>6, <2>7
<1>6. \A c \in Dispatchers, m \in Logs : ~(m \in todo'[c] /\ m \in accepted'[c])
  BY <1>0, <1>1, <1>2 DEF PushesInv, CbType
<1> QED
  BY <1>4, <1>5, <1>6 DEF PushesInv

\* A request that ends has nothing before it any more.
LEMMA EndPushes ==
  ASSUME PayInv, PayInv', PushesInv, NEW d \in Dispatchers, EndDispatch(d), NEW l \in Logs
  PROVE  /\ Ahead(l)' \subseteq Ahead(l)
         /\ Pushed(l)' = Pushed(l) \ {d}
         /\ IsFiniteSet(Pushed(l)) /\ Cardinality(Pushed(l)) \in Nat
<1>1. CbType
  BY DEF PayInv
<1>2. Pushed(l) \in SUBSET Dispatchers
  BY DEF Pushed
<1> QED
  BY <1>1, <1>2, EndDispatchShape, CountOfRequests DEF Ahead, Pushed

LEMMA CommitPushesStep ==
  ASSUME PayInv, PayInv', PushesInv, NEW d \in Dispatchers, CommitDispatch(d)
  PROVE  PushesInv'
<1>0. CbType /\ CbType'
  BY DEF PayInv
<1>1. UNCHANGED <<handled, faults>> /\ EndDispatch(d) /\ faults \in Nat
  BY <1>0 DEF CommitDispatch, CbType
<1>2. ASSUME NEW l \in Logs PROVE Accounted(l)'
  <2>1. logStatus'[l] = AfterPush(d, l)
    BY DEF CommitDispatch
  <2>2. logStatus'[l] \in {"none", "waiting"} =>
           logStatus'[l] = logStatus[l] /\ d \notin Pushed(l)
    BY <2>1 DEF AfterPush, Pushed
  <2>3. /\ Ahead(l)' \subseteq Ahead(l) /\ Cardinality(Pushed(l)) \in Nat
        /\ Pushed(l)' = Pushed(l) \ {d}
    BY <1>1, EndPushes
  <2>4. d \notin Pushed(l) => Pushed(l)' = Pushed(l)
    BY <2>3
  <2>5. logStatus'[l] \in {"none", "waiting"} =>
           /\ logStatus[l] \in {"none", "waiting"}
           /\ Cardinality(Pushed(l)) + faults <= Cardinality(Pushed(l)') + faults'
    <3> SUFFICES ASSUME logStatus'[l] \in {"none", "waiting"}
                 PROVE  /\ logStatus[l] \in {"none", "waiting"}
                        /\ Cardinality(Pushed(l)) + faults <= Cardinality(Pushed(l)') + faults'
      OBVIOUS
    <3>1. logStatus[l] \in {"none", "waiting"} /\ Pushed(l)' = Pushed(l)
      BY <2>2, <2>4
    <3>2. faults' = faults /\ faults \in Nat
      BY <1>1
    <3>3. Cardinality(Pushed(l)) + faults \in Nat
      BY <2>3, <3>2
    <3>4. Cardinality(Pushed(l)') + faults' = Cardinality(Pushed(l)) + faults
      BY <3>1, <3>2
    <3> QED
      BY <3>1, <3>3, <3>4
  <2>6. handled'[l] = handled[l] /\ faults' >= faults
    BY <1>1
  <2> QED
    BY <1>0, <2>3, <2>5, <2>6, StaysAccounted
<1>3. \A c \in Dispatchers, m \in Logs : ~(m \in todo'[c] /\ m \in accepted'[c])
  BY <1>0, <1>1, EndDispatchShape DEF PushesInv
<1> QED
  BY <1>2, <1>3 DEF PushesInv

LEMMA CrashPushesStep ==
  ASSUME PayInv, PayInv', PushesInv, NEW d \in Dispatchers, CrashDispatch(d)
  PROVE  PushesInv'
<1>0. CbType /\ CbType'
  BY DEF PayInv
<1>1. /\ UNCHANGED <<handled, logStatus>> /\ EndDispatch(d)
      /\ faults' = faults + 1 /\ faults \in Nat
  BY <1>0 DEF CrashDispatch, CbType, logVars
<1>2. ASSUME NEW l \in Logs PROVE Accounted(l)'
  <2>1. Cardinality(Pushed(l)) <= Cardinality(Pushed(l) \ {d}) + 1
    BY <1>1, EndPushes, FS_RemoveElement
  <2>2. Cardinality(Pushed(l) \ {d}) \in Nat /\ Cardinality(Pushed(l)) \in Nat
    BY <1>1, EndPushes, FS_RemoveElement, FS_CardinalityType
  <2>3. Cardinality(Pushed(l)) + faults <= Cardinality(Pushed(l)') + faults'
    BY <1>1, <2>1, <2>2, EndPushes
  <2> QED
    BY <1>0, <1>1, <2>3, EndPushes, StaysAccounted
<1>3. \A c \in Dispatchers, m \in Logs : ~(m \in todo'[c] /\ m \in accepted'[c])
  BY <1>0, <1>1, EndDispatchShape DEF PushesInv
<1> QED
  BY <1>2, <1>3 DEF PushesInv

LEMMA PushesInvStep == PayInv /\ PayInv' /\ PushesInv /\ [Next]_vars => PushesInv'
<1> SUFFICES ASSUME PayInv, PayInv', PushesInv, [Next]_vars PROVE PushesInv'
  OBVIOUS
<1>1. CASE UNCHANGED <<logStatus, handled, todo, accepted, faults>>
  BY <1>1, NoPushStep
<1>2. ASSUME NEW q \in Requests, NEW t \in Trades, BeginOrder(q, t) PROVE PushesInv'
  BY <1>1, <1>2 DEF BeginOrder, Read, cbVars, logVars, dispatchVars
<1>3. ASSUME NEW q \in Requests, NEW n \in RefundNos, BeginRefund(q, n) PROVE PushesInv'
  BY <1>1, <1>3 DEF BeginRefund, Read, cbVars, logVars, dispatchVars
<1>4. ASSUME NEW q \in Requests, Commit(q) \/ Rollback(q) PROVE PushesInv'
  BY <1>1, <1>4, ConfirmPushesStep
  DEF Commit, CommitCreate, CommitClose, CommitRefund, Rollback, cbVars, logVars, dispatchVars
<1>5. ASSUME NEW t \in Trades, Expire(t) PROVE PushesInv'
  BY <1>1, <1>5 DEF Expire, cbVars, logVars, dispatchVars
<1>6. ASSUME NEW l \in Logs, BecomeDue(l) PROVE PushesInv'
  BY <1>1, <1>6 DEF BecomeDue, dispatchVars
<1>7. CASE CbNext
  BY <1>6, <1>7, ScanPushesStep, PushPushesStep, CommitPushesStep, CrashPushesStep DEF CbNext
<1>8. CASE UNCHANGED vars
  BY <1>1, <1>8 DEF vars, cbVars, logVars, dispatchVars
<1> QED
  BY <1>2, <1>3, <1>4, <1>5, <1>7, <1>8 DEF Next

\* With any number of overlapping dispatch requests the merchant processes one
\* callback at most once for each of them, and once more for each fault.
THEOREM PushesBounded == Spec => []PushesAccounted
<1>1. PayInv /\ PushesInv => PushesAccounted
  <2> SUFFICES ASSUME PayInv, PushesInv, NEW l \in Logs
               PROVE  handled[l] <= Cardinality(Dispatchers) + faults
    BY DEF PushesAccounted
  <2>1. Accounted(l)
    BY DEF PushesInv
  <2>2. Ahead(l) \in SUBSET Dispatchers /\ Pushed(l) \in SUBSET Dispatchers
    BY DEF Ahead, Pushed
  <2>3. handled[l] \in Nat /\ faults \in Nat
    BY DEF PayInv, CbType
  <2>4. /\ Cardinality(Ahead(l)) \in Nat /\ Cardinality(Pushed(l)) \in Nat
        /\ Cardinality(Dispatchers) \in Nat
        /\ Cardinality(Pushed(l)) <= Cardinality(Dispatchers)
    BY <2>2, CountOfRequests
  <2> QED
    BY <2>1, <2>3, <2>4 DEF Accounted
<1>2. Init => PushesInv
  BY PushesInvInit
<1>3. PayInv /\ PayInv' /\ PushesInv /\ [Next]_vars => PushesInv'
  BY PushesInvStep
<1> QED
  BY <1>1, <1>2, <1>3, PaymentInvariant, PTL DEF Spec
=============================================================================
