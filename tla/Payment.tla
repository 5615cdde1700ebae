------------------------------ MODULE Payment ------------------------------
(***************************************************************************)
(* The mock payment channel (aids-mock payment_channel.py and              *)
(* routes_payment.py): orders, refunds, and the callbacks a payment        *)
(* registers.  Each HTTP request is one database transaction that reads    *)
(* the order without locking it (REPEATABLE READ) and commits at its end;  *)
(* requests of several workers interleave between the two.  A request that *)
(* finds nothing to write has no step.                                     *)
(***************************************************************************)
EXTENDS CallbackLog

CONSTANTS
    Requests,       \* requests that may be in flight at once
    RefundNos,      \* out_refund_no of the merchant's refunds
    NoRefund,       \* the refund number of a request that is no refund
    RefundTrade,    \* the order a refund number is for
    RefundAmount,   \* its refund_amount
    Amount          \* the amount of every order

ASSUME PaymentAssumption ==
    /\ NoRefund \notin RefundNos
    /\ Amount \in Nat \ {0}
    /\ RefundTrade \in [RefundNos -> Trades]
    /\ RefundAmount \in [RefundNos -> Nat \ {0}]

VARIABLES
    payStatus,      \* mock_payment_order.status, "none" without a row
    refunded,       \* mock_payment_order.refunded_amount
    expired,        \* orders whose expire_time has passed
    refundRows,     \* rows of mock_refund_order, by out_refund_no
    request,        \* request[q]: what q is about to commit, or Idle
    overwritten     \* history: orders on which a commit replaced values
                    \* that had changed since it read them

orderVars == <<payStatus, refunded, expired, refundRows>>
payVars   == <<orderVars, request, overwritten>>
vars      == <<cbVars, payVars>>

Idle == [op |-> "idle", trade |-> NoTrade, no |-> NoRefund,
         status |-> "none", refunded |-> 0]

Init ==
    /\ CbInit
    /\ payStatus = [t \in Trades |-> "none"]
    /\ refunded = [t \in Trades |-> 0]
    /\ expired = {}
    /\ refundRows = {}
    /\ request = [q \in Requests |-> Idle]
    /\ overwritten = {}

-----------------------------------------------------------------------------
(* Reading: what the handlers check on the row they read                   *)

\* create_payment(): an order that exists is returned as it is.
MayCreate(t) == payStatus[t] = "none"

\* confirm_pay(): a paid order is returned, any other but a pending one is
\* refused, and so is an expired one (closing it is rolled back with the
\* ValueError that follows).
MayConfirm(t) == payStatus[t] = "pending" /\ t \notin expired

\* Mutation: closing does not look at the status.
MayCancel_AnyStatus(t) == payStatus[t] # "none"

\* close_payment(), called by cancel_pay().
MayCancel(t) == payStatus[t] = "pending"

\* timeout_close().
MayTimeOut(t) == payStatus[t] = "pending" /\ t \in expired

\* Mutation: the refund is compared with the amount alone.
WithinPaid_ThisRefundOnly(n) == RefundAmount[n] <= Amount

WithinPaid(n) == refunded[RefundTrade[n]] + RefundAmount[n] <= Amount

\* What refund() makes of the row it read: the amount is checked first, and
\* only then whether this refund was made before.
RefundOutcome(n) ==
    IF payStatus[RefundTrade[n]] = "success" /\ WithinPaid(n)
    THEN IF n \in refundRows THEN "existing" ELSE "new"
    ELSE "rejected"

Read(q, op, t, n) ==
    /\ request[q] = Idle
    /\ request' = [request EXCEPT ![q] =
           [op |-> op, trade |-> t, no |-> n,
            status |-> payStatus[t], refunded |-> refunded[t]]]
    /\ UNCHANGED <<cbVars, orderVars, overwritten>>

BeginOrder(q, t) ==
    \/ MayCreate(t)  /\ Read(q, "create", t, NoRefund)
    \/ MayConfirm(t) /\ Read(q, "confirm", t, NoRefund)
    \/ MayCancel(t)  /\ Read(q, "close", t, NoRefund)
    \/ MayTimeOut(t) /\ Read(q, "close", t, NoRefund)

BeginRefund(q, n) == RefundOutcome(n) = "new" /\ Read(q, "refund", RefundTrade[n], n)

-----------------------------------------------------------------------------
(* Committing: the ORM writes the columns the handler assigned             *)

Finish(q) ==
    /\ request' = [request EXCEPT ![q] = Idle]
    /\ LET r == request[q]
       IN  overwritten' =
               IF r.status = payStatus[r.trade] /\ r.refunded = refunded[r.trade]
               THEN overwritten ELSE overwritten \union {r.trade}

\* uk_out_trade_no lets one of two concurrent requests through.
CommitCreate(q) ==
    LET t == request[q].trade
    IN  /\ request[q].op = "create"
        /\ payStatus[t] = "none"
        /\ payStatus' = [payStatus EXCEPT ![t] = "pending"]
        /\ Finish(q)
        /\ UNCHANGED <<cbVars, refunded, expired, refundRows>>

\* Mutation: the callbacks are registered, the status change is not flushed.
CommitConfirm_LosesStatus(q) ==
    LET t == request[q].trade
    IN  /\ request[q].op = "confirm"
        /\ Register(t)
        /\ Finish(q)
        /\ UNCHANGED <<payStatus, refunded, expired, refundRows,
                       handled, dispatchVars, faults>>

\* The order is paid and its callbacks are registered in one transaction.
CommitConfirm(q) ==
    LET t == request[q].trade
    IN  /\ request[q].op = "confirm"
        /\ payStatus' = [payStatus EXCEPT ![t] = "success"]
        /\ Register(t)
        /\ Finish(q)
        /\ UNCHANGED <<refunded, expired, refundRows,
                       handled, dispatchVars, faults>>

CommitClose(q) ==
    /\ request[q].op = "close"
    /\ payStatus' = [payStatus EXCEPT ![request[q].trade] = "closed"]
    /\ Finish(q)
    /\ UNCHANGED <<cbVars, refunded, expired, refundRows>>

\* Mutation: the order row keeps its refunded_amount.
CommitRefund_RowOnly(q) ==
    LET r == request[q]
    IN  /\ r.op = "refund"
        /\ r.no \notin refundRows
        /\ refundRows' = refundRows \union {r.no}
        /\ Finish(q)
        /\ UNCHANGED <<cbVars, payStatus, refunded, expired>>

\* The refund row, and an absolute value for refunded_amount.
CommitRefund(q) ==
    LET r == request[q]
    IN  /\ r.op = "refund"
        /\ r.no \notin refundRows
        /\ refundRows' = refundRows \union {r.no}
        /\ refunded' = [refunded EXCEPT ![r.trade] = r.refunded + RefundAmount[r.no]]
        /\ Finish(q)
        /\ UNCHANGED <<cbVars, payStatus, expired>>

Commit(q) == CommitCreate(q) \/ CommitConfirm(q) \/ CommitClose(q) \/ CommitRefund(q)

\* A unique key refuses the INSERT, the injected channel failure is raised,
\* or the process dies: session_scope() rolls everything back.
Rollback(q) ==
    /\ request[q] # Idle
    /\ request' = [request EXCEPT ![q] = Idle]
    /\ UNCHANGED <<cbVars, orderVars, overwritten>>

\* expire_time of a pending order passes.
Expire(t) ==
    /\ payStatus[t] # "none"
    /\ t \notin expired
    /\ expired' = expired \union {t}
    /\ UNCHANGED <<cbVars, payStatus, refunded, refundRows, request, overwritten>>

Next ==
    \/ \E q \in Requests : \/ \E t \in Trades : BeginOrder(q, t)
                           \/ \E n \in RefundNos : BeginRefund(q, n)
                           \/ Commit(q)
                           \/ Rollback(q)
    \/ \E t \in Trades : Expire(t)
    \/ CbNext /\ UNCHANGED payVars

Spec == Init /\ [][Next]_vars

\* Time passes, somebody keeps calling /callbacks/dispatch ("in production a
\* loop does", routes_payment.py:177) and every post ends (timeout=10).
\* Nothing is assumed of the merchant and of the shopper.
Fairness ==
    /\ \A l \in Logs : WF_vars(BecomeDue(l) /\ UNCHANGED payVars)
    /\ \A d \in Dispatchers :
          /\ WF_vars(ScanDue(d) /\ UNCHANGED payVars)
          /\ WF_vars((\E l \in Logs : Push(d, l)) /\ UNCHANGED payVars)
          /\ WF_vars(CommitDispatch(d) /\ UNCHANGED payVars)

FairSpec == Spec /\ Fairness

-----------------------------------------------------------------------------
(* Properties                                                              *)

PayStatus == {"none", "pending", "success", "closed"}

\* The refund rows of an order, and their sum: the units of money they refund.
RefundsOf(t)   == {n \in refundRows : RefundTrade[n] = t}
RefundUnits(t) == UNION {{n} \X (1..RefundAmount[n]) : n \in RefundsOf(t)}
RefundSum(t)   == Cardinality(RefundUnits(t))

TypeOK ==
    /\ owner \in [Logs -> Trades \union {NoTrade}]
    /\ logStatus \in [Logs -> {"none", "waiting", "delivered", "failed", "abandoned"}]
    /\ retry \in [Logs -> 0..MaxCallbackRetry]
    /\ due \subseteq Registered
    /\ handled \in [Logs -> Nat]
    /\ todo \in [Dispatchers -> SUBSET Logs]
    /\ seen \in [Dispatchers -> [Logs -> 0..MaxCallbackRetry]]
    /\ accepted \in [Dispatchers -> SUBSET Logs]
    /\ refused \in [Dispatchers -> SUBSET Logs]
    /\ faults \in Nat
    /\ payStatus \in [Trades -> PayStatus]
    /\ refunded \in [Trades -> 0..Amount]
    /\ expired \subseteq Trades
    /\ refundRows \subseteq RefundNos
    /\ request \in [Requests ->
           {Idle} \union
           [op : {"create", "confirm", "close", "refund"}, trade : Trades,
            no : RefundNos \union {NoRefund}, status : PayStatus, refunded : 0..Amount]]
    /\ overwritten \subseteq Trades

\* refunded_amount is the sum of the refund rows as long as no commit on the
\* order replaced values it had not read, and a lost update can only make it
\* too small: never larger than the rows, and never larger than the payment.
RefundsBooked ==
    \A t \in Trades :
        /\ refunded[t] <= Amount
        /\ refunded[t] <= RefundSum(t)
        /\ t \notin overwritten => refunded[t] = RefundSum(t)

\* Without such a commit, only a paid order has callbacks or refunds, and a
\* confirmation that is repeated registers no second batch of callbacks.
OnlyPaidMoves ==
    \A t \in Trades \ overwritten :
        /\ LogsOf(t) # {} \/ RefundsOf(t) # {} => payStatus[t] = "success"
        /\ Cardinality(LogsOf(t)) <= Repeat

\* Without such a commit "paid" and "closed" are final, whatever confirm,
\* cancel and timeout-close requests are in flight together.
FinalStatusStays ==
    [][\A t \in Trades \ overwritten' :
          payStatus[t] \in {"success", "closed"} => payStatus'[t] = payStatus[t]]_vars

\* A callback is marked delivered only if the merchant processed it, though
\* two dispatch requests may push one row and overwrite each other's outcome.
DeliveredWasHandled ==
    \A l \in Logs : logStatus[l] = "delivered" => handled[l] > 0

\* One row is processed at most once per concurrent dispatch request, unless
\* a request crashes between the post and its commit or an answer is lost.
PushesAccounted ==
    \A l \in Logs : handled[l] <= Cardinality(Dispatchers) + faults

\* payment_channel.py:459: "success" from the merchant counts, "otherwise
\* retry with backoff, give up when over the limit".  Every callback ends
\* delivered or abandoned.
RetriedUntilSettled ==
    \A l \in Logs :
        (l \in Registered) ~> (logStatus[l] \in {"delivered", "abandoned"})

\* tests/api/test_mock_payment.py:7: the refunds of an order together may not
\* exceed the amount paid.
RefundsWithinPaid == \A t \in Trades : RefundSum(t) <= Amount

\* mock_schema.sql:63: refunds are idempotent by the merchant's refund number,
\* so asking again for a refund that was made finds it.
RepeatedRefundFound == \A n \in refundRows : RefundOutcome(n) = "existing"
=============================================================================
