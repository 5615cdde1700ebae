------------------------------- MODULE Recon -------------------------------
(***************************************************************************)
(* The daily report of the payment channel (build_daily_recon() in         *)
(* payment_channel.py, daily_recon() in routes_payment.py), beside the     *)
(* requests that write what it reads: confirm_pay(), the two ways to close *)
(* an order, and refund().  A payment belongs to the day of pay_time, a    *)
(* refund to that of create_time.  These rows are those of Payment, seen   *)
(* here with their times and without amounts and callbacks.                *)
(***************************************************************************)
EXTENDS Naturals

CONSTANTS
    Payments,       \* MockPaymentOrder rows, all of them there from the start
    Refunds,        \* MockRefundOrder rows, one for each request for a refund
    PayTypes,
    Cashiers,       \* requests that confirm or close an order; each is made once
    Reporters,      \* requests for a report; each is made once
    DayLength,      \* steps of the clock in a day
    MaxDays         \* bound on the clock

ASSUME ReconAssumption ==
    /\ DayLength \in Nat \ {0}
    /\ MaxDays \in Nat

Days == 0..MaxDays

VARIABLES
    hour,       \* the clock
    payType,    \* payType[p]: pay_type of p
    payment,    \* payment[p]: status and pay_time of p
    cashier,    \* cashier[c]: what the transaction of c writes to which payment
    overlaps,   \* <<c, d>>: c committed while d had read the same payment
    refund,     \* refund[f]: the transaction that inserts f, with create_time
    report      \* report[r]: day, pay type and content of the report of r

reconVars == <<hour, payType, payment, cashier, overlaps, refund, report>>

NotMade == [at |-> "new"]

\* A pending payment has no pay_time; nothing reads the 0 that stands for it.
ReconInit ==
    /\ hour = 0
    /\ payType \in [Payments -> PayTypes]
    /\ payment = [p \in Payments |-> [status |-> "pending", time |-> 0]]
    /\ cashier = [c \in Cashiers |-> NotMade]
    /\ overlaps = {}
    /\ refund = [f \in Refunds |-> NotMade]
    /\ report = [r \in Reporters |-> NotMade]

-----------------------------------------------------------------------------
(* Payments *)

\* Mutation: an order that is paid may be confirmed again.
Payable_Again(p) == payment[p].status \in {"pending", "paid"}

\* Both confirm_pay() and the closing paths go on for a pending order only.
Payable(p) == payment[p].status = "pending"

UnderWay(c) == cashier[c].at = "open"
HasWritten(c) == cashier[c].at = "committed"

\* confirm_pay(), close_payment() or timeout_close() reads the order, without
\* a lock, and sets status, and the time of the payment ...
ReadOrder(c) ==
    /\ cashier[c] = NotMade
    /\ \E p \in Payments, sets \in {"paid", "closed"} :
        /\ Payable(p)
        /\ cashier' = [cashier EXCEPT ![c] = [at |-> "open", of |-> p, sets |-> sets, time |-> hour]]
    /\ UNCHANGED <<hour, payType, payment, overlaps, refund, report>>

\* ... and its commit writes the columns it changed, whatever they are by now.
WriteOrder(c) ==
    /\ UnderWay(c)
    /\ LET p == cashier[c].of
       IN  payment' = [payment EXCEPT ![p] =
               [status |-> cashier[c].sets,
                time   |-> IF cashier[c].sets = "paid" THEN cashier[c].time ELSE @.time]]
    /\ cashier' = [cashier EXCEPT ![c].at = "committed"]
    /\ overlaps' = overlaps \union
           {<<c, d>> : d \in {d \in Cashiers \ {c} : UnderWay(d) /\ cashier[d].of = cashier[c].of}}
    /\ UNCHANGED <<hour, payType, refund, report>>

\* schedule_callbacks() raises, or the commit fails.
AbandonOrder(c) ==
    /\ UnderWay(c)
    /\ cashier' = [cashier EXCEPT ![c].at = "rolled back"]
    /\ UNCHANGED <<hour, payType, payment, overlaps, refund, report>>

-----------------------------------------------------------------------------
(* Refunds *)

\* refund() of some paid order inserts a row, create_time set ...
InsertRefund(f) ==
    /\ refund[f] = NotMade
    /\ \E p \in Payments : payment[p].status = "paid"
    /\ refund' = [refund EXCEPT ![f] = [at |-> "open", time |-> hour]]
    /\ UNCHANGED <<hour, payType, payment, cashier, overlaps, report>>

\* ... and the transaction commits later, or not at all.
EndRefund(f) ==
    /\ refund[f].at = "open"
    /\ \E at \in {"committed", "rolled back"} : refund' = [refund EXCEPT ![f].at = at]
    /\ UNCHANGED <<hour, payType, payment, cashier, overlaps, report>>

-----------------------------------------------------------------------------
(* Reports *)

\* Mutation: the end of the day belongs to both days.
InDay_Closed(time, day) == time >= day * DayLength /\ time <= (day + 1) * DayLength

\* day_start <= time < day_end
InDay(time, day) == time >= day * DayLength /\ time < (day + 1) * DayLength

PaymentsOf(day, type) ==
    {p \in Payments : /\ payType[p] = type
                      /\ payment[p].status = "paid"
                      /\ InDay(payment[p].time, day)}

\* Refunds are not selected by pay type.
RefundsOf(day) ==
    {f \in Refunds : refund[f].at = "committed" /\ InDay(refund[f].time, day)}

\* Any day may be asked for, the current one included.
BuildReport(r) ==
    /\ report[r] = NotMade
    /\ \E day \in Days, type \in PayTypes :
        report' = [report EXCEPT ![r] =
            [at |-> "built", day |-> day, type |-> type,
             payments |-> PaymentsOf(day, type), refunds |-> RefundsOf(day)]]
    /\ UNCHANGED <<hour, payType, payment, cashier, overlaps, refund>>

StoredReports == {r \in Reporters : report[r].at = "stored"}

\* uk_date_type
SecondReport(r) ==
    \E q \in StoredReports : report[q].day = report[r].day /\ report[q].type = report[r].type

\* The row of MockReconFile is inserted at the commit, which fails for a
\* second report of the day and type.
StoreReport(r) ==
    /\ report[r].at = "built"
    /\ report' = [report EXCEPT ![r].at = IF SecondReport(r) THEN "failed" ELSE "stored"]
    /\ UNCHANGED <<hour, payType, payment, cashier, overlaps, refund>>

ReconTick ==
    /\ hour + 1 < (MaxDays + 1) * DayLength
    /\ hour' = hour + 1
    /\ UNCHANGED <<payType, payment, cashier, overlaps, refund, report>>

ReconNext ==
    \/ \E c \in Cashiers : ReadOrder(c) \/ WriteOrder(c) \/ AbandonOrder(c)
    \/ \E f \in Refunds : InsertRefund(f) \/ EndRefund(f)
    \/ \E r \in Reporters : BuildReport(r) \/ StoreReport(r)
    \/ ReconTick

ReconSpec == ReconInit /\ [][ReconNext]_reconVars

-----------------------------------------------------------------------------
(* Properties *)

\* c and d both wrote p, and neither had seen what the other wrote.
WroteBeside(c, d, p) ==
    /\ <<c, d>> \in overlaps \/ <<d, c>> \in overlaps
    /\ HasWritten(c) /\ cashier[c].of = p
    /\ HasWritten(d) /\ cashier[d].of = p

\* The payment p was confirmed by c on the given day.
ConfirmedOn(c, p, day) ==
    HasWritten(c) /\ cashier[c].of = p /\ cashier[c].sets = "paid" /\ InDay(cashier[c].time, day)

\* Of two stored reports of a pay type, both count a payment only if it was
\* confirmed on either day by requests that ran beside each other, and both
\* count no refund; nothing that was rolled back is counted.  (Over all pay
\* types a refund is counted once for each: payment_channel.py:289-299.)
CountedOnce ==
    \A q, r \in StoredReports :
        /\ \A f \in report[r].refunds : refund[f].at = "committed"
        /\ \A p \in report[r].payments : \E c \in Cashiers : ConfirmedOn(c, p, report[r].day)
        /\ q # r /\ report[q].type = report[r].type =>
            /\ report[q].refunds \intersect report[r].refunds = {}
            /\ \A p \in report[q].payments \intersect report[r].payments :
                \E c, d \in Cashiers : /\ WroteBeside(c, d, p)
                                       /\ ConfirmedOn(c, p, report[q].day)
                                       /\ ConfirmedOn(d, p, report[r].day)

\* A payment that a stored report counts is still paid, and on that day: no
\* later request changes it but one that ran beside the confirmation.
ReportsStayTrue ==
    \A r \in StoredReports : \A p \in report[r].payments :
        \/ payment[p].status = "paid" /\ InDay(payment[p].time, report[r].day)
        \/ \E c, d \in Cashiers : WroteBeside(c, d, p)
=============================================================================
