SPECIFICATION Spec
CONSTANTS
    Trades = {t1}
    NoTrade = none
    Bought = t1
    NoRefund = none
    RefundTrade <- AllOfBought
    RefundAmount <- EachTheSame
    MaxLogs = 2
    Dispatchers = {d1, d2}
    Limit = 1
    Repeat = 1
    MaxCallbackRetry = 5
    MaxFaults = 1
    Requests = {q1, q2}
    RefundNos = {n1, n2, n3}
    RefundEach = 1
    Amount = 2
INVARIANTS TypeOK RefundsBooked OnlyPaidMoves DeliveredWasHandled PushesAccounted
PROPERTY FinalStatusStays
CHECK_DEADLOCK FALSE
SYMMETRY Symmetry
