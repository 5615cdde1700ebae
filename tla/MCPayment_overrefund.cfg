SPECIFICATION Spec
CONSTANTS
    Trades = {t1}
    NoTrade = none
    Bought = t1
    NoRefund = none
    RefundTrade <- AllOfBought
    RefundAmount <- EachTheSame
    MaxLogs = 1
    Dispatchers = {}
    Limit = 20
    Repeat = 1
    MaxCallbackRetry = 5
    MaxFaults = 0
    Requests = {q1, q2}
    RefundNos = {n1, n2, n3}
    RefundEach = 1
    Amount = 2
INVARIANT RefundsWithinPaid
CHECK_DEADLOCK FALSE
