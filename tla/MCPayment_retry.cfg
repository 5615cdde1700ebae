SPECIFICATION Spec
CONSTANTS
    Trades = {t1}
    NoTrade = none
    Bought = t1
    NoRefund = none
    RefundTrade <- AllOfBought
    RefundAmount <- EachTheSame
    MaxLogs = 1
    Dispatchers = {}
    Limit = 20
    Repeat = 1
    MaxCallbackRetry = 5
    MaxFaults = 0
    Requests = {q1}
    RefundNos = {n1}
    RefundEach = 3
    Amount = 3
INVARIANT RepeatedRefundFound
CHECK_DEADLOCK FALSE
