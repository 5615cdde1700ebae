SPECIFICATION FairSpec
CONSTANTS
    Trades = {t1}
    NoTrade = none
    Bought = t1
    NoRefund = none
    RefundTrade <- AllOfBought
    RefundAmount <- EachTheSame
    MaxLogs = 1
    Dispatchers = {d1}
    Limit = 20
    Repeat = 1
    MaxCallbackRetry = 5
    MaxFaults = 0
    Requests = {q1}
    RefundNos = {}
    RefundEach = 2
    Amount = 3
PROPERTY RetriedUntilSettled
CHECK_DEADLOCK FALSE
