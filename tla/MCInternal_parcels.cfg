SPECIFICATION InternalSpec
CONSTANTS
    Users = {u1}
    OrderNos = {1}
    Parcels = {x1, x2}
    RefundNos = {f1}
    AddressIds = {1}
    SpuIds = {1}
    Queries = {q1}
    PageSize = 1
    MaxParcels = 2
    MaxWrites = 3
INVARIANT QueriesAreAnswered
CHECK_DEADLOCK FALSE
