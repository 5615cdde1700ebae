SPECIFICATION MCSpec
CONSTANTS
    Instances = {i1, i2, i3}
    NoToken = none
    Ttl = 2
    MaxMishaps = 1
    Events = {m1, m2}
    Poison = {m2}
    Writers = {w1, w2}
    Relays = {r1}
    MaxRetry = 2
    Batch = 1
    BackoffMax = 2
    NextRetryDelay <- BackoffTable
    MaxAge = 2
    MaxFaults = 1
    Signed = {n1}
    Handlers = {h1, h2}
    Processes = {w1, w2}
    Redis = redisStore
    NoRequest = none
    SignatureTtl = 1
    Parts = 2
    MaxLag = 1
    MaxTime = 6
    MaxRestarts = 1
    Senders = {c1, c2}
    MaxObjects = 2
    MaxBrokerDown = 1
    Hosts = {a, b}
    Deployments <- MCDeployments
    Requests = {r1, r2}
    Given = {t1}
    NoTrace = none
    Malformed = malformed
    Users = {u1, u2}
    OrderNos = {1, 2}
    Parcels = {x1}
    RefundNos = {f1}
    AddressIds = {1}
    SpuIds = {1}
    Queries = {q1}
    PageSize = 1
    MaxParcels = 1
    MaxWrites = 3
    Accounts = {u1}
    Roles = {user, admin}
    NoAccount = none
    MaxPairs = 3
    MaxScans = 2
    Waybills = {y1}
    Clients = {c1, c2}
    TraceNodes <- MCTraceNodes
    MaxClock = 7
    Mobiles = {m1}
    Sends = {s1, s2}
    RateLimit = 2
    Steps = 2
    MaxSmsTime = 7
    Payments = {o1}
    Refunds = {f1}
    PayTypes = {1, 2}
    Cashiers = {d1, d2}
    Reporters = {z1, z2}
    DayLength = 1
    MaxDays = 1
    Workers = {w1, w2}
    MaxKeys = 3
    MaxDeaths = 2
    Actors = {e1, e2, e3}
    NoActor = none
    Stock = 2
    MaxMarks = 3
INVARIANTS
    TypeOK
    RegisteredTogether
    OneLetterPerDeadMessage
    DuplicatesAccounted
    LapseOnlyBreaksExclusion
    OnlyStraysLeaveLocks
    RequestPassesOnce
    StartedTellsTheTruth
    DatabasesApart
    
    TraceIsOwn
    AnswersOwnRowsOfOneMoment
    RevocationEndsOldRoles
    StatusTellsTrace
    OneSmsPerWindow
    CountedOnce
    ReportsStayTrue
    SignaturesVerify
    RowCountsTellTheTruth
PROPERTIES
    ImplementsContract
    StatusNeverGoesBack
CHECK_DEADLOCK FALSE
