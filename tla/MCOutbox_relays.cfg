SPECIFICATION FairSpec
CONSTANTS
    Events = {e1, e2}
    Poison = {}
    Writers = {w1}
    Relays = {r1, r2}
    MaxRetry = 2
    Batch = 2
    BackoffMax = 2
    NextRetryDelay <- BackoffTable
    MaxAge = 0
    MaxFaults = 1
INVARIANTS NoPhantomEvent NothingLost
PROPERTY EventuallySettled
