---------------------------- MODULE CallbackLog ----------------------------
(***************************************************************************)
(* The payment callbacks of the mock channel (aids-mock payment_channel):  *)
(* rows of mock_callback_log, registered by the transaction that pays an   *)
(* order, and pushed to the merchant by dispatch_due_callbacks(), whose    *)
(* changes commit together when its HTTP request ends.  Several dispatch   *)
(* requests may run at once, in the two worker processes of the service.   *)
(***************************************************************************)
EXTENDS Naturals, FiniteSets

CONSTANTS
    Trades,         \* out_trade_no of the merchant's orders
    NoTrade,        \* the owner of a row that does not exist
    MaxLogs,        \* bound: rows of mock_callback_log
    Dispatchers,    \* requests to /callbacks/dispatch that may run at once
    Limit,          \* rows one request takes
    Repeat,         \* MOCK_CALLBACK_REPEAT_TIMES
    MaxCallbackRetry,
    MaxFaults       \* bound: crashed requests and lost answers

ASSUME CallbackAssumption ==
    /\ NoTrade \notin Trades
    /\ MaxLogs \in Nat
    /\ IsFiniteSet(Dispatchers)
    /\ Limit \in Nat \ {0}
    /\ Repeat \in Nat \ {0}
    /\ MaxCallbackRetry \in Nat \ {0}
    /\ MaxFaults \in Nat

VARIABLES
    owner,      \* owner[l]: out_trade_no of row l
    logStatus,  \* mock_callback_log.status
    retry,      \* mock_callback_log.retry_count
    due,        \* rows whose next_retry_time has come
    handled,    \* handled[l]: how often the merchant processed row l
    todo,       \* todo[d]: rows of the request not pushed yet
    seen,       \* seen[d]: retry_count of the rows when d read them
    accepted,   \* accepted[d]: rows the merchant answered with "success"
    refused,    \* refused[d]: rows that got another answer, or none
    faults      \* crashed requests and lost answers so far

logVars      == <<owner, logStatus, retry, due>>
dispatchVars == <<todo, seen, accepted, refused>>
cbVars       == <<logVars, handled, dispatchVars, faults>>

\* Snowflake ids grow in the order of the INSERTs.
Logs       == 1..MaxLogs
Registered == {l \in Logs : owner[l] # NoTrade}
LogsOf(t)  == {l \in Logs : owner[l] = t}
Pushing(d) == todo[d] \union accepted[d] \union refused[d] # {}

CbInit ==
    /\ owner = [l \in Logs |-> NoTrade]
    /\ logStatus = [l \in Logs |-> "none"]
    /\ retry = [l \in Logs |-> 0]
    /\ due = {}
    /\ handled = [l \in Logs |-> 0]
    /\ todo = [d \in Dispatchers |-> {}]
    /\ seen = [d \in Dispatchers |-> [l \in Logs |-> 0]]
    /\ accepted = [d \in Dispatchers |-> {}]
    /\ refused = [d \in Dispatchers |-> {}]
    /\ faults = 0

\* schedule_callbacks(): Repeat rows less those the fault injection loses.
Register(t) ==
    \E n \in 0..Repeat :
        LET used == Cardinality(Registered)
            new  == (used + 1)..(used + n)
        IN  /\ new \subseteq Logs
            /\ owner' = [l \in Logs |-> IF l \in new THEN t ELSE owner[l]]
            /\ logStatus' = [l \in Logs |-> IF l \in new THEN "waiting" ELSE logStatus[l]]
            /\ UNCHANGED <<retry, due>>

\* next_retry_time of a row passes.
BecomeDue(l) ==
    /\ l \in Registered \ due
    /\ due' = due \union {l}
    /\ UNCHANGED <<owner, logStatus, retry, handled, dispatchVars, faults>>

\* Mutation: rows that were delivered are selected again.
Selectable_Delivered == {l \in due : logStatus[l] \in {"waiting", "delivered"}}

\* The WHERE clause of dispatch_due_callbacks(): waiting rows only.
Selectable == {l \in due : logStatus[l] = "waiting"}

ScanDue(d) ==
    /\ ~Pushing(d)
    /\ \E rows \in SUBSET Selectable :
         /\ rows # {}
         /\ \/ rows = Selectable /\ Cardinality(rows) <= Limit
            \/ Cardinality(rows) = Limit
         /\ \A l \in rows, m \in Selectable \ rows : l < m
         /\ todo' = [todo EXCEPT ![d] = rows]
    /\ seen' = [seen EXCEPT ![d] = retry]
    /\ UNCHANGED <<logVars, handled, accepted, refused, faults>>

NextToPush(d, l) ==
    /\ l \in todo[d]
    /\ \A m \in todo[d] : l <= m
    /\ todo' = [todo EXCEPT ![d] = @ \ {l}]

\* The merchant processes the callback and the channel reads its "success".
PushAccepted(d, l) ==
    /\ NextToPush(d, l)
    /\ handled' = [handled EXCEPT ![l] = @ + 1]
    /\ accepted' = [accepted EXCEPT ![d] = @ \union {l}]
    /\ UNCHANGED <<logVars, seen, refused, faults>>

\* The merchant does not process it: refused, unreachable, other answer.
PushRefused(d, l) ==
    /\ NextToPush(d, l)
    /\ refused' = [refused EXCEPT ![d] = @ \union {l}]
    /\ UNCHANGED <<logVars, handled, seen, accepted, faults>>

\* The merchant processes it and the answer is lost or late (timeout=10).
PushAnswerLost(d, l) ==
    /\ NextToPush(d, l)
    /\ faults < MaxFaults
    /\ faults' = faults + 1
    /\ handled' = [handled EXCEPT ![l] = @ + 1]
    /\ refused' = [refused EXCEPT ![d] = @ \union {l}]
    /\ UNCHANGED <<logVars, seen, accepted>>

Push(d, l) == PushAccepted(d, l) \/ PushRefused(d, l) \/ PushAnswerLost(d, l)

EndDispatch(d) ==
    /\ todo' = [todo EXCEPT ![d] = {}]
    /\ seen' = [seen EXCEPT ![d] = [l \in Logs |-> 0]]
    /\ accepted' = [accepted EXCEPT ![d] = {}]
    /\ refused' = [refused EXCEPT ![d] = {}]

\* Mutation: the answer of the merchant is not looked at.
AfterPush_AnyAnswer(d, l) ==
    IF l \in accepted[d] \union refused[d] THEN "delivered" ELSE logStatus[l]

\* The status a row gets when the changes of d are flushed.
AfterPush(d, l) ==
    CASE l \in accepted[d] -> "delivered"
      [] l \in refused[d]  -> IF seen[d][l] + 1 >= MaxCallbackRetry
                              THEN "abandoned" ELSE "failed"
      [] OTHER             -> logStatus[l]

CommitDispatch(d) ==
    /\ Pushing(d) /\ todo[d] = {}
    /\ logStatus' = [l \in Logs |-> AfterPush(d, l)]
    /\ retry' = [l \in Logs |-> IF l \in refused[d] THEN seen[d][l] + 1 ELSE retry[l]]
    /\ due' = due \ {l \in refused[d] : AfterPush(d, l) = "failed"}
    /\ EndDispatch(d)
    /\ UNCHANGED <<owner, handled, faults>>

\* The process dies or the commit fails: no push of the request is recorded.
CrashDispatch(d) ==
    /\ Pushing(d)
    /\ faults < MaxFaults
    /\ faults' = faults + 1
    /\ EndDispatch(d)
    /\ UNCHANGED <<logVars, handled>>

CbNext ==
    \/ \E l \in Logs : BecomeDue(l)
    \/ \E d \in Dispatchers : \/ ScanDue(d)
                              \/ \E l \in Logs : Push(d, l)
                              \/ CommitDispatch(d)
                              \/ CrashDispatch(d)
=============================================================================
