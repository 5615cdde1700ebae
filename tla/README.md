# Verification of the AIDS shop

TLA+ modules, TLC configurations and TLAPS proofs about the program under
`src/`: a shop backend (`aids-backend`), a mock of the external payment,
logistics and SMS channels (`aids-mock`), two browser clients (`aids-mall`,
`aids-admin`), an AI service that is still a skeleton (`aids-ai`), and the
library they share (`app/`).  Most business routers are empty so far; the logic
worth verifying is in the shared infrastructure, the payment channel and the
token life cycle.  `PROJECT.json` names, for every definition, the lines it
models.

## Components

| component | state | operations | interacts with |
|---|---|---|---|
| transactional outbox, `app/core/outbox.py` | rows of `sys_local_message`, `sys_dead_letter` | `enqueue`, `dispatch_once`, `run_forever` | business transactions (same commit), Kafka, operators |
| database sessions, `app/orm/session.py`, `aids_mock/db.py` | one transaction per request or round | commit at the end, rollback on any exception | everything that stores |
| payment channel, `aids_mock/payment_channel.py`, `routes_payment.py` | orders, refunds | create, confirm, cancel, timeout-close, refund, query, daily reconciliation | merchant (requests, callbacks), shopper (cashier page) |
| payment callbacks, same file | rows of `mock_callback_log` | `schedule_callbacks`, `dispatch_due_callbacks` | merchant over HTTP |
| refresh and logout, `api/auth.py`, `refresh_store.py`, `jwt.py`, `security.py` | refresh tokens in Redis | `refresh`, `logout`, `revoke_all_of` | browser tabs |
| browser tokens, `http.ts`, `refreshQueue.ts`, `tokenStore.ts`, `auth.ts` | localStorage, module variables, one refresh in flight per tab | interceptors, `doRefresh`, `logout` | the API, other tabs |
| distributed lock, `app/core/redis.py` | one key per lock, `_held` of each instance | acquire, renew, release | Redis expiry |
| snowflake ids, `app/orm/snowflake.py` | last millisecond, sequence | `next_id` | system clock, other processes |
| service authentication, `service_auth.py` | nonces seen, in Redis or per process | `require_internal`, `verify_replay_fresh` | callers, clock |
| runtime configuration, `sys_config.py` | cached values of each process | `load`, `reload_config`, `watch_invalidations` | table `sys_config`, Redis pub/sub |
| Kafka producer, `kafka_producer.py` | the producer object, `_started` | start on first use, stop, reset | relay, shutdown |
| role guards and revocation, `security.py`, `refresh_store.py` | refresh tokens of all logins, roles in the claims | `require_roles`, `revoke_all_of` | refresh, SCAN of Redis |
| logistics channel, `routes_logistics.py` | waybills, their nodes | create, query (adds the nodes that are due) | shop, clock |
| SMS channel, `routes_sms.py` | records of messages | `send_sms` | clock |
| channel keys, `aids_mock/rsa.py` | two key files | `ensure_keypair` whenever a callback is signed | processes of the channel, merchant |
| conditional updates, `app/orm/optimistic.py`, `soft_delete.py` | version and `deleted` columns | update, delete, restore | overlapping transactions |
| internal queries, `api/internal.py`; `repository.py`, `pagination.py` | none of its own | five queries of the AI service; pages and rows of one owner | everything the shop writes |
| request pipeline, `trace.py`, `handlers.py`, `errors.py`, `logging.py` | a context variable per request | middleware, exception handlers, log lines | every route |
| start-up and settings, `config.py`, `main.py` of each service | the environment | assertions S1-a to S1-e, settings read when needed | supervisor, requests |

The services run in several worker processes (`deploy/app/backend.Dockerfile`:
four, `mock.Dockerfile`: two), each with its own event loop, so requests
interleave at every `await` and rows are shared through MySQL with snapshot
reads and no locks.

### What is hard here

* Rows are read without a lock, changed in memory and written at the commit:
  the relay, the callback dispatch and every payment request can overwrite what
  they did not see.
* The relay and the dispatcher talk to another system before they commit; a
  crash in between repeats what was done.
* The uniqueness constraints, not the checks before them, decide races.
* A refresh token is consumed and its successor saved in two steps; tabs share
  tokens but not the single-flight coordinator.
* Ids depend on the wall clock, which may step back, on memory a restart loses,
  and on a worker id that no two processes may share.
* Time: backoff counted from the start of a round, tokens and orders that
  expire between two steps, a lock that lapses under its holder, a nonce and a
  signature that are good for different times in whole seconds.
* What a process holds may be old: a configuration whose invalidation was
  missed, roles copied from token to token, a key file another process is
  about to write.

`PROJECT.json` lists these as `hazards`, at their lines, with the properties
that cover them.

### What makes each component correct

* Outbox: a business row and its message commit together; nothing is sent that
  was not committed; nothing leaves the backlog without having arrived or having
  a dead letter; copies are accounted for; every message is settled.
* Orders: paid and closed are final; only paid orders move money or call back;
  the booked sum agrees with the refunds.
* Callbacks: "delivered" is true; no row is pushed more often than overlaps and
  faults explain; each is delivered or given up.
* Session: a refresh token is good for one exchange; a logout is final; nobody is
  thrown out by overtaking refreshes; no call waits for ever.
* Locks: two are inside together only after a lapse; only accidents leave a
  lock behind.
* Configuration: what a process has is one committed table, never an older one
  again, and in the end the last.
* Requests between services: a signed one takes effect once.
* Roles: after a revocation nothing that is issued carries the old ones.
* Waybills: the status is that of the last node, no node before it is missing,
  and it never goes back.
* Messages, reports, keys: one message a window; a payment or refund in one
  report of a pay type, and what is in a report stays so; what was signed can be
  verified.
* Rows: who is told that an update took effect changed the row.
* Internal queries: one moment of the user's own rows.
* Pipeline: a log line and an answer carry the id of their own request, never
  that of another.
* Start-up: production and test never share the production database; what
  fails late is what no assertion looks at.
* Ids: none is handed out twice, and those of a process increase, as long as
  `next_id()` can see that the clock stepped back.

## Modules

| module | models |
|---|---|
| `OutboxContract` | the abstract promise: an event is owed, may arrive, is settled once |
| `Outbox` | writers with `enqueue()`, relays with `dispatch_once()`, the broker |
| `Outbox_proofs` | theorems for any number of events, writers and relays, and for one relay the refinement |
| `CallbackLog` | callback rows, overlapping dispatch requests, the merchant |
| `Payment` | extends `CallbackLog` with orders and refunds; the composition of both |
| `Payment_proofs` | theorems about the composition |
| `Session` | the server's refresh store together with the tabs of one login |
| `Session_proofs` | theorems for any number of tabs and calls |
| `Snowflake` | `next_id()` in the threads of several processes, the clock, restarts |
| `Snowflake_proofs` | theorems for any number of threads and processes, any field widths |
| `Lock` | `RedisLock` of any number of callers with expiry, crashes, lost answers |
| `Config` | the table, its broadcasts, the cache, watcher and reloads of each process |
| `ServiceAuth` | copies of signed requests, both nonce stores, whole seconds |
| `Rows` | conditional updates and deletion marks in overlapping transactions |
| `Producer` | the object and `_started` across the awaits of `start()` and `stop()` |
| `Tokens` | many logins: roles in the claims, refresh, guards, `revoke_all_of()` with SCAN or in memory |
| `Logistics`, `Sms` | waybills and nodes; messages in a window |
| `Recon` | daily reports beside the requests that write orders and refunds, with their times |
| `Keys` | two files, opened and written one after the other by several processes |
| `Internal` | the queries as statements in one snapshot beside a shop that writes |
| `Pipeline` | middleware, handlers and log lines of requests that interleave |
| `Startup` | assertions and late settings over a set of deployments |
| `Core_proofs` | theorems about `Lock`, `Config`, `ServiceAuth`, `Producer` and `Rows` |
| `Channel_proofs` | theorems about `Logistics`, `Sms`, `Recon` and `Keys` |
| `Requests_proofs` | theorems about `Internal`, `Pipeline` and `Startup` |
| `Tokens_proofs` | theorems about `Tokens` |
| `MCOutbox`, `MCPayment`, `MCPipeline`, `MCSession`, `MCSnowflake` | small instances |
| `MCFair` | one instance of `Session` and one of `Config`, whose promises need fairness |
| `MCComponents` | one instance of each of thirteen components, one of which runs |
| `MCInternal` | the internal queries alone, with two parcels |

How the models read the code:

* A **transaction** is two steps: one reads the rows and decides (guards are the
  handler's checks), one commits what was assigned, with the values computed
  from what was read.  Only assigned columns are written, as the ORM does.
  `Rollback`, `AbortBusiness`, `RejectBusiness`, `CrashRound`, `CrashDispatch`
  leave the rows alone, as `session_scope()` does on any exception.
* The **relay round** and the **dispatch request** read their batch (`Scan`,
  `ScanDue`), try each row in id order (`Attempt`, `Push`), and commit all
  outcomes together (`CommitRound`, `CommitDispatch`).
* **Time** in `Outbox` is the distance to `next_retry_time` (`wait`) and the age
  of the round (`age`), in units of the 10-second base.  The code stores an
  absolute time that may lie in the past; all that is due has distance 0.  In
  `Payment` the passing of a deadline is an event (`BecomeDue`, `Expire`).
* **Ids of outbox rows** are any free number, not the order of the commits: a
  snowflake id is taken before the transaction commits, perhaps on another host.
* **Orders and refunds** are modelled twice, each time with what the properties
  need: in `Payment` with amounts and callbacks, in `Recon` with `pay_type`,
  `pay_time` and `create_time`.  Both let overlapping requests read one order
  before either commits, and the later commit overwrite the other.
* **Tokens** in `Session` are numbered pairs: `issue_token_pair()` puts one `sid`
  in both tokens, so a pair needs one name.  `LoseRefresh` stands for a request
  or answer lost and for a handler that dies between `consume()` and `save()`:
  the tab cannot tell them apart.
* **Ids** in `Snowflake` are the numbers the code computes, over field widths that
  are constants.  The lock and each reading of the clock delimit the steps;
  `time.sleep()` measures real time (`left`), not the clock.  A call that raises
  `ClockMovedBackwardsError` changes nothing: there is no step for it.
* **Redis** is atomic call by call: SET NX, a Lua script, GETDEL and one step of
  SCAN are steps.  SCAN (`VisitKey`) returns what was there when it began in any
  order, and may return what is set meanwhile.
* **Clocks** run in the unit the code compares: parts of a second where whole
  seconds are cut off (`ServiceAuth`, `Sms`), seconds in `Logistics`, steps of a
  day in `Recon`, time to live in `Lock`.
* **Writers without code in the tree** (the administrator who changes
  `sys_config` and publishes, the shop that fills the tables `Internal` reads,
  the caller of `update_with_version()`) are modelled as their users expect
  them: `sys_config.py` says what is published, the tables and statements say
  what a row may be.
* **External** parts are Kafka (up or down, some messages rejected always), the
  merchant (answers "success" or not, answers may be lost), and the clock.

## Runs

| run | shows | bounds |
|---|---|---|
| `outbox_relays` | two relays that overwrite each other still lose nothing, invent nothing and settle everything, over a crash or a lost acknowledgement | 2 events, 2 relays, limit 2, batch 2, 1 fault, no time counted within a round |
| `payment_races` | orders, refunds and callbacks under overlapping requests and dispatches | 1 order, 2 requests, 3 refunds of 1 out of 2, 2 dispatches, 1 fault |
| `payment_callback` | violated: a failed push is never retried | the constants of the code, 1 callback |
| `payment_overrefund` | violated: two overlapping refunds exceed the payment | 2 requests, 3 refunds of 1 out of 2 |
| `payment_retry` | violated: a repeated full refund is refused | 1 refund |
| `tabs_and_config` | one live refresh token, logouts that found it are final, no false logout, every call ends; no process goes back to an older configuration, and each ends up with the last | 2 tabs, 2 calls, 1 fault; 1 process, 2 keys, 2 changes, 1 loss |
| `session_logout` | violated: a logout that meets a rotation does not end the session | 1 tab, 3 calls |
| `snowflake_clock` | ids are unique and increase over steps back, restarts and full milliseconds | 2 processes with 2 and 1 threads, 2 ids a millisecond, times 0 to 2, tolerance 1, 2 steps back or restarts |
| `snowflake_workers` | violated: two processes of a host hand out one id | the same without faults, one worker id |
| `components` | the properties of the thirteen components below | see below |
| `unhandled_trace` | violated: every response carries its trace id | 2 requests |
| `internal_parcels` | violated: the trace of an order in two parcels is answered | 1 order, 2 waybills, 1 query |

The bounds are the smallest at which the hazards occur: two actors on one row
(a third adds no new kind of overlap, since each writes what it alone read), a
retry limit of two so that a first failure, a retry and the exhaustion occur, a
batch smaller than the backlog for the single relay of `components`, a fault that can fall on
either side of a send, one refund more than the amount allows.  What the bounds
leave open the proofs settle: they hold for every value of the constants.

### The run `components`

None of the thirteen modules uses the state of another, so the states of their
union are those of each, and one run with one choice at the start (`running`)
checks them all: `MCNext` lets the chosen one step and the others stand still.
`MCFair` does the same for two specifications with fairness; neither's fair
actions are enabled in the initial state in which the other leaves it.

| component | property | in words | bounds |
|---|---|---|---|
| `Lock` | `LapseOnlyBreaksExclusion`, `OnlyStraysLeaveLocks` | no late release frees another's lock; a lock nobody works under was left by an accident | 3 instances, lifetime 2, 1 mishap |
| `Outbox` | `TypeOK`, `RegisteredTogether`, `OneLetterPerDeadMessage`, `DuplicatesAccounted`, `ImplementsContract` | one relay implements `OutboxContract`; business and message commit together; dead letters are written once, after `MAX_RETRY` failures; copies are accounted for | 2 events (one poisoned), 2 writers, 1 fault, limit 2, batch 1 |
| `ServiceAuth` | `RequestPassesOnce` | a signed request passes a store once | 1 request, 2 copies at a time, 2 processes, half seconds, 1 restart |
| `Producer` | `StartedTellsTheTruth` | `_started` agrees with the connections | 2 coroutines, 2 objects, 1 failure |
| `Startup` | `DatabasesApart`, `LateOnlyUnchecked` | the assertions of two processes together | 2 places, a right deployment and its departures |
| `Pipeline` | `TraceIsOwn` | no id of another request in a line or answer | 2 requests, one header they may share |
| `Internal` | `AnswersOwnRowsOfOneMoment` | an answer is what one moment of the user's own rows gives | 2 users, 2 orders, 3 writes, pages of one row |
| `Tokens` | `RevocationEndsOldRoles` | no way around a revocation but the one named | 1 user, 2 sets of roles, 3 pairs, 2 revocations |
| `Logistics` | `StatusTellsTrace`, `StatusNeverGoesBack` | status and nodes agree under overlapping queries | 1 waybill, 2 clients, 3 nodes |
| `Sms` | `OneSmsPerWindow` | two messages in a window overlapped | 2 requests, window of 2 seconds, half seconds |
| `Recon` | `CountedOnce`, `ReportsStayTrue` | no payment or refund in two reports of a type, and what a report counts stays paid on its day, overlapping requests on the order excepted | 1 payment, 2 requests for it, 1 refund, 2 reports, 2 days |
| `Keys` | `SignaturesVerify` | the public file fits what was signed, or will | 2 processes, 3 pairs, 2 deaths |
| `Rows` | `RowCountsTellTheTruth` | rowcount is true, nothing is oversold | 3 transactions, stock 2, 3 marks |

The bounds are again the least at which the hazard occurs: a third lock instance
to acquire after the lapse while the first is late, a clock that runs past the
life of a nonce, a second revocation after roles have changed back, three nodes
so that one query can be two behind another.  The proofs lift the bounds of all
thirteen, and those of `tabs_and_config` except for its two liveness properties.

`CHECK_DEADLOCK FALSE` is set where the system really comes to rest: every
payment settled and every callback pushed, every call ended; in `Snowflake` the
bound on the clock ends every behaviour, and in `components` every request made,
refused or at its bound.

### Fairness

`Outbox` assumes weak fairness of the relay's own steps, since `run_forever()`
never leaves its loop and catches every exception, and of time.  Nothing is
assumed of writers, of the broker, or that crashes happen or stop other than by
their bound.  `Payment` assumes that time passes and that somebody keeps
dispatching, as the route's summary says of production.  `Session` assumes that
the server answers what reaches it and the browser handles what it gets.
`ConfigArrives` assumes that the handler that committed a change goes on to
publish it or fails, that a subscribed watcher takes its messages and that a
load under way ends, as the event loop of the process runs them; nothing makes a
process subscribe or reload.  No code under `src/` publishes on the channel yet.
The other components are checked without fairness.

### Conditions in the properties

`overwritten` in `Payment` is a history variable: orders on which a commit
replaced values that had changed since they were read.  `FinalStatusStays` and
`OnlyPaidMoves` hold for all other orders, and fail without that condition: a
confirmation and a cancellation that overlap can leave a closed order with
callbacks.  The runs `payment_overrefund` and the condition together say exactly
what the missing row lock costs.

`clash` in `Session` records that two tabs had refreshes in flight at once.
`NoFalseLogout` holds without such a clash; with it the second tab replays a
consumed token and throws the user out, because the coordinator is per tab.

`blind` in `Snowflake` names the processes on which the clock stepped back where
the comparison in `next_id()` cannot see it: while a call sleeps off an earlier
step (the clock is read again after the sleep, not compared again), before a
generator's first id, or over a restart that forgets the last millisecond.
Without that condition `UniqueIds` fails in each of the three cases.

The conditions of the other components, each a variable that records the one
circumstance the code does not guard against:

* `overlaps` (`Recon`): the requests that committed while another had read the
  same order.  `CountedOnce` and `ReportsStayTrue` say which payments they
  excuse: one that both requests wrote.  Without the clause TLC finds two
  confirmations around midnight that both write `pay_time`, the second after
  the report of the first day is stored, and a cancellation that closes an order
  a report counts.
* `lapsed` and `strayed` (`Lock`): the key expired under its holder; the holder
  crashed, lost an answer of Redis, or called `try_acquire()` again, after which
  `_held` is false and `__aexit__` does not release.
* `overlap` and `missed` (`Config`): `reload_config()` ran beside another load,
  so that the older result may be stored last; a change was published while the
  process was not subscribed, or a load failed.
* `hasty` and `forgot` (`ServiceAuth`): a request whose stamp is a whole
  `SIGNATURE_TTL_SECONDS` ahead, registered the moment it becomes fresh, outlives
  its nonce by the fraction `int()` cuts off; memory of a process that restarted.
* `crowded` (`Producer`): two coroutines were in `start()` or `stop()` at once.
  The relay is one coroutine, but nothing in the module asks for that.
* `escaped` (`Tokens`): the successor of a refresh that overlapped the scan.
* `together` and `cut` (`Keys`): two processes generated a pair at once; a
  process died between opening and writing the public file.
* `ended < began` in `OneSmsPerWindow`: the requests did not overlap.

`DuplicatesAccounted` and `PushesAccounted` allow one copy per relay or dispatch
and one per fault.

## What the violated runs say

1. `schema.sql:465` says that an order may be split into several parcels; the
   query for its trace reads the waybill with `one_or_none()` and answers such an
   order with status 500.
2. `payment_channel.py:459` promises retries of callbacks; the selection reads
   waiting rows only, and a failure sets another status.
3. `tests/api/test_mock_payment.py:8` states that refunds never exceed the
   payment; two overlapping ones do.
4. `mock_schema.sql:63` calls refunds idempotent by their number; the amount is
   compared before the number is looked up.
5. `api/auth.py:14` states that the access token is enough to revoke the session;
   not while a refresh of that session is under way.
6. `snowflake.py:131` prefers the host name to a constant worker id because equal
   ones collide; the four processes of a container (`backend.Dockerfile:69`) have
   one host name, and nothing sets `SNOWFLAKE_WORKER_ID`.
7. `API.md:55` and `trace.py:3` give every response the trace id that the front
   end carries when it reports an error.  An unhandled exception is answered
   outside the middleware that adds it and resets the context, so the one
   response most worth a report has no id, and its log line has none either.

## What else was met

These follow from the models as they stand, or were seen while writing them;
no run is about them.

* An outage of Kafka longer than eight retries (about 20 minutes) turns messages
  into dead letters, which wait for an operator (`outbox.py:12` speaks of a
  delay only).
* `security.py:114-116` names `revoke_all_of()` for what must take effect at once:
  it ends refresh tokens, and access tokens of before stay good until they
  expire.  A refresh copies the roles of the old pair.
* A report may be asked for a day that is not over; it is stored as it is then,
  and `uk_date_type` refuses a later one.
* A time to live that is not a number raises `SystemExit` in a request, not at
  the start; `MOCK_DATABASE_URL` is looked at by no assertion.
* The refunds of a day are in the reports of both pay types
  (`payment_channel.py:289-299`).
* After a conflict the caller of `update_with_version()` must begin a new
  transaction; in its own it reads the same version again.
* A public key file that was emptied and not written is never repaired.
* `product_detail()` shows deleted products (`internal.py:275-281`).
* The nonce of a request is used up before the caller's network is checked.

## Proofs

`tlapm` proves every obligation of the eight `_proofs` modules.  Each invariant
and each action property of a passing run is a theorem there, for every value of
the constants that the modules' assumptions admit.  A theorem named
`<Component>Invariant` states the inductive invariant, the others are read off it.

* **Outbox, any number of relays.**  `RelayInv` strengthens `TypeOK`,
  `RegisteredTogether`, `NoPhantomEvent` and `NothingLost` with what a relay
  holds: the rows of a round exist, what it read of their retry counts was below
  the limit, and what it noted as sent has arrived.  That part is what makes the
  invariant inductive: the commit writes values computed from an old read, and
  nothing else links them to the rows of now.
* **Copies of a message, any number of relays** (`CopiesInv`).  While a message
  is pending, its copies are at most the relays that sent it and have not
  committed (`Past`) and the faults.  Once it is settled no scan returns it, and
  the copies together with the relays that still have it before them (`Ahead`)
  are at most all relays and the faults.  The two cases meet in the commit that
  settles it, because a relay has a message before it or has sent it, not both:
  two disjoint sets of relays.  `DuplicatesBounded` follows.
* **Outbox, one relay.**  `SoleInv` adds that what the relay read is still what
  the rows hold, as nobody else writes them.  From it follow the single dead
  letter and the refinement of `OutboxContract`: a scan, a failed send, a tick
  and a crash are stutters, a send is `Arrive`, a commit of a round is `Settle`,
  a business commit is `Register`.  Neither holds with two relays: both may give
  up a message, or one gives up what the other has delivered.
* **Payment.**  `PayInv` adds to the properties that the ids in use have no gap,
  that a dispatch works on existing rows whose count was below the limit when
  read and that what it noted as accepted was processed (`DispatchInv`), and
  that the row a request read allowed what it will write (`RequestInv`).  The
  action property `FinalStatus` follows: a commit whose order is not marked found
  the row as it read it, and what it read was neither paid nor closed.
* **The sum of the refunds** (`SumInv`).  The sum is the number of units that the
  refunds of an order have, so that adding a refund adds its amount by a theorem
  on the cardinality of disjoint unions, without induction.  The conjunct that
  makes it inductive is that what a request read of `refunded_amount` is at most
  the sum at its commit, since refunds are only added.
* **Pushes of a callback** (`PushesInv`): the argument of `CopiesInv`, for the
  dispatch requests, where delivered, failed and abandoned are all settled.
* **Session.**  `SessionInv` relates the tokens in the store, in both places of
  each tab, in calls and in answers under way to the number of pairs issued.
  `BoundInv` bounds that number: every pair but that of the login, and every
  refresh the server has not answered (`Underway`), was paid for by a call that
  cannot pay again (`Spent`: it waits, was repeated or is done).  Calls that wait
  together pay for one.
* **Snowflake.**  `IInv` says that every id of a process that is not blind lies
  behind its generator (`IssuedInv`): before the last millisecond, or in it with
  a number used up; before the clock if the generator is new.  `TimeInv` says
  that a thread inside `next_id()` holds a time that is not before the last id,
  and one that sleeps will; `LockInv` that only the holder of the lock is inside.
  The arithmetic of the bit fields is two lemmas: ids are ordered as their time
  and number, and equal only field by field.  `IdsAreUnique` and
  `IdsAreIncreasing` follow from one lemma on the end of a call.
* **Lock.**  `LockInv` has `HolderInv` (whoever is inside owns the key or is
  lapsed) and `BeliefInv` (the owner of the key, if inside, knows it or has
  strayed).  The first gives exclusion, since a key has one owner; the second is
  what `ExitContext` needs, as it releases by `_held` and not by the key.
* **Config.**  `LoadsInv` says that without an overlap a process has one load at
  most, and that it read no older table than the process shows; so what it
  stores is not older (`ConfigOnlyAdvances`).  `NoMixedConfig` is inductive with
  it: what a process has is what one committed table shows (`ConfigIsOneTable`,
  the promise of `sys_config.py:14`).
* **ServiceAuth.**  `RemembersLongEnough` says that a store that let a request
  pass remembers it until no copy can be fresh any more, and `CopyOK` that a
  copy under way was fresh when it was checked and is not later than `MaxLag`.
  `WholeSeconds` relates the seconds of the comparison to the clock, and
  `KeptLongEnough` shows twice the signature's time to be enough, but for the
  fraction `hasty` stands for.
* **Rows.**  `ActorOK` relates what a transaction read or wrote to the committed
  row: one that holds the lock wrote the successor of the row as it is, since
  the version matched and the lock keeps it so.
* **Producer.**  `OneAtATime` adds which object a `start()` or `stop()` under way
  is about: the one in use, not started yet or started.  Otherwise an end of
  `start()` could set `_started` for an object that was replaced meanwhile.
* **Tokens.**  While SCAN runs a user's tokens may carry old roles, so the
  invariant says which: live ones the cursor has yet to visit (`LiveOK`),
  exchanged ones whose handler runs beside the scan (`ExchangingOK`).  When the
  scan ends the first set is empty, and the successors of the second are the
  ones the property excepts.  `IssuedOK` says it of access tokens, by `cutoff`.
* **Logistics.**  A waybill has come to a stage, and status and rows are a
  function of it (`TraceOK`), up to the first row, which may be there twice.  A
  query that is under way would take it from the stage it saw to a later one
  (`QueryOK`).  A commit that adds rows without a collision saw the stage of now:
  otherwise the row of the stage after the one it saw is there already.  The
  induction over the list of nodes is avoided by taking the last node that is
  due, which exists since a set of numbers has a least member (`LeastNatural`,
  from the library's well-foundedness of the natural numbers).
* **Sms.**  `LookedFirst`: what was committed before a request looked is too old
  for its window.  It stays true because the time of commits never decreases,
  and `CreateTimeIsClose` turns whole seconds into the second that is lost.
* **Recon.**  The unique key leaves one report per day and pay type (`OneOfADay`)
  and days do not overlap (`DaysApart`), so a refund, whose time never changes,
  is in one.  A payment's time may change: `LastWriter` says that what the row
  holds is what one request set, and `WritersBeside` that two requests that wrote
  the same payment, or one that wrote it and one about to, ran beside each other,
  since each read it while it was pending.  Reports hold payments confirmed on
  their day (`ReportsOfTheirDay`); two of them, or a report and the row of now,
  disagree only through a second writer.
* **Keys.**  As long as one process writes, the files go through three phases:
  no public file and nothing signed, the public file open, both written.  Each
  says what the calls under way may hold; the death of a process leaves the
  phase it is in, except for the one that `cut` records.
* **Internal.**  `ReadsOneVersion`: each result of a query is that of its
  statement on the version the first one read, and the query went on only where
  its results let it.  That the results are those of the user's own rows
  (`SeesOwnOnly`) is a fact about each statement, given the results before it.
* **Pipeline.**  `RequestOK` ties the context variable, the answer and the phase
  of each request, `LogOK` each line to its request; neither mentions a second
  request, which is the point: nothing crosses over.
* **Startup.**  A process that was ever up passed the assertions on what is
  deployed; two such processes give `DatabasesApart` by their conditions on the
  one URL they share.

The assumptions are those the modules state about their constants.  Most only
give types and keep names apart.  The others: events, calls, relays and
dispatchers are finite in number, since copies, pushes and pairs are counted
against them; the first trace node is due at once, and the nodes are more than
the second of rounding apart and do not go back in status, as in `_TRACE_NODES`;
a URL with "test" in it is among the marked ones, as S1-a looks for the same
word.

Only model-checked, and why:

* liveness under fairness (`EventuallySettled`, `NoCallHangs`, `ConfigArrives`),
  which the prover does not reach;
* the single dead letter and the refinement of the contract are theorems for one
  relay, the deployment the run `components` is about; with more they fail;
* the violated runs: their counterexamples are of small instances, and a larger
  one contains them.

## Not modelled

* The 7-day expiry of refresh tokens in `Session` (in `Tokens` a token may vanish
  at any time); the order of messages with one key, as no consumer is in the
  tree; a commit that fails after the answer was sent (it depends on the FastAPI
  version); the engine and its pool.
* Signatures, JWT encoding, formatting, HTML and validation have no state; nor
  have the tables of HTTP statuses and business codes.
* Steps that are coarser than the code: `SetTokens` writes both items of
  localStorage at once, which the one thread of a tab does between two events;
  `ResetProducer` and `stop_producer()` overlap one stop at a time; `CreateCommits`
  takes the time of the first node at the commit and not at the flush before it.
* Where the model differs from the code without a property seeing it: a repeated
  call carries the token it was given (`SentAgain`), where the interceptor reads
  the store again; a tab does not give up a refresh that the server executes
  later (`LoseRefresh` loses it altogether); `ExchangeInMemory` has one store
  for all workers, which is how one process without Redis behaves.
* Empty routers, the constant key document, the SMS sender that only logs, the
  AI skeleton, generated models and migrations, views, and the scripts, which
  transform text, hold no protocol.

## Plan

Done: outbox, payment with callbacks, session, ids; the thirteen components;
theorems for every safety property of a passing run.  Left:

1. Proofs: which refunds a lost update can cost in all (a bound on the difference
   between `refunded_amount` and the refunds by the number of overlaps); an
   abstract life cycle of orders that `Payment` implements apart from the orders
   in `overwritten`; what of `OutboxContract` several relays still implement.
2. `Session` and `Tokens` composed, once the login is in the tree.
3. `Outbox` with several events per key, once there is a consumer.
4. The business routers, as they are written: stock, orders and payment through
   `Rows` and `Outbox`.
