------------------------------ MODULE Producer ------------------------------
(***************************************************************************)
(* The Kafka producer of a process (app/core/kafka_producer.py): one       *)
(* object made on first use, started on first use by whichever coroutine   *)
(* comes first, stopped at shutdown.  _started is set after start() has    *)
(* been awaited, so several coroutines may be inside it.  Each start()     *)
(* that succeeds opens connections; stop() closes those of the object.     *)
(***************************************************************************)
EXTENDS Naturals, FiniteSets

CONSTANTS
    Senders,        \* coroutines that call send_json()
    MaxObjects,     \* bound: producers made; reset_producer() drops one
    MaxBrokerDown   \* bound: start() that fails

ASSUME ProducerAssumption ==
    /\ MaxObjects \in Nat \ {0}
    /\ MaxBrokerDown \in Nat

VARIABLES
    configured, \* KAFKA_BOOTSTRAP_SERVERS is set
    producer,   \* the object in _producer, 0 for None
    made,       \* objects made so far
    started,    \* _started
    open,       \* open[o]: start() calls of object o that are not undone by stop()
    starting,   \* starting[c]: the object c awaits start() of, or 0
    stopping,   \* the object whose stop() is awaited, or 0
    crowded,    \* two coroutines were in start() or stop() at once
    brokerDown

producerVars == <<configured, producer, made, started, open, starting, stopping,
                  crowded, brokerDown>>

Objects == 1..MaxObjects

ProducerInit ==
    /\ configured \in BOOLEAN
    /\ producer = 0
    /\ made = 0
    /\ started = FALSE
    /\ open = [o \in Objects |-> 0]
    /\ starting = [c \in Senders |-> 0]
    /\ stopping = 0
    /\ crowded = FALSE
    /\ brokerDown = 0

Busy == stopping # 0 \/ \E c \in Senders : starting[c] # 0

\* get_producer(): the object of the process, made if there is none;
\* without KAFKA_BOOTSTRAP_SERVERS the call raises.
GetProducer ==
    IF producer # 0
    THEN UNCHANGED <<producer, made>>
    ELSE /\ configured
         /\ made < MaxObjects
         /\ made' = made + 1
         /\ producer' = made + 1

\* Mutation: _started is not looked at.
MustStart_Always == TRUE

MustStart == ~started

\* ensure_started() up to the await of start().
EnsureStarted(c) ==
    /\ starting[c] = 0
    /\ MustStart
    /\ GetProducer
    /\ starting' = [starting EXCEPT ![c] = producer']
    /\ crowded' = (crowded \/ Busy)
    /\ UNCHANGED <<configured, started, open, stopping, brokerDown>>

StartSucceeds(c) ==
    /\ starting[c] # 0
    /\ open' = [open EXCEPT ![starting[c]] = @ + 1]
    /\ started' = TRUE
    /\ starting' = [starting EXCEPT ![c] = 0]
    /\ UNCHANGED <<configured, producer, made, stopping, crowded, brokerDown>>

\* start() raises (no broker): send_json() raises to the relay, which retries.
StartFails(c) ==
    /\ starting[c] # 0
    /\ brokerDown < MaxBrokerDown
    /\ brokerDown' = brokerDown + 1
    /\ starting' = [starting EXCEPT ![c] = 0]
    /\ UNCHANGED <<configured, producer, made, started, open, stopping, crowded>>

\* stop() of a producer that is not started only clears _started.
StopSkips ==
    /\ stopping = 0
    /\ producer = 0 \/ ~started
    /\ started' = FALSE
    /\ crowded' = (crowded \/ Busy)
    /\ UNCHANGED <<configured, producer, made, open, starting, stopping, brokerDown>>

StopBegins ==
    /\ stopping = 0
    /\ producer # 0 /\ started
    /\ stopping' = producer
    /\ crowded' = (crowded \/ Busy)
    /\ UNCHANGED <<configured, producer, made, started, open, starting, brokerDown>>

StopEnds ==
    /\ stopping # 0
    /\ open' = [open EXCEPT ![stopping] = 0]
    /\ started' = FALSE
    /\ stopping' = 0
    /\ UNCHANGED <<configured, producer, made, starting, crowded, brokerDown>>

\* "the caller stops the old instance first" (kafka_producer.py:69).
ResetAllowed == ~started /\ ~Busy

ResetProducer ==
    /\ ResetAllowed
    /\ producer # 0
    /\ producer' = 0
    /\ started' = FALSE
    /\ UNCHANGED <<configured, made, open, starting, stopping, crowded, brokerDown>>

ProducerNext ==
    \/ \E c \in Senders : EnsureStarted(c) \/ StartSucceeds(c) \/ StartFails(c)
    \/ StopSkips \/ StopBegins \/ StopEnds \/ ResetProducer

ProducerSpec == ProducerInit /\ [][ProducerNext]_producerVars

-----------------------------------------------------------------------------
(* Properties *)

\* As long as one coroutine at a time is in start() or stop(), _started tells
\* the truth: the process has the connections of one start() if it is true,
\* and none, of no object it ever made, if it is false (kafka_producer.py:79).
\* So a shutdown leaves no connection behind.
StartedTellsTheTruth ==
    ~crowded =>
        \A o \in Objects : open[o] = IF started /\ o = producer THEN 1 ELSE 0
=============================================================================
