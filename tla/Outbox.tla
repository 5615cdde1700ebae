------------------------------- MODULE Outbox -------------------------------
(***************************************************************************)
(* The transactional outbox of app/core/outbox.py: business transactions   *)
(* register events with enqueue(), relays scan sys_local_message and send  *)
(* what is due to Kafka with dispatch_once(), in one transaction per round *)
(* that session_scope() commits only when every message was tried.         *)
(*                                                                         *)
(* Time is relative: wait[e] is how long next_retry_time lies ahead, and   *)
(* age[r] how long ago relay r took the "now" of its round.  Both count    *)
(* units of BACKOFF_BASE_SECONDS.                                          *)
(***************************************************************************)
EXTENDS Naturals, FiniteSets

CONSTANTS
    Events,          \* business events, one per (biz_type, biz_no, topic)
    Poison,          \* events the broker rejects whatever its state
    Writers,         \* sessions that run business transactions
    Relays,          \* relay loops, one per process that runs run_forever()
    MaxRetry,        \* MAX_RETRY
    Batch,           \* the limit of a round, DEFAULT_BATCH
    NextRetryDelay,  \* next_retry_delay(), a table indexed by the failures so far
    MaxAge,          \* bound: age[r] saturates here
    MaxFaults        \* bound: crashed rounds and lost acknowledgements

ASSUME OutboxAssumption ==
    /\ IsFiniteSet(Events)
    /\ IsFiniteSet(Relays)
    /\ Poison \subseteq Events
    /\ MaxRetry \in Nat \ {0}
    /\ Batch \in Nat \ {0}
    /\ NextRetryDelay \in [0..(MaxRetry - 1) -> Nat]
    /\ MaxAge \in Nat
    /\ MaxFaults \in Nat

VARIABLES
    biz,         \* events whose business row is committed
    txn,         \* txn[w]: rows waiting for the commit of w, or Idle
    id,          \* sys_local_message.id, 0 while the row does not exist
    status,      \* sys_local_message.status
    retry,       \* sys_local_message.retry_count
    wait,        \* sys_local_message.next_retry_time, as time to go
    letters,     \* number of sys_dead_letter rows of an event
    todo,        \* todo[r]: messages of the round not tried yet
    seen,        \* seen[r]: retry_count of each message when r read it
    sent,        \* sent[r]: messages of the round that were acknowledged
    failed,      \* failed[r]: messages of the round whose send raised
    age,         \* age[r]: time since the round of r started
    arrivals,    \* arrivals[e]: copies of e the broker holds
    kafkaUp,     \* whether the broker answers
    faults       \* crashed rounds and lost acknowledgements so far

bizVars   == <<biz, txn>>
rowVars   == <<id, status, retry, wait, letters>>
roundVars == <<todo, seen, sent, failed, age>>
extVars   == <<arrivals, kafkaUp, faults>>
vars      == <<bizVars, rowVars, roundVars, extVars>>

Idle == [event |-> {}, adds |-> 0]

Rows       == {e \in Events : status[e] # "none"}
InRound(r) == todo[r] \union sent[r] \union failed[r]
Working(r) == InRound(r) # {}

Init ==
    /\ biz = {}
    /\ txn = [w \in Writers |-> Idle]
    /\ id = [e \in Events |-> 0]
    /\ status = [e \in Events |-> "none"]
    /\ retry = [e \in Events |-> 0]
    /\ wait = [e \in Events |-> 0]
    /\ letters = [e \in Events |-> 0]
    /\ todo = [r \in Relays |-> {}]
    /\ seen = [r \in Relays |-> [e \in Events |-> 0]]
    /\ sent = [r \in Relays |-> {}]
    /\ failed = [r \in Relays |-> {}]
    /\ age = [r \in Relays |-> 0]
    /\ arrivals = [e \in Events |-> 0]
    /\ kafkaUp = TRUE
    /\ faults = 0

-----------------------------------------------------------------------------
(* Business transactions                                                   *)

\* enqueue(): the existence query sees committed rows only (the sessions do
\* not autoflush), so a row this same transaction already added is not found.
Enqueue(w, e) ==
    /\ \/ txn[w] = Idle
       \/ txn[w].event = {e} /\ txn[w].adds < 2
    /\ txn' = [txn EXCEPT ![w] =
                 [event |-> {e},
                  adds  |-> IF e \in Rows THEN @.adds ELSE @.adds + 1]]
    /\ UNCHANGED <<biz, rowVars, roundVars, extVars>>

\* The INSERT of a second row for one key violates uk(biz_type, biz_no, topic).
Conflict(w) ==
    \/ txn[w].adds = 2
    \/ txn[w].adds = 1 /\ txn[w].event \subseteq Rows

\* A row takes its id before its transaction commits, perhaps on another host,
\* so the order of the ids need not be that of the commits.
FreeIds == 1..Cardinality(Events) \ {id[e] : e \in Rows}

\* session_scope(): business row and message row commit together.
CommitBusiness(w) ==
    /\ txn[w] # Idle
    /\ ~Conflict(w)
    /\ biz' = biz \union txn[w].event
    /\ LET new == IF txn[w].adds = 1 THEN txn[w].event ELSE {}
       IN  /\ status' = [e \in Events |-> IF e \in new THEN "pending" ELSE status[e]]
           /\ IF new = {} THEN UNCHANGED id
              ELSE \E n \in FreeIds : id' = [e \in Events |-> IF e \in new THEN n ELSE id[e]]
    /\ txn' = [txn EXCEPT ![w] = Idle]
    /\ UNCHANGED <<retry, wait, letters, roundVars, extVars>>

\* Mutation: the conflict is caught and only the message row is given up.
RejectBusiness_KeepsBusinessRow(w) ==
    /\ txn[w] # Idle
    /\ Conflict(w)
    /\ biz' = biz \union txn[w].event
    /\ txn' = [txn EXCEPT ![w] = Idle]
    /\ UNCHANGED <<rowVars, roundVars, extVars>>

\* The constraint refuses the row and the whole business transaction with it.
RejectBusiness(w) ==
    /\ txn[w] # Idle
    /\ Conflict(w)
    /\ txn' = [txn EXCEPT ![w] = Idle]
    /\ UNCHANGED <<biz, rowVars, roundVars, extVars>>

\* Mutation: the message is registered in a transaction of its own.
AbortBusiness_LeavesMessage(w) ==
    /\ txn[w] # Idle
    /\ status' = [e \in Events |-> IF e \in txn[w].event \ Rows THEN "pending" ELSE status[e]]
    /\ id' = [e \in Events |-> IF e \in txn[w].event \ Rows THEN Cardinality(Rows) + 1 ELSE id[e]]
    /\ txn' = [txn EXCEPT ![w] = Idle]
    /\ UNCHANGED <<biz, retry, wait, letters, roundVars, extVars>>

\* The business code raises, or its process dies: nothing is written.
AbortBusiness(w) ==
    /\ txn[w] # Idle
    /\ txn' = [txn EXCEPT ![w] = Idle]
    /\ UNCHANGED <<biz, rowVars, roundVars, extVars>>

-----------------------------------------------------------------------------
(* Relay rounds                                                            *)

\* Mutation: a message that failed once is not selected again.
Due_FirstTryOnly == {e \in Events : status[e] = "pending" /\ wait[e] = 0 /\ retry[e] = 0}

\* pending_statement(): pending rows whose retry time has come.
Due == {e \in Events : status[e] = "pending" /\ wait[e] = 0}

\* dispatch_once() reads the Batch oldest due rows, without locking them.
Scan(r) ==
    /\ ~Working(r)
    /\ \E rows \in SUBSET Due :
         /\ rows # {}
         /\ \/ rows = Due /\ Cardinality(rows) <= Batch
            \/ Cardinality(rows) = Batch
         /\ \A e \in rows, f \in Due \ rows : id[e] < id[f]
         /\ todo' = [todo EXCEPT ![r] = rows]
    /\ seen' = [seen EXCEPT ![r] = retry]
    /\ age' = [age EXCEPT ![r] = 0]
    /\ UNCHANGED <<bizVars, rowVars, sent, failed, extVars>>

\* The loop takes the messages of the round in the order of their ids.
NextInRound(r, e) ==
    /\ e \in todo[r]
    /\ \A f \in todo[r] : id[e] <= id[f]
    /\ todo' = [todo EXCEPT ![r] = @ \ {e}]

\* send() returns: the broker has the message.
SendOk(r, e) ==
    /\ NextInRound(r, e)
    /\ kafkaUp /\ e \notin Poison
    /\ arrivals' = [arrivals EXCEPT ![e] = @ + 1]
    /\ sent' = [sent EXCEPT ![r] = @ \union {e}]
    /\ UNCHANGED <<bizVars, rowVars, seen, failed, age, kafkaUp, faults>>

\* Mutation: the exception of send() is only logged.
SendFail_Swallowed(r, e) ==
    /\ NextInRound(r, e)
    /\ ~kafkaUp \/ e \in Poison
    /\ sent' = [sent EXCEPT ![r] = @ \union {e}]
    /\ UNCHANGED <<bizVars, rowVars, seen, failed, age, extVars>>

\* send() raises and the broker does not have the message.
SendFail(r, e) ==
    /\ NextInRound(r, e)
    /\ ~kafkaUp \/ e \in Poison
    /\ failed' = [failed EXCEPT ![r] = @ \union {e}]
    /\ UNCHANGED <<bizVars, rowVars, seen, sent, age, extVars>>

\* send() raises although the broker has the message: the answer was lost.
SendAckLost(r, e) ==
    /\ NextInRound(r, e)
    /\ kafkaUp /\ e \notin Poison
    /\ faults < MaxFaults
    /\ faults' = faults + 1
    /\ arrivals' = [arrivals EXCEPT ![e] = @ + 1]
    /\ failed' = [failed EXCEPT ![r] = @ \union {e}]
    /\ UNCHANGED <<bizVars, rowVars, seen, sent, age, kafkaUp>>

Attempt(r, e) == SendOk(r, e) \/ SendFail(r, e) \/ SendAckLost(r, e)

EndRound(r) ==
    /\ todo' = [todo EXCEPT ![r] = {}]
    /\ sent' = [sent EXCEPT ![r] = {}]
    /\ failed' = [failed EXCEPT ![r] = {}]
    /\ seen' = [seen EXCEPT ![r] = [e \in Events |-> 0]]
    /\ age' = [age EXCEPT ![r] = 0]

\* Mutation: the limit is one too high.
Exhausted_OneTooLate(r) == {e \in failed[r] : seen[r][e] >= MaxRetry}

\* Messages whose failure count reached the limit in this round.
Exhausted(r) == {e \in failed[r] : seen[r][e] + 1 >= MaxRetry}

\* What is left of a backoff that is counted from the start of the round.  The
\* code stores the time itself, which may be past when a round took long; any
\* such time only says that the message is due, which is 0 here.
TimeLeft(r, e) ==
    LET delay == NextRetryDelay[seen[r][e]]
    IN  IF delay > age[r] THEN delay - age[r] ELSE 0

\* Mutation: a message that succeeds after a failure is not marked delivered.
CommitRound_ForgetsSuccess(r) ==
    /\ Working(r) /\ todo[r] = {}
    /\ retry' = [e \in Events |-> IF e \in failed[r] THEN seen[r][e] + 1 ELSE retry[e]]
    /\ EndRound(r)
    /\ UNCHANGED <<bizVars, id, status, wait, letters, extVars>>

\* Mutation: no sys_dead_letter row is added for an exhausted message.
CommitRound_NoLetter(r) ==
    /\ Working(r) /\ todo[r] = {}
    /\ status' = [e \in Events |-> IF e \in sent[r] THEN "delivered"
                                   ELSE IF e \in Exhausted(r) THEN "dead"
                                   ELSE status[e]]
    /\ retry' = [e \in Events |-> IF e \in failed[r] THEN seen[r][e] + 1 ELSE retry[e]]
    /\ wait' = [e \in Events |-> IF e \in failed[r] \ Exhausted(r)
                                 THEN TimeLeft(r, e) ELSE wait[e]]
    /\ EndRound(r)
    /\ UNCHANGED <<bizVars, id, letters, extVars>>

\* Mutation: an exhausted message gets its dead letter and stays pending.
CommitRound_StaysPending(r) ==
    /\ Working(r) /\ todo[r] = {}
    /\ status' = [e \in Events |-> IF e \in sent[r] THEN "delivered" ELSE status[e]]
    /\ retry' = [e \in Events |-> IF e \in failed[r] THEN seen[r][e] + 1 ELSE retry[e]]
    /\ wait' = [e \in Events |-> IF e \in failed[r] \ Exhausted(r)
                                 THEN TimeLeft(r, e) ELSE wait[e]]
    /\ letters' = [e \in Events |-> IF e \in Exhausted(r) THEN letters[e] + 1
                                    ELSE letters[e]]
    /\ EndRound(r)
    /\ UNCHANGED <<bizVars, id, extVars>>

\* The commit writes the columns each message object changed, with the values
\* computed from what was read at the scan; the row is not read again.
CommitRound(r) ==
    /\ Working(r) /\ todo[r] = {}
    /\ status' = [e \in Events |-> IF e \in sent[r] THEN "delivered"
                                   ELSE IF e \in Exhausted(r) THEN "dead"
                                   ELSE status[e]]
    /\ retry' = [e \in Events |-> IF e \in failed[r] THEN seen[r][e] + 1 ELSE retry[e]]
    /\ wait' = [e \in Events |-> IF e \in failed[r] \ Exhausted(r)
                                 THEN TimeLeft(r, e) ELSE wait[e]]
    /\ letters' = [e \in Events |-> IF e \in Exhausted(r) THEN letters[e] + 1
                                    ELSE letters[e]]
    /\ EndRound(r)
    /\ UNCHANGED <<bizVars, id, extVars>>

\* The process dies or the commit fails: run_forever() starts over, and the
\* database keeps nothing of the round, whatever the broker already has.
CrashRound(r) ==
    /\ Working(r)
    /\ faults < MaxFaults
    /\ faults' = faults + 1
    /\ EndRound(r)
    /\ UNCHANGED <<bizVars, rowVars, arrivals, kafkaUp>>

-----------------------------------------------------------------------------
(* Environment                                                             *)

Tick ==
    /\ \/ \E e \in Events : wait[e] > 0
       \/ \E r \in Relays : Working(r) /\ age[r] < MaxAge
    /\ wait' = [e \in Events |-> IF wait[e] > 0 THEN wait[e] - 1 ELSE 0]
    /\ age' = [r \in Relays |-> IF Working(r) /\ age[r] < MaxAge
                                THEN age[r] + 1 ELSE age[r]]
    /\ UNCHANGED <<bizVars, id, status, retry, letters, todo, seen, sent, failed, extVars>>

KafkaToggle ==
    /\ kafkaUp' = ~kafkaUp
    /\ UNCHANGED <<bizVars, rowVars, roundVars, arrivals, faults>>

Next ==
    \/ \E w \in Writers : \/ \E e \in Events : Enqueue(w, e)
                          \/ CommitBusiness(w)
                          \/ RejectBusiness(w)
                          \/ AbortBusiness(w)
    \/ \E r \in Relays : \/ Scan(r)
                         \/ \E e \in Events : Attempt(r, e)
                         \/ CommitRound(r)
                         \/ CrashRound(r)
    \/ Tick
    \/ KafkaToggle

Spec == Init /\ [][Next]_vars

\* run_forever() never leaves its loop and an await on the broker ends, so a
\* relay that can take a step takes it; time passes.  Nothing is assumed of
\* the writers and of the broker.
Fairness ==
    /\ WF_vars(Tick)
    /\ \A r \in Relays : /\ WF_vars(Scan(r))
                         /\ WF_vars(\E e \in Events : Attempt(r, e))
                         /\ WF_vars(CommitRound(r))

FairSpec == Spec /\ Fairness

-----------------------------------------------------------------------------
(* Properties                                                              *)

Status == {"none", "pending", "delivered", "dead"}

TypeOK ==
    /\ biz \subseteq Events
    /\ txn \in [Writers -> [event : {{}} \union {{e} : e \in Events}, adds : 0..2]]
    /\ id \in [Events -> Nat]
    /\ status \in [Events -> Status]
    /\ retry \in [Events -> 0..MaxRetry]
    /\ wait \in [Events -> Nat]
    /\ letters \in [Events -> Nat]
    /\ todo \in [Relays -> SUBSET Events]
    /\ seen \in [Relays -> [Events -> 0..MaxRetry]]
    /\ sent \in [Relays -> SUBSET Events]
    /\ failed \in [Relays -> SUBSET Events]
    /\ age \in [Relays -> Nat]
    /\ arrivals \in [Events -> Nat]
    /\ kafkaUp \in BOOLEAN
    /\ faults \in Nat

\* A business row is committed exactly when the row of its event is: neither
\* an event without business nor business without its event, whatever the
\* interleaving of duplicate requests with enqueue()'s check-then-insert.
RegisteredTogether == Rows = biz

\* The broker only ever holds events of committed business (no event out of
\* nowhere), although relays scan while business transactions are open.
NoPhantomEvent == \A e \in Events : arrivals[e] > 0 => e \in biz

\* A row that left the backlog left it for a reason a person can find: the
\* broker has the message, or a dead letter carries it.  With several relays
\* both outcomes may be written for one message, so this is not the code's IF.
NothingLost ==
    \A e \in Rows : \/ status[e] = "pending"
                    \/ status[e] = "delivered" /\ arrivals[e] > 0
                    \/ status[e] = "dead" /\ letters[e] > 0

\* A relay sends a message it found pending once per round and settles it in
\* the same round, so copies beyond one per relay need a crash between send
\* and commit or a lost acknowledgement.
DuplicatesAccounted ==
    \A e \in Events : arrivals[e] <= Cardinality(Relays) + faults

\* With one relay a dead letter is written once, for a message that failed
\* exactly MAX_RETRY times, and only for a dead message.
OneLetterPerDeadMessage ==
    \A e \in Events : IF status[e] = "dead" THEN letters[e] = 1 /\ retry[e] = MaxRetry
                                            ELSE letters[e] = 0 /\ retry[e] < MaxRetry

\* With one relay the outbox implements its contract: an event is published
\* only while it is owed, and what is settled is never touched again.
Contract == INSTANCE OutboxContract WITH
                fate <- status, arrived <- {e \in Events : arrivals[e] > 0}
ImplementsContract == Contract!CSpec

\* Every committed event leaves the backlog, whatever the broker does and
\* however the relays overwrite each other's retry counts.
EventuallySettled ==
    \A e \in Events : (e \in biz) ~> (status[e] \in {"delivered", "dead"})
=============================================================================
