----------------------------- MODULE Snowflake -----------------------------
(***************************************************************************)
(* The generator of primary keys, app/orm/snowflake.py: next_id() called   *)
(* by the threads of several processes, each process with one generator    *)
(* (get_generator) that forgets everything when the process restarts.      *)
(*                                                                         *)
(* The clock is the wall clock of the host in milliseconds since _EPOCH_MS.*)
(* It may step back at any time; time.sleep() measures real time.  A call  *)
(* that raises ClockMovedBackwardsError changes nothing and has no step.   *)
(***************************************************************************)
EXTENDS Integers

CONSTANTS
    Processes,      \* worker processes
    Threads,        \* threads that call next_id()
    NoThread,       \* the holder of a free lock
    ProcessOf,      \* the process of a thread
    WorkerOf,       \* what resolve_worker_id() returns in a process
    MaxWorkerId,    \* MAX_WORKER_ID
    MaxSequence,    \* MAX_SEQUENCE
    MaxBackward,    \* _MAX_BACKWARD_MS
    MaxClock,       \* bound: the latest time considered
    MaxFaults       \* bound: steps back and restarts

ASSUME SnowflakeAssumption ==
    /\ NoThread \notin Threads
    /\ ProcessOf \in [Threads -> Processes]
    /\ MaxWorkerId \in Nat /\ MaxSequence \in Nat
    /\ WorkerOf \in [Processes -> 0..MaxWorkerId]
    /\ MaxBackward \in Nat
    /\ MaxClock \in Nat
    /\ MaxFaults \in Nat

VARIABLES
    clock,      \* time.time_ns() // 1_000_000, less the epoch
    lastMs,     \* _last_ms of the generator of a process, -1 when it is new
    sequence,   \* _sequence
    lock,       \* lock[p]: the thread of p that holds _lock
    pc,         \* pc[t]: where t is in next_id()
    now,        \* now[t]: its local variable now, 0 outside next_id()
    left,       \* left[t]: real time t still sleeps
    issued,     \* ids handed out by any process
    repeated,   \* history: processes that handed out an id of issued
    blind,      \* history: processes on which the clock stepped back unnoticed
    faults      \* steps back and restarts so far

genVars  == <<lastMs, sequence, lock>>
callVars == <<pc, now, left>>
histVars == <<issued, repeated, blind>>
vars     == <<clock, genVars, callVars, histVars, faults>>

Init ==
    /\ clock = 0
    /\ lastMs = [p \in Processes |-> -1]
    /\ sequence = [p \in Processes |-> 0]
    /\ lock = [p \in Processes |-> NoThread]
    /\ pc = [t \in Threads |-> "idle"]
    /\ now = [t \in Threads |-> 0]
    /\ left = [t \in Threads |-> 0]
    /\ issued = {}
    /\ repeated = {}
    /\ blind = {}
    /\ faults = 0

-----------------------------------------------------------------------------
(* next_id()                                                               *)

\* The three bit fields, which do not overlap.
Id(ms, worker, seq) == (ms * (MaxWorkerId + 1) + worker) * (MaxSequence + 1) + seq

\* Mutation: the lock is not taken.
Enter_Unlocked(t) ==
    /\ pc[t] = "idle"
    /\ now' = [now EXCEPT ![t] = clock]
    /\ pc' = [pc EXCEPT ![t] = "timed"]
    /\ lock' = [lock EXCEPT ![ProcessOf[t]] = t]
    /\ UNCHANGED <<clock, lastMs, sequence, left, histVars, faults>>

\* Taking the lock and reading the clock.
Enter(t) ==
    LET p == ProcessOf[t]
    IN  /\ pc[t] = "idle"
        /\ lock[p] = NoThread
        /\ clock < lastMs[p] => lastMs[p] - clock <= MaxBackward
        /\ now' = [now EXCEPT ![t] = clock]
        /\ pc' = [pc EXCEPT ![t] = IF clock < lastMs[p] THEN "asleep" ELSE "timed"]
        /\ left' = [left EXCEPT ![t] = IF clock < lastMs[p] THEN lastMs[p] - clock ELSE 0]
        /\ lock' = [lock EXCEPT ![p] = t]
        /\ UNCHANGED <<clock, lastMs, sequence, histVars, faults>>

\* The sleep is over: the clock is read again, and not compared again.
Wake(t) ==
    /\ pc[t] = "asleep" /\ left[t] = 0
    /\ now' = [now EXCEPT ![t] = clock]
    /\ pc' = [pc EXCEPT ![t] = "timed"]
    /\ UNCHANGED <<clock, genVars, left, histVars, faults>>

\* Assigning _last_ms and _sequence, releasing the lock and returning the id.
Return(t, ms, seq) ==
    LET p  == ProcessOf[t]
        id == Id(ms, WorkerOf[p], seq)
    IN  /\ lastMs' = [lastMs EXCEPT ![p] = ms]
        /\ sequence' = [sequence EXCEPT ![p] = seq]
        /\ lock' = [lock EXCEPT ![p] = NoThread]
        /\ pc' = [pc EXCEPT ![t] = "idle"]
        /\ issued' = issued \union {id}
        /\ repeated' = IF id \in issued THEN repeated \union {p} ELSE repeated
        /\ now' = [now EXCEPT ![t] = 0]
        /\ UNCHANGED <<clock, left, blind, faults>>

\* A new millisecond: the sequence starts again.
NewMillisecond(t) ==
    /\ pc[t] = "timed" /\ now[t] # lastMs[ProcessOf[t]]
    /\ Return(t, now[t], 0)

\* Mutation: the sequence grows out of its field.
SameMillisecond_Overflows(t) ==
    /\ pc[t] = "timed" /\ now[t] = lastMs[ProcessOf[t]]
    /\ Return(t, now[t], sequence[ProcessOf[t]] + 1)

SameMillisecond(t) ==
    LET p == ProcessOf[t]
    IN  /\ pc[t] = "timed" /\ now[t] = lastMs[p]
        /\ sequence[p] < MaxSequence
        /\ Return(t, now[t], sequence[p] + 1)

\* Mutation: nobody waits for the next millisecond.
Exhausted_Wraps(t) ==
    LET p == ProcessOf[t]
    IN  /\ pc[t] = "timed" /\ now[t] = lastMs[p]
        /\ sequence[p] = MaxSequence
        /\ Return(t, now[t], 0)

\* All sequence numbers of this millisecond are used: _spin_to_next_ms().
Exhausted(t) ==
    LET p == ProcessOf[t]
    IN  /\ pc[t] = "timed" /\ now[t] = lastMs[p]
        /\ sequence[p] = MaxSequence
        /\ sequence' = [sequence EXCEPT ![p] = 0]
        /\ pc' = [pc EXCEPT ![t] = "spinning"]
        /\ UNCHANGED <<clock, lastMs, lock, now, left, histVars, faults>>

EndSpin(t) ==
    /\ pc[t] = "spinning" /\ clock > lastMs[ProcessOf[t]]
    /\ Return(t, clock, 0)

NextId(t) == \/ Enter(t) \/ Wake(t) \/ NewMillisecond(t) \/ SameMillisecond(t)
             \/ Exhausted(t) \/ EndSpin(t)

-----------------------------------------------------------------------------
(* Environment                                                             *)

\* A millisecond passes.
Tick ==
    /\ clock < MaxClock
    /\ clock' = clock + 1
    /\ left' = [t \in Threads |-> IF left[t] > 0 THEN left[t] - 1 ELSE 0]
    /\ UNCHANGED <<genVars, pc, now, histVars, faults>>

Fault == faults < MaxFaults /\ faults' = faults + 1

\* Somebody sets the clock back.  A process cannot notice it while it sleeps
\* off an earlier step, or before its first id.
StepBack(by) ==
    /\ Fault
    /\ clock' = clock - by
    /\ blind' = blind \union {p \in Processes : \/ lastMs[p] = -1
                                                \/ \E t \in Threads : /\ ProcessOf[t] = p
                                                                      /\ pc[t] = "asleep"}
    /\ UNCHANGED <<genVars, callVars, issued, repeated>>

\* A process restarts with a new generator.  If the clock is not past the last
\* id, nothing can tell.
Restart(p) ==
    /\ Fault
    /\ lastMs' = [lastMs EXCEPT ![p] = -1]
    /\ sequence' = [sequence EXCEPT ![p] = 0]
    /\ lock' = [lock EXCEPT ![p] = NoThread]
    /\ pc' = [t \in Threads |-> IF ProcessOf[t] = p THEN "idle" ELSE pc[t]]
    /\ now' = [t \in Threads |-> IF ProcessOf[t] = p THEN 0 ELSE now[t]]
    /\ left' = [t \in Threads |-> IF ProcessOf[t] = p THEN 0 ELSE left[t]]
    /\ blind' = IF clock <= lastMs[p] THEN blind \union {p} ELSE blind
    /\ UNCHANGED <<clock, issued, repeated>>

Next ==
    \/ \E t \in Threads : NextId(t)
    \/ Tick
    \/ \E by \in 1..clock : StepBack(by)
    \/ \E p \in Processes : Restart(p)

Spec == Init /\ [][Next]_vars

-----------------------------------------------------------------------------
(* Properties                                                              *)

TypeOK ==
    /\ clock \in Nat
    /\ lastMs \in [Processes -> Nat \union {-1}]
    /\ sequence \in [Processes -> 0..MaxSequence]
    /\ lock \in [Processes -> Threads \union {NoThread}]
    /\ pc \in [Threads -> {"idle", "timed", "asleep", "spinning"}]
    /\ now \in [Threads -> Nat]
    /\ left \in [Threads -> 0..MaxBackward]
    /\ issued \subseteq Nat
    /\ repeated \subseteq Processes
    /\ blind \subseteq Processes
    /\ faults \in Nat

Alone(p) == \A q \in Processes \ {p} : WorkerOf[q] # WorkerOf[p]

\* A process hands out an id twice, or one of another process, only if it
\* shares its worker id or the clock stepped back where the check in next_id()
\* cannot see it: in general a step back, a restart and a full millisecond are
\* all survived, with any number of threads.
UniqueIds == \A p \in repeated : ~Alone(p) \/ p \in blind

\* No id is handed out twice by all processes: every primary key is a snowflake
\* id of the application, not an auto-increment (docs/sql/schema.sql:6).
NoRepeat == repeated = {}

\* Under the same condition the ids of a process increase, whichever of its
\* threads asks, also over a restart and after the clock was set back.
IdsIncrease ==
    [][\A t \in Threads :
          LET p == ProcessOf[t]
          IN  pc[t] # "idle" /\ pc'[t] = "idle" /\ lastMs'[p] # -1 /\ p \notin blind /\ Alone(p)
              => \A seq \in 0..MaxSequence, ms \in 0..MaxClock :
                    Id(ms, WorkerOf[p], seq) \in issued
                    => Id(ms, WorkerOf[p], seq) < Id(lastMs'[p], WorkerOf[p], sequence'[p])]_vars
=============================================================================
