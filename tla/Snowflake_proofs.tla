-------------------------- MODULE Snowflake_proofs --------------------------
(***************************************************************************)
(* Proofs about Snowflake: an id is handed out once, and the ids of a      *)
(* process increase, for any number of processes and threads, any width of *)
(* the bit fields and any clock.                                           *)
(***************************************************************************)
EXTENDS Snowflake, TLAPS

Seqs == 0..MaxSequence

\* What a thread inside next_id() holds.
LockInv == \A t \in Threads : pc[t] # "idle" => lock[ProcessOf[t]] = t

\* A thread never works with a time before the last id, unless the process is
\* blind; one that sleeps will not, once it has slept.
TimeInv ==
    \A t \in Threads :
        ProcessOf[t] \notin blind =>
            /\ pc[t] = "timed" => now[t] >= lastMs[ProcessOf[t]]
            /\ pc[t] = "asleep" => clock + left[t] >= lastMs[ProcessOf[t]]

\* The id of ms and seq is behind the generator of p.
Behind(p, ms, seq) ==
    IF lastMs[p] = -1
    THEN /\ ms < clock
         /\ \A t \in Threads : ProcessOf[t] = p /\ pc[t] = "timed" => ms < now[t]
    ELSE \/ ms < lastMs[p]
         \/ /\ ms = lastMs[p]
            /\ \/ seq <= sequence[p]
               \/ \E t \in Threads : ProcessOf[t] = p /\ pc[t] = "spinning"

Sound(p) == p \notin blind /\ Alone(p)

IssuedInv ==
    \A p \in Processes : Sound(p) =>
        \A ms \in Nat, seq \in Seqs : Id(ms, WorkerOf[p], seq) \in issued => Behind(p, ms, seq)

IInv == TypeOK /\ LockInv /\ TimeInv /\ IssuedInv /\ UniqueIds

Before(ms1, seq1, ms2, seq2) == ms1 < ms2 \/ (ms1 = ms2 /\ seq1 < seq2)

-----------------------------------------------------------------------------
(* Arithmetic of the bit fields                                            *)

\* A field does not run over into the next one.
LEMMA FieldOrder ==
    ASSUME NEW K \in Nat, NEW a \in Nat, NEW b \in 0..K, NEW c \in Nat, NEW d \in 0..K, a < c
    PROVE  a * (K + 1) + b < c * (K + 1) + d
<1>1. PICK e \in Nat : c = a + 1 + e
  <2>1. c - a - 1 \in Nat /\ c = a + 1 + (c - a - 1)
    BY SMT
  <2> QED BY <2>1
<1>2. c * (K + 1) = a * (K + 1) + (K + 1) + e * (K + 1)
  BY <1>1, SMT
<1>3. e * (K + 1) >= 0 /\ e * (K + 1) \in Int /\ a * (K + 1) \in Int /\ c * (K + 1) \in Int
  BY <1>1, SMT
<1> QED BY <1>2, <1>3, SMT

LEMMA IdType ==
    ASSUME NEW ms \in Nat, NEW w \in 0..MaxWorkerId, NEW s \in Seqs
    PROVE  Id(ms, w, s) \in Nat
BY SnowflakeAssumption, SMT DEF Id, Seqs

\* Ids of one worker are ordered as their time and sequence number.
LEMMA IdOrder ==
    ASSUME NEW ms1 \in Nat, NEW ms2 \in Nat, NEW w \in 0..MaxWorkerId,
           NEW s1 \in Seqs, NEW s2 \in Seqs, Before(ms1, s1, ms2, s2)
    PROVE  Id(ms1, w, s1) < Id(ms2, w, s2)
<1> USE SnowflakeAssumption
<1> DEFINE f(ms) == ms * (MaxWorkerId + 1) + w
<1>0. f(ms1) \in Nat /\ f(ms2) \in Nat /\ Id(ms1, w, s1) = f(ms1) * (MaxSequence + 1) + s1
                     /\ Id(ms2, w, s2) = f(ms2) * (MaxSequence + 1) + s2
  BY SMT DEF Id
<1>1. CASE ms1 < ms2
  <2>1. f(ms1) < f(ms2)
    BY <1>1, FieldOrder
  <2> HIDE DEF f
  <2> QED BY <2>1, <1>0, FieldOrder DEF Seqs
<1>2. CASE ms1 = ms2 /\ s1 < s2
  <2> HIDE DEF f
  <2>1. f(ms1) * (MaxSequence + 1) \in Int
    BY <1>0, SMT
  <2> QED BY <1>2, <1>0, <2>1, SMT DEF Seqs
<1> QED BY <1>1, <1>2 DEF Before

\* Two ids are equal only if all their fields are.
LEMMA IdInjective ==
    ASSUME NEW ms1 \in Nat, NEW ms2 \in Nat, NEW w1 \in 0..MaxWorkerId, NEW w2 \in 0..MaxWorkerId,
           NEW s1 \in Seqs, NEW s2 \in Seqs, Id(ms1, w1, s1) = Id(ms2, w2, s2)
    PROVE  ms1 = ms2 /\ w1 = w2 /\ s1 = s2
<1> USE SnowflakeAssumption
<1> DEFINE f == ms1 * (MaxWorkerId + 1) + w1
           g == ms2 * (MaxWorkerId + 1) + w2
<1>1. f \in Nat /\ g \in Nat
  BY SMT
<1>2. f * (MaxSequence + 1) + s1 = g * (MaxSequence + 1) + s2
  BY DEF Id
<1>3. f = g
  <2> HIDE DEF f, g
  <2>1. ~(f < g)
    BY <1>1, <1>2, FieldOrder, SMT DEF Seqs
  <2>2. ~(g < f)
    BY <1>1, <1>2, FieldOrder, SMT DEF Seqs
  <2> QED BY <2>1, <2>2, <1>1, SMT
<1>4. s1 = s2
  <2> HIDE DEF f, g
  <2>1. f * (MaxSequence + 1) \in Int
    BY <1>1, SMT
  <2> QED BY <2>1, <1>2, <1>3, SMT DEF Seqs
<1>5. ms1 = ms2
  <2>1. ~(ms1 < ms2)
    BY <1>3, FieldOrder, SMT
  <2>2. ~(ms2 < ms1)
    BY <1>3, FieldOrder, SMT
  <2> QED BY <2>1, <2>2, SMT
<1>6. w1 = w2
  <2>1. ms1 * (MaxWorkerId + 1) \in Int
    BY SMT
  <2> QED BY <2>1, <1>3, <1>5, SMT
<1> QED BY <1>4, <1>5, <1>6

-----------------------------------------------------------------------------
(* The invariant                                                           *)

LEMMA InitInv == Init => IInv
<1> SUFFICES ASSUME Init PROVE IInv
  OBVIOUS
<1>1. TypeOK
  BY SnowflakeAssumption, SMT DEF Init, TypeOK
<1> QED BY <1>1 DEF Init, IInv, LockInv, TimeInv, IssuedInv, UniqueIds

\* All steps of a call that end it: the id returned is past every id handed out
\* by the process, so it is new and the generator is past it too.
LEMMA ReturnStep ==
    ASSUME IInv, NEW t \in Threads, NEW ms \in Nat, NEW seq \in Seqs,
           pc[t] \in {"timed", "spinning"}, Return(t, ms, seq),
           Sound(ProcessOf[t]) =>
               \A m \in Nat, s \in Seqs :
                   Id(m, WorkerOf[ProcessOf[t]], s) \in issued => Before(m, s, ms, seq)
    PROVE  IInv'
<1> DEFINE p  == ProcessOf[t]
           id == Id(ms, WorkerOf[p], seq)
<1> USE SnowflakeAssumption
<1>1. p \in Processes /\ WorkerOf[p] \in 0..MaxWorkerId
  OBVIOUS
<1>2. id \in Nat
  BY <1>1, IdType
<1>3. TypeOK'
  <2>1. issued' \subseteq Nat /\ repeated' \subseteq Processes
    BY <1>1, <1>2 DEF IInv, TypeOK, Return
  <2>2. /\ lastMs' \in [Processes -> Nat \union {-1}]
        /\ sequence' \in [Processes -> 0..MaxSequence]
        /\ lock' \in [Processes -> Threads \union {NoThread}]
    BY <1>1 DEF IInv, TypeOK, Return, Seqs
  <2>3. /\ pc' \in [Threads -> {"idle", "timed", "asleep", "spinning"}]
        /\ now' \in [Threads -> Nat]
    BY DEF IInv, TypeOK, Return
  <2> QED BY <2>1, <2>2, <2>3 DEF IInv, TypeOK, Return
<1>4. \A u \in Threads : ProcessOf[u] = p => pc'[u] = "idle"
  BY DEF IInv, TypeOK, LockInv, Return
<1>5. \A u \in Threads : ProcessOf[u] # p =>
          /\ pc'[u] = pc[u] /\ now'[u] = now[u] /\ left'[u] = left[u]
          /\ lock'[ProcessOf[u]] = lock[ProcessOf[u]]
          /\ lastMs'[ProcessOf[u]] = lastMs[ProcessOf[u]]
  BY DEF IInv, TypeOK, Return
<1>6. LockInv'
  BY <1>4, <1>5 DEF IInv, LockInv
<1>7. TimeInv'
  BY <1>4, <1>5 DEF IInv, TimeInv, Return
<1>8. IssuedInv'
  <2> SUFFICES ASSUME NEW q \in Processes, Sound(q)', NEW m \in Nat, NEW s \in Seqs,
                      Id(m, WorkerOf[q], s) \in issued'
               PROVE  Behind(q, m, s)'
    BY DEF IssuedInv, Id, Seqs
  <2>1. Sound(q)
    BY DEF Sound, Alone, Return
  <2>2. CASE q = p
    <3>1. lastMs'[q] = ms /\ sequence'[q] = seq
      BY <2>2 DEF IInv, TypeOK, Return
    <3>2. Before(m, s, ms, seq) \/ (m = ms /\ s = seq)
      <4>1. CASE Id(m, WorkerOf[q], s) \in issued
        BY <4>1, <2>1, <2>2
      <4>2. CASE Id(m, WorkerOf[q], s) = id
        BY <4>2, <2>2, <1>1, IdInjective
      <4> QED BY <4>1, <4>2 DEF Return
    <3> QED BY <3>1, <3>2, SMT DEF Behind, Before, Seqs
  <2>3. CASE q # p
    <3>1. WorkerOf[q] # WorkerOf[p]
      BY <2>1, <2>3, <1>1 DEF Sound, Alone
    <3>2. WorkerOf[q] \in 0..MaxWorkerId
      OBVIOUS
    <3>3. Id(m, WorkerOf[q], s) # id
      BY <3>1, <3>2, <1>1, IdInjective
    <3>4. Behind(q, m, s)
      BY <3>3, <2>1 DEF IInv, IssuedInv, Return
    <3>5. lastMs'[q] = lastMs[q] /\ sequence'[q] = sequence[q] /\ clock' = clock
      BY <2>3 DEF IInv, TypeOK, Return
    <3> QED BY <3>4, <3>5, <2>3, <1>5 DEF Behind
  <2> QED BY <2>2, <2>3
<1>9. UniqueIds'
  <2> SUFFICES ASSUME NEW q \in repeated', Sound(q)'
               PROVE  FALSE
    BY <1>3 DEF UniqueIds, Sound, Alone, TypeOK
  <2>1. Sound(q)
    BY DEF Sound, Alone, Return
  <2>2. q \notin repeated
    BY <2>1 DEF IInv, UniqueIds, Sound
  <2>3. q = p /\ id \in issued
    BY <2>2 DEF Return
  <2>4. Before(ms, seq, ms, seq)
    BY <2>1, <2>3
  <2> QED BY <2>4, SMT DEF Before, Seqs
<1> QED BY <1>3, <1>6, <1>7, <1>8, <1>9 DEF IInv

\* What the three steps that return an id hand to ReturnStep.
LEMMA NewMillisecondFresh ==
    ASSUME IInv, NEW t \in Threads, NewMillisecond(t), Sound(ProcessOf[t]),
           NEW m \in Nat, NEW s \in Seqs, Id(m, WorkerOf[ProcessOf[t]], s) \in issued
    PROVE  Before(m, s, now[t], 0)
<1> DEFINE p == ProcessOf[t]
<1>1. p \in Processes
  BY SnowflakeAssumption
<1>2. Behind(p, m, s)
  BY <1>1 DEF IInv, IssuedInv
<1>3. now[t] >= lastMs[p] /\ now[t] # lastMs[p] /\ pc[t] = "timed"
  BY DEF IInv, TimeInv, Sound, NewMillisecond
<1>4. lastMs[p] \in Nat \union {-1} /\ now[t] \in Nat
  BY <1>1 DEF IInv, TypeOK
<1> QED BY <1>2, <1>3, <1>4, SMT DEF Behind, Before

LEMMA SameMillisecondFresh ==
    ASSUME IInv, NEW t \in Threads, SameMillisecond(t), Sound(ProcessOf[t]),
           NEW m \in Nat, NEW s \in Seqs, Id(m, WorkerOf[ProcessOf[t]], s) \in issued
    PROVE  Before(m, s, now[t], sequence[ProcessOf[t]] + 1)
<1> DEFINE p == ProcessOf[t]
<1>1. p \in Processes
  BY SnowflakeAssumption
<1>2. Behind(p, m, s)
  BY <1>1 DEF IInv, IssuedInv
<1>3. ~ \E u \in Threads : ProcessOf[u] = p /\ pc[u] = "spinning"
  BY DEF IInv, LockInv, SameMillisecond
<1>4. now[t] = lastMs[p] /\ now[t] \in Nat /\ sequence[p] \in Seqs
  BY <1>1 DEF IInv, TypeOK, SameMillisecond, Seqs
<1> QED BY <1>2, <1>3, <1>4, SnowflakeAssumption, SMT DEF Behind, Before, Seqs

LEMMA EndSpinFresh ==
    ASSUME IInv, NEW t \in Threads, EndSpin(t), Sound(ProcessOf[t]),
           NEW m \in Nat, NEW s \in Seqs, Id(m, WorkerOf[ProcessOf[t]], s) \in issued
    PROVE  Before(m, s, clock, 0)
<1> DEFINE p == ProcessOf[t]
<1>1. p \in Processes
  BY SnowflakeAssumption
<1>2. Behind(p, m, s)
  BY <1>1 DEF IInv, IssuedInv
<1>3. clock > lastMs[p] /\ lastMs[p] \in Nat \union {-1} /\ clock \in Nat
  BY <1>1 DEF IInv, TypeOK, EndSpin
<1> QED BY <1>2, <1>3, SMT DEF Behind, Before

-----------------------------------------------------------------------------
(* The steps that hand out no id                                           *)

LEMMA EnterInv == ASSUME IInv, NEW t \in Threads, Enter(t) PROVE IInv'
<1> DEFINE p == ProcessOf[t]
<1> USE SnowflakeAssumption
<1>1. p \in Processes /\ lastMs[p] \in Nat \union {-1} /\ clock \in Nat
  BY DEF IInv, TypeOK
<1>2. clock < lastMs[p] => lastMs[p] - clock \in 0..MaxBackward
  BY <1>1, SMT DEF Enter
<1>3. TypeOK'
  <2>1. left' \in [Threads -> 0..MaxBackward]
    BY <1>2, SMT DEF IInv, TypeOK, Enter
  <2>2. lock' \in [Processes -> Threads \union {NoThread}]
    BY <1>1 DEF IInv, TypeOK, Enter
  <2>3. /\ pc' \in [Threads -> {"idle", "timed", "asleep", "spinning"}]
        /\ now' \in [Threads -> Nat]
    BY <1>1 DEF IInv, TypeOK, Enter
  <2> QED BY <2>1, <2>2, <2>3 DEF IInv, TypeOK, Enter, histVars
<1>4. LockInv'
  BY <1>1 DEF IInv, TypeOK, LockInv, Enter
<1>5. \A u \in Threads \ {t} : pc'[u] = pc[u] /\ now'[u] = now[u] /\ left'[u] = left[u]
  BY DEF IInv, TypeOK, Enter
<1>6. pc'[t] = "timed" => now'[t] = clock /\ clock >= lastMs[p]
  BY <1>1, SMT DEF IInv, TypeOK, Enter
<1>7. pc'[t] = "asleep" => left'[t] = lastMs[p] - clock
  BY <1>1 DEF IInv, TypeOK, Enter
<1>8. pc[t] = "idle" /\ UNCHANGED <<clock, lastMs, sequence, issued, repeated, blind>>
  BY DEF Enter, histVars
<1>9. TimeInv'
  BY <1>1, <1>5, <1>6, <1>7, <1>8, SMT DEF IInv, TimeInv
<1>10. IssuedInv'
  <2> SUFFICES ASSUME NEW q \in Processes, Sound(q), NEW m \in Nat, NEW s \in Seqs,
                      Behind(q, m, s)
               PROVE  Behind(q, m, s)'
    BY <1>8 DEF IInv, IssuedInv, Sound, Alone, Id, Seqs
  <2> QED BY <1>5, <1>6, <1>8 DEF Behind
<1>11. UniqueIds'
  BY <1>8 DEF IInv, UniqueIds, Alone
<1> QED BY <1>3, <1>4, <1>9, <1>10, <1>11 DEF IInv

LEMMA WakeInv == ASSUME IInv, NEW t \in Threads, Wake(t) PROVE IInv'
<1> DEFINE p == ProcessOf[t]
<1> USE SnowflakeAssumption
<1>1. p \in Processes /\ lastMs[p] \in Nat \union {-1} /\ clock \in Nat
  BY DEF IInv, TypeOK
<1>2. TypeOK'
  BY DEF IInv, TypeOK, Wake, genVars, histVars
<1>3. LockInv'
  BY DEF IInv, TypeOK, LockInv, Wake, genVars
<1>4. /\ \A u \in Threads \ {t} : pc'[u] = pc[u] /\ now'[u] = now[u]
      /\ pc'[t] = "timed" /\ now'[t] = clock
      /\ pc[t] = "asleep" /\ left[t] = 0
      /\ UNCHANGED <<clock, lastMs, sequence, left, issued, repeated, blind>>
  BY DEF IInv, TypeOK, Wake, genVars, histVars
<1>5. p \notin blind => clock >= lastMs[p]
  BY <1>1, <1>4, SMT DEF IInv, TimeInv
<1>6. TimeInv'
  BY <1>4, <1>5 DEF IInv, TimeInv
<1>7. IssuedInv'
  <2> SUFFICES ASSUME NEW q \in Processes, Sound(q), NEW m \in Nat, NEW s \in Seqs,
                      Behind(q, m, s)
               PROVE  Behind(q, m, s)'
    BY <1>4 DEF IInv, IssuedInv, Sound, Alone, Id, Seqs
  <2> QED BY <1>4 DEF Behind
<1>8. UniqueIds'
  BY <1>4 DEF IInv, UniqueIds, Alone
<1> QED BY <1>2, <1>3, <1>6, <1>7, <1>8 DEF IInv

LEMMA ExhaustedInv == ASSUME IInv, NEW t \in Threads, Exhausted(t) PROVE IInv'
<1> DEFINE p == ProcessOf[t]
<1> USE SnowflakeAssumption
<1>1. p \in Processes
  OBVIOUS
<1>2. TypeOK'
  BY <1>1, SMT DEF IInv, TypeOK, Exhausted, histVars
<1>3. LockInv'
  BY DEF IInv, TypeOK, LockInv, Exhausted
<1>4. /\ \A u \in Threads \ {t} : pc'[u] = pc[u]
      /\ pc[t] = "timed" /\ pc'[t] = "spinning"
      /\ \A q \in Processes \ {p} : sequence'[q] = sequence[q]
      /\ UNCHANGED <<clock, lastMs, now, left, issued, repeated, blind>>
  BY DEF IInv, TypeOK, Exhausted, histVars
<1>5. TimeInv'
  BY <1>4 DEF IInv, TimeInv
<1>6. IssuedInv'
  <2> SUFFICES ASSUME NEW q \in Processes, Sound(q), NEW m \in Nat, NEW s \in Seqs,
                      Behind(q, m, s)
               PROVE  Behind(q, m, s)'
    BY <1>4 DEF IInv, IssuedInv, Sound, Alone, Id, Seqs
  <2>1. CASE q = p
    BY <2>1, <1>4 DEF Behind
  <2>2. CASE q # p
    BY <2>2, <1>4 DEF Behind
  <2> QED BY <2>1, <2>2
<1>7. UniqueIds'
  BY <1>4 DEF IInv, UniqueIds, Alone
<1> QED BY <1>2, <1>3, <1>5, <1>6, <1>7 DEF IInv

-----------------------------------------------------------------------------
(* The clock and the processes                                             *)

LEMMA TickInv == ASSUME IInv, Tick PROVE IInv'
<1> USE SnowflakeAssumption
<1>1. \A t \in Threads : left[t] \in 0..MaxBackward /\ lastMs[ProcessOf[t]] \in Nat \union {-1}
  BY DEF IInv, TypeOK
<1>2. /\ clock \in Nat /\ clock' = clock + 1
      /\ UNCHANGED <<lastMs, sequence, lock, pc, now, issued, repeated, blind, faults>>
      /\ \A t \in Threads : left'[t] = IF left[t] > 0 THEN left[t] - 1 ELSE 0
  BY DEF IInv, TypeOK, Tick, genVars, histVars
<1>3. TypeOK'
  <2>1. left' \in [Threads -> 0..MaxBackward]
    BY <1>1, SMT DEF Tick
  <2> QED BY <2>1, <1>2, SMT DEF IInv, TypeOK
<1>4. LockInv'
  BY <1>2 DEF IInv, LockInv
<1>5. TimeInv'
  BY <1>1, <1>2, SMT DEF IInv, TimeInv
<1>6. IssuedInv'
  <2> SUFFICES ASSUME NEW q \in Processes, Sound(q), NEW m \in Nat, NEW s \in Seqs,
                      Behind(q, m, s)
               PROVE  Behind(q, m, s)'
    BY <1>2 DEF IInv, IssuedInv, Sound, Alone, Id, Seqs
  <2> QED BY <1>2, SMT DEF Behind
<1>7. UniqueIds'
  BY <1>2 DEF IInv, UniqueIds, Alone
<1> QED BY <1>3, <1>4, <1>5, <1>6, <1>7 DEF IInv

LEMMA StepBackInv == ASSUME IInv, NEW by \in 1..clock, StepBack(by) PROVE IInv'
<1> USE SnowflakeAssumption
<1>1. /\ clock \in Nat /\ clock' = clock - by
      /\ UNCHANGED <<lastMs, sequence, lock, pc, now, left, issued, repeated>>
      /\ faults' = faults + 1
  BY DEF IInv, TypeOK, StepBack, Fault, genVars, callVars
<1>2. /\ blind' \subseteq Processes /\ blind \subseteq blind'
      /\ \A p \in Processes \ blind' :
            /\ lastMs[p] # -1
            /\ \A t \in Threads : ProcessOf[t] = p => pc[t] # "asleep"
  BY DEF IInv, TypeOK, StepBack
<1>3. TypeOK'
  BY <1>1, <1>2, SMT DEF IInv, TypeOK
<1>4. LockInv'
  BY <1>1 DEF IInv, LockInv
<1>5. TimeInv'
  BY <1>1, <1>2 DEF IInv, TimeInv
<1>6. IssuedInv'
  BY <1>1, <1>2 DEF IInv, IssuedInv, Sound, Alone, Behind, Id, Seqs
<1>7. UniqueIds'
  BY <1>1, <1>2 DEF IInv, UniqueIds, Alone
<1> QED BY <1>3, <1>4, <1>5, <1>6, <1>7 DEF IInv

LEMMA RestartInv == ASSUME IInv, NEW p \in Processes, Restart(p) PROVE IInv'
<1> USE SnowflakeAssumption
<1>1. TypeOK'
  BY SMT DEF IInv, TypeOK, Restart, Fault
<1>2. \A t \in Threads : ProcessOf[t] = p => pc'[t] = "idle"
  BY DEF Restart
<1>3. \A t \in Threads : ProcessOf[t] # p =>
          /\ pc'[t] = pc[t] /\ now'[t] = now[t] /\ left'[t] = left[t]
          /\ lock'[ProcessOf[t]] = lock[ProcessOf[t]]
          /\ lastMs'[ProcessOf[t]] = lastMs[ProcessOf[t]]
  BY DEF IInv, TypeOK, Restart
<1>4. /\ UNCHANGED <<clock, issued, repeated>> /\ blind \subseteq blind'
      /\ lastMs'[p] = -1
      /\ p \notin blind' => ~(clock <= lastMs[p])
  BY DEF IInv, TypeOK, Restart
<1>5. LockInv'
  BY <1>2, <1>3 DEF IInv, LockInv
<1>6. TimeInv'
  BY <1>2, <1>3, <1>4 DEF IInv, TimeInv
<1>7. IssuedInv'
  <2> SUFFICES ASSUME NEW q \in Processes, Sound(q)', NEW m \in Nat, NEW s \in Seqs,
                      Id(m, WorkerOf[q], s) \in issued
               PROVE  Behind(q, m, s)'
    BY <1>4 DEF IssuedInv, Id, Seqs
  <2>1. Behind(q, m, s)
    BY <1>4 DEF IInv, IssuedInv, Sound, Alone
  <2>2. CASE q = p
    <3>1. m < clock
      <4>1. lastMs[q] \in Nat \union {-1} /\ clock \in Nat /\ clock > lastMs[q]
        BY <2>2, <1>4, SMT DEF IInv, TypeOK, Sound
      <4> QED BY <4>1, <2>1, SMT DEF Behind
    <3> QED BY <3>1, <2>2, <1>2, <1>4 DEF Behind
  <2>3. CASE q # p
    <3>1. lastMs'[q] = lastMs[q] /\ sequence'[q] = sequence[q]
      BY <2>3 DEF IInv, TypeOK, Restart
    <3> QED BY <3>1, <2>1, <2>3, <1>3, <1>4 DEF Behind
  <2> QED BY <2>2, <2>3
<1>8. UniqueIds'
  BY <1>4 DEF IInv, UniqueIds, Alone
<1> QED BY <1>1, <1>5, <1>6, <1>7, <1>8 DEF IInv

-----------------------------------------------------------------------------
(* The theorems                                                            *)

LEMMA NextInv == IInv /\ [Next]_vars => IInv'
<1> SUFFICES ASSUME IInv, [Next]_vars PROVE IInv'
  OBVIOUS
<1> USE SnowflakeAssumption
<1>1. ASSUME NEW t \in Threads, NewMillisecond(t) PROVE IInv'
  <2>1. now[t] \in Nat /\ 0 \in Seqs /\ pc[t] \in {"timed", "spinning"}
        /\ Return(t, now[t], 0)
    BY <1>1, SMT DEF IInv, TypeOK, Seqs, NewMillisecond
  <2> QED BY <2>1, <1>1, NewMillisecondFresh, ReturnStep
<1>2. ASSUME NEW t \in Threads, SameMillisecond(t) PROVE IInv'
  <2>1. /\ now[t] \in Nat /\ sequence[ProcessOf[t]] + 1 \in Seqs
        /\ pc[t] \in {"timed", "spinning"} /\ Return(t, now[t], sequence[ProcessOf[t]] + 1)
    BY <1>2, SMT DEF IInv, TypeOK, Seqs, SameMillisecond
  <2> QED BY <2>1, <1>2, SameMillisecondFresh, ReturnStep
<1>3. ASSUME NEW t \in Threads, EndSpin(t) PROVE IInv'
  <2>1. clock \in Nat /\ 0 \in Seqs /\ pc[t] \in {"timed", "spinning"} /\ Return(t, clock, 0)
    BY <1>3, SMT DEF IInv, TypeOK, Seqs, EndSpin
  <2> QED BY <2>1, <1>3, EndSpinFresh, ReturnStep
<1>4. CASE UNCHANGED vars
  BY <1>4 DEF vars, genVars, callVars, histVars, IInv, TypeOK, LockInv, TimeInv,
              IssuedInv, UniqueIds, Sound, Alone, Behind
<1> QED BY <1>1, <1>2, <1>3, <1>4, EnterInv, WakeInv, ExhaustedInv, TickInv, StepBackInv,
           RestartInv DEF Next, NextId

\* The invariant the theorems below are read off.
THEOREM SnowflakeInvariant == Spec => []IInv
BY InitInv, NextInv, PTL DEF Spec

\* The generators, the locks and the ids keep their types; the sequence number
\* never leaves its field.
THEOREM SnowflakeTypeCorrect == Spec => []TypeOK
BY SnowflakeInvariant, PTL DEF IInv

\* An id is handed out again only by a process that shares its worker id or
\* could not see the clock step back.
THEOREM IdsAreUnique == Spec => []UniqueIds
BY SnowflakeInvariant, PTL DEF IInv

\* The end of a call: the id is greater than every id of the process before it.
LEMMA ReturnIncreases ==
    ASSUME IInv, NEW t \in Threads, NEW ms \in Nat, NEW seq \in Seqs, Return(t, ms, seq),
           Sound(ProcessOf[t]) =>
               \A m \in Nat, s \in Seqs :
                   Id(m, WorkerOf[ProcessOf[t]], s) \in issued => Before(m, s, ms, seq),
           Sound(ProcessOf[t]), NEW s \in Seqs, NEW m \in 0..MaxClock,
           Id(m, WorkerOf[ProcessOf[t]], s) \in issued
    PROVE  Id(m, WorkerOf[ProcessOf[t]], s)
              < Id(lastMs'[ProcessOf[t]], WorkerOf[ProcessOf[t]], sequence'[ProcessOf[t]])
<1> DEFINE p == ProcessOf[t]
<1> USE SnowflakeAssumption
<1>1. p \in Processes /\ WorkerOf[p] \in 0..MaxWorkerId /\ m \in Nat
  BY SMT
<1>2. lastMs'[p] = ms /\ sequence'[p] = seq
  BY <1>1 DEF IInv, TypeOK, Return
<1>3. Before(m, s, ms, seq)
  BY <1>1
<1> QED BY <1>1, <1>2, <1>3, IdOrder

LEMMA StepIncreases ==
    ASSUME IInv, [Next]_vars, NEW t \in Threads, pc[t] # "idle", pc'[t] = "idle",
           lastMs'[ProcessOf[t]] # -1, Sound(ProcessOf[t]),
           NEW s \in Seqs, NEW m \in 0..MaxClock,
           Id(m, WorkerOf[ProcessOf[t]], s) \in issued
    PROVE  Id(m, WorkerOf[ProcessOf[t]], s)
              < Id(lastMs'[ProcessOf[t]], WorkerOf[ProcessOf[t]], sequence'[ProcessOf[t]])
<1> DEFINE Increases == Id(m, WorkerOf[ProcessOf[t]], s)
              < Id(lastMs'[ProcessOf[t]], WorkerOf[ProcessOf[t]], sequence'[ProcessOf[t]])
<1>1. ASSUME NewMillisecond(t) PROVE Increases
  <2>1. now[t] \in Nat /\ 0 \in Seqs /\ Return(t, now[t], 0)
    BY <1>1, SnowflakeAssumption, SMT DEF IInv, TypeOK, Seqs, NewMillisecond
  <2> QED BY <2>1, <1>1, NewMillisecondFresh, ReturnIncreases
<1>2. ASSUME SameMillisecond(t) PROVE Increases
  <2>1. /\ now[t] \in Nat /\ sequence[ProcessOf[t]] + 1 \in Seqs
        /\ Return(t, now[t], sequence[ProcessOf[t]] + 1)
    BY <1>2, SnowflakeAssumption, SMT DEF IInv, TypeOK, Seqs, SameMillisecond
  <2> QED BY <2>1, <1>2, SameMillisecondFresh, ReturnIncreases
<1>3. ASSUME EndSpin(t) PROVE Increases
  <2>1. clock \in Nat /\ 0 \in Seqs /\ Return(t, clock, 0)
    BY <1>3, SnowflakeAssumption, SMT DEF IInv, TypeOK, Seqs, EndSpin
  <2> QED BY <2>1, <1>3, EndSpinFresh, ReturnIncreases
<1>4. NewMillisecond(t) \/ SameMillisecond(t) \/ EndSpin(t)
  <2>1. ~(Enter(t) \/ Wake(t) \/ Exhausted(t))
    BY DEF Enter, Wake, Exhausted, IInv, TypeOK
  <2>2. ASSUME NEW u \in Threads, u # t, NextId(u) PROVE pc'[t] = pc[t]
    BY <2>2 DEF NextId, Enter, Wake, NewMillisecond, SameMillisecond, Exhausted, EndSpin,
                Return, IInv, TypeOK
  <2>3. ~Tick /\ ~ \E by \in 1..clock : StepBack(by)
    BY DEF Tick, StepBack, callVars
  <2>4. ~ \E p \in Processes : Restart(p)
    BY DEF Restart, IInv, TypeOK
  <2>5. ~ UNCHANGED vars
    BY DEF vars, callVars
  <2> QED BY <2>1, <2>2, <2>3, <2>4, <2>5 DEF Next, NextId
<1> QED BY <1>1, <1>2, <1>3, <1>4

\* The ids of a process increase while it is alone with its worker id and the
\* clock has not stepped back where it cannot see it.
THEOREM IdsAreIncreasing == Spec => IdsIncrease
<1>1. IInv /\ [Next]_vars =>
        [\A t \in Threads :
            LET p == ProcessOf[t]
            IN  pc[t] # "idle" /\ pc'[t] = "idle" /\ lastMs'[p] # -1 /\ p \notin blind /\ Alone(p)
                => \A seq \in 0..MaxSequence, ms \in 0..MaxClock :
                      Id(ms, WorkerOf[p], seq) \in issued
                      => Id(ms, WorkerOf[p], seq) < Id(lastMs'[p], WorkerOf[p], sequence'[p])]_vars
  BY StepIncreases DEF Sound, Seqs
<1> QED BY <1>1, SnowflakeInvariant, PTL DEF Spec, IdsIncrease
=============================================================================
