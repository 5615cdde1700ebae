----------------------------- MODULE Core_proofs ----------------------------
(***************************************************************************)
(* Proofs about what the services of app/core share, a section for each:   *)
(* Lock, Config, ServiceAuth, Producer and Rows. None of them needs a fact *)
(* of another.                                                             *)
(***************************************************************************)
EXTENDS Lock, Config, ServiceAuth, Producer, Rows, TLAPS

-----------------------------------------------------------------------------
(***************************************************************************)
(* Lock, for any number of instances, any time to live and any number of   *)
(* crashes and lost answers: who works inside the lock holds its key,      *)
(* unless the clock ran past it.                                           *)
(***************************************************************************)

\* Who works and has not been overrun by the clock is the holder of the key.
HolderInv == \A i \in Instances : at[i] = "inside" => i \in lapsed \/ key = i

\* Who holds the key, works, and never strayed, knows that it holds it.
BeliefInv == key # NoToken /\ at[key] = "inside" => key \in strayed \/ held[key]

LockInv ==
    /\ LockTypeOK
    /\ HolderInv
    /\ BeliefInv
    /\ OnlyStraysLeaveLocks

USE LockAssumption

LEMMA LockInvInit == LockInit => LockInv
  BY DEF LockInit, LockInv, LockTypeOK, HolderInv, BeliefInv, OnlyStraysLeaveLocks

\* try_acquire() changes the key only if nobody has it.
LEMMA SetNxFacts ==
  ASSUME LockInv, NEW i \in Instances, SetNx(i)
  PROVE  /\ key # NoToken => key' = key /\ left' = left
         /\ key = NoToken => key' = i /\ left' = Ttl
         /\ key' \in Instances \union {NoToken}
         /\ left' \in 0..Ttl
         /\ key' = NoToken <=> left' = 0
  BY DEF SetNx, LockInv, LockTypeOK

\* The script of release() takes the key from nobody but its caller.
LEMMA DelFacts ==
  ASSUME LockInv, NEW i \in Instances, DelIfMine(i)
  PROVE  /\ key' = IF key = i THEN NoToken ELSE key
         /\ key' \in Instances \union {NoToken}
         /\ left' \in 0..Ttl
         /\ key' = NoToken <=> left' = 0
  BY DEF DelIfMine, LockInv, LockTypeOK

LEMMA AcquireStep ==
  ASSUME LockInv, NEW i \in Instances, Acquire(i)
  PROVE  LockInv'
<1>1. LockTypeOK'
  BY SetNxFacts DEF LockInv, LockTypeOK, Acquire
<1>2. HolderInv'
  BY SetNxFacts DEF LockInv, LockTypeOK, HolderInv, Acquire
<1>3. BeliefInv'
  <2>1. CASE key = NoToken
    BY <2>1, SetNxFacts DEF LockInv, LockTypeOK, BeliefInv, Acquire
  <2>2. CASE key # NoToken
    <3>1. key' = key /\ at' = at
      BY <2>2, SetNxFacts DEF LockInv, LockTypeOK, Acquire
    <3>2. key \in Instances /\ (key = i => at[key] # "inside")
      BY <2>2 DEF LockInv, LockTypeOK, Acquire
    <3> QED
      BY <2>2, <3>1, <3>2 DEF LockInv, LockTypeOK, BeliefInv, Acquire
  <2> QED
    BY <2>1, <2>2
<1>4. OnlyStraysLeaveLocks'
  BY SetNxFacts DEF LockInv, LockTypeOK, OnlyStraysLeaveLocks, Acquire
<1> QED
  BY <1>1, <1>2, <1>3, <1>4 DEF LockInv

LEMMA AcquireAgainStep ==
  ASSUME LockInv, NEW i \in Instances, AcquireAgain(i)
  PROVE  LockInv'
<1>1. LockTypeOK'
  BY SetNxFacts DEF LockInv, LockTypeOK, AcquireAgain
<1>2. HolderInv'
  BY SetNxFacts DEF LockInv, LockTypeOK, HolderInv, AcquireAgain
<1>3. BeliefInv' /\ OnlyStraysLeaveLocks'
  BY SetNxFacts DEF LockInv, LockTypeOK, BeliefInv, OnlyStraysLeaveLocks, AcquireAgain
<1> QED
  BY <1>1, <1>2, <1>3 DEF LockInv

LEMMA AcquireAnswerLostStep ==
  ASSUME LockInv, NEW i \in Instances, AcquireAnswerLost(i)
  PROVE  LockInv'
<1>1. LockTypeOK'
  BY SetNxFacts DEF LockInv, LockTypeOK, AcquireAnswerLost
<1>2. HolderInv'
  BY SetNxFacts DEF LockInv, LockTypeOK, HolderInv, AcquireAnswerLost
<1>3. BeliefInv' /\ OnlyStraysLeaveLocks'
  BY SetNxFacts DEF LockInv, LockTypeOK, BeliefInv, OnlyStraysLeaveLocks, AcquireAnswerLost
<1> QED
  BY <1>1, <1>2, <1>3 DEF LockInv

LEMMA RenewStep ==
  ASSUME LockInv, NEW i \in Instances, Renew(i)
  PROVE  LockInv'
  BY DEF LockInv, LockTypeOK, HolderInv, BeliefInv, OnlyStraysLeaveLocks, Renew

LEMMA ReleaseStep ==
  ASSUME LockInv, NEW i \in Instances, Release(i)
  PROVE  LockInv'
<1>1. LockTypeOK'
  BY DelFacts DEF LockInv, LockTypeOK, Release, Leave
<1>2. HolderInv'
  BY DelFacts DEF LockInv, LockTypeOK, HolderInv, Release, Leave
<1>3. BeliefInv' /\ OnlyStraysLeaveLocks'
  BY DelFacts DEF LockInv, LockTypeOK, BeliefInv, OnlyStraysLeaveLocks, Release, Leave
<1> QED
  BY <1>1, <1>2, <1>3 DEF LockInv

\* __aexit__ skips the release only when _held is false: the key is then the
\* caller's no more, unless it strayed.
LEMMA ExitContextStep ==
  ASSUME LockInv, NEW i \in Instances, ExitContext(i)
  PROVE  LockInv'
<1>1. CASE ExitReleases(i)
  <2>1. Release(i)
    BY <1>1 DEF ExitContext, Release
  <2> QED
    BY <2>1, ReleaseStep
<1>2. CASE ~ExitReleases(i)
  <2>1. UNCHANGED <<key, left, held, strayed, mishaps>> /\ Leave(i)
    BY <1>2 DEF ExitContext
  <2>2. key = i => i \in strayed
    BY <1>2 DEF LockInv, LockTypeOK, BeliefInv, ExitContext, Leave, ExitReleases
  <2>3. LockTypeOK' /\ HolderInv'
    BY <2>1 DEF LockInv, LockTypeOK, HolderInv, Leave
  <2>4. BeliefInv' /\ OnlyStraysLeaveLocks'
    BY <2>1, <2>2 DEF LockInv, LockTypeOK, BeliefInv, OnlyStraysLeaveLocks, Leave
  <2> QED
    BY <2>3, <2>4 DEF LockInv
<1> QED
  BY <1>1, <1>2

LEMMA ReleaseFailsStep ==
  ASSUME LockInv, NEW i \in Instances, ReleaseFails(i)
  PROVE  LockInv'
<1>1. /\ key' = key \/ (key = i /\ key' = NoToken)
      /\ key' \in Instances \union {NoToken}
      /\ left' \in 0..Ttl
      /\ key' = NoToken <=> left' = 0
  BY DelFacts DEF LockInv, LockTypeOK, ReleaseFails
<1>2. LockTypeOK'
  BY <1>1 DEF LockInv, LockTypeOK, ReleaseFails, Leave
<1>3. HolderInv'
  BY <1>1 DEF LockInv, LockTypeOK, HolderInv, ReleaseFails, Leave
<1>4. BeliefInv' /\ OnlyStraysLeaveLocks'
  BY <1>1 DEF LockInv, LockTypeOK, BeliefInv, OnlyStraysLeaveLocks, ReleaseFails, Leave
<1> QED
  BY <1>2, <1>3, <1>4 DEF LockInv

LEMMA HolderCrashStep ==
  ASSUME LockInv, NEW i \in Instances, HolderCrash(i)
  PROVE  LockInv'
<1>1. LockTypeOK' /\ HolderInv'
  BY DEF LockInv, LockTypeOK, HolderInv, HolderCrash
<1>2. BeliefInv' /\ OnlyStraysLeaveLocks'
  BY DEF LockInv, LockTypeOK, BeliefInv, OnlyStraysLeaveLocks, HolderCrash
<1> QED
  BY <1>1, <1>2 DEF LockInv

LEMMA KeyAgesStep ==
  ASSUME LockInv, KeyAges
  PROVE  LockInv'
<1>1. key \in Instances
  BY DEF LockInv, LockTypeOK, KeyAges
<1>2. LockTypeOK'
  BY <1>1 DEF LockInv, LockTypeOK, KeyAges
<1>3. HolderInv'
  BY <1>1 DEF LockInv, LockTypeOK, HolderInv, KeyAges
<1>4. BeliefInv' /\ OnlyStraysLeaveLocks'
  BY <1>1 DEF LockInv, LockTypeOK, BeliefInv, OnlyStraysLeaveLocks, KeyAges
<1> QED
  BY <1>2, <1>3, <1>4 DEF LockInv

LEMMA LockInvStep == LockInv /\ [LockNext]_lockVars => LockInv'
<1> SUFFICES ASSUME LockInv, [LockNext]_lockVars PROVE LockInv'
  OBVIOUS
<1>1. CASE UNCHANGED lockVars
  BY <1>1 DEF lockVars, LockInv, LockTypeOK, HolderInv, BeliefInv, OnlyStraysLeaveLocks
<1>2. ASSUME NEW i \in Instances,
             \/ Acquire(i) \/ AcquireAgain(i) \/ AcquireAnswerLost(i) \/ Renew(i)
             \/ Release(i) \/ ExitContext(i) \/ ReleaseFails(i) \/ HolderCrash(i)
      PROVE  LockInv'
  BY <1>2, AcquireStep, AcquireAgainStep, AcquireAnswerLostStep, RenewStep, ReleaseStep,
     ExitContextStep, ReleaseFailsStep, HolderCrashStep
<1>3. CASE KeyAges
  BY <1>3, KeyAgesStep
<1> QED
  BY <1>1, <1>2, <1>3 DEF LockNext

\* The invariant the theorems below are read off.
THEOREM LockInvariant == LockSpec => []LockInv
<1> QED
  BY LockInvInit, LockInvStep, PTL DEF LockSpec

\* The state of the lock keeps its types: a key exists as long as it has time
\* to live, and no longer than ttl_seconds without a renewal.
THEOREM LockTypeCorrect == LockSpec => []LockTypeOK
<1>1. LockInv => LockTypeOK
  BY DEF LockInv
<1> QED
  BY <1>1, LockInvariant, PTL

\* Of any number of callers two are in the critical section together only after
\* the time to live of one of them ran out (RedisLock.try_acquire, release).
THEOREM MutualExclusion == LockSpec => []LapseOnlyBreaksExclusion
<1>1. LockInv => LapseOnlyBreaksExclusion
  BY DEF LockInv, HolderInv, LapseOnlyBreaksExclusion
<1> QED
  BY <1>1, LockInvariant, PTL

\* A lock nobody works under was left by a crash, a lost answer or a second
\* try_acquire() on the same instance; every other caller frees it.
THEOREM LocksAreFreed == LockSpec => []OnlyStraysLeaveLocks
<1>1. LockInv => OnlyStraysLeaveLocks
  BY DEF LockInv
<1> QED
  BY <1>1, LockInvariant, PTL

HIDE LockAssumption

-----------------------------------------------------------------------------
(***************************************************************************)
(* Config, for any processes, keys and values, any number of changes and   *)
(* any losses: a process shows the values of one state of the table,       *)
(* unless two of its loads met.                                            *)
(***************************************************************************)

Loads == [by : {"watcher", "reload"}, of : 1..Current]

\* A process in which no two loads met has one under way at most, and it read
\* the table no earlier than the process shows it.
LoadsInv ==
    \A p \in Servers : p \in overlap \/
        \A l \in loads[p] : l.of >= version[p] /\ loads[p] = {l}

ConfigInv == ConfigTypeOK /\ LoadsInv /\ NoMixedConfig

USE ConfigAssumption

LEMMA ConfigInvInit == ConfigInit => ConfigInv
<1> SUFFICES ASSUME ConfigInit PROVE ConfigInv
  OBVIOUS
<1>1. PICK t \in [ConfigKeys -> Good] : committed = <<t>>
  BY DEF ConfigInit
<1>2. committed \in Seq(Tables) /\ Current = 1
  BY <1>1 DEF Tables, Current
<1>3. ConfigTypeOK
  BY <1>2 DEF ConfigInit, ConfigTypeOK
<1> QED
  BY <1>3 DEF ConfigInit, ConfigInv, LoadsInv, NoMixedConfig

\* What holds of every step but a commit and the end of a load.
LEMMA TableStays ==
  ASSUME ConfigInv, UNCHANGED <<committed, values, version>>
  PROVE  /\ NoMixedConfig'
         /\ committed' \in Seq(Tables)
         /\ Current' = Current /\ Current' \in Nat \ {0}
         /\ values' \in [Servers -> [ConfigKeys -> Good \union {Absent}]]
         /\ version' \in [Servers -> 0..Current']
  BY DEF ConfigInv, ConfigTypeOK, NoMixedConfig, Current

LEMMA CommitChangeStep ==
  ASSUME ConfigInv, CommitChange
  PROVE  ConfigInv'
<1>1. PICK t \in Tables : committed' = Append(committed, t)
  BY DEF CommitChange
<1>2. committed \in Seq(Tables) /\ Current \in Nat \ {0}
  BY DEF ConfigInv, ConfigTypeOK
<1>3. /\ committed' \in Seq(Tables)
      /\ Current' = Current + 1
      /\ \A i \in 1..Current : committed'[i] = committed[i]
  BY <1>1, <1>2 DEF Current
<1>4. version' \in [Servers -> 0..Current'] /\ loads' \in [Servers -> SUBSET Loads']
  <2>1. version' = version /\ loads' = loads
    BY DEF CommitChange
  <2>2. version \in [Servers -> 0..Current] /\ loads \in [Servers -> SUBSET Loads]
    BY DEF ConfigInv, ConfigTypeOK, Loads
  <2>3. 0..Current \subseteq 0..Current' /\ 1..Current \subseteq 1..Current'
    BY <1>2, <1>3
  <2>4. Loads \subseteq Loads'
    BY <2>3 DEF Loads
  <2> QED
    BY <2>1, <2>2, <2>3, <2>4
<1>5. UNCHANGED <<values, watching, inbox, overlap, missed, losses>> /\ announced' \in BOOLEAN
  BY DEF CommitChange
<1>10. ConfigTypeOK'
  <2>1. Current' \in Nat \ {0}
    BY <1>2, <1>3
  <2> QED
    BY <1>3, <1>4, <1>5, <2>1 DEF ConfigInv, ConfigTypeOK, Loads
<1>6. LoadsInv'
  BY DEF ConfigInv, LoadsInv, CommitChange
<1>7. NoMixedConfig'
  <2> SUFFICES ASSUME NEW p \in Servers, version'[p] # 0
               PROVE  values'[p] = Shown(committed'[version'[p]])
    BY DEF NoMixedConfig, Shown
  <2>1. version'[p] = version[p] /\ values'[p] = values[p] /\ version[p] \in 1..Current
    BY <1>2 DEF CommitChange, ConfigInv, ConfigTypeOK
  <2>2. committed'[version'[p]] = committed[version[p]]
    BY <1>3, <2>1
  <2> QED
    BY <2>1, <2>2 DEF ConfigInv, NoMixedConfig
<1> QED
  BY <1>10, <1>6, <1>7 DEF ConfigInv

LEMMA PublishStep ==
  ASSUME ConfigInv, Publish \/ PublishFails
  PROVE  ConfigInv'
<1>1. UNCHANGED <<committed, values, version, watching, loads, overlap>>
  BY DEF Publish, PublishFails
<1>2. inbox' \in [Servers -> Nat] /\ announced' \in BOOLEAN
  <2>1. inbox \in [Servers -> Nat]
    BY DEF ConfigInv, ConfigTypeOK
  <2>2. CASE Publish
    <3>1. \A p \in Servers : (IF watching[p] THEN inbox[p] + 1 ELSE inbox[p]) \in Nat
      BY <2>1
    <3> QED
      BY <2>2, <3>1 DEF Publish
  <2>3. CASE PublishFails
    BY <2>1, <2>3 DEF PublishFails
  <2> QED
    BY <2>2, <2>3
<1>3. missed' \subseteq Servers /\ losses' \in Nat
  BY DEF Publish, PublishFails, ConfigInv, ConfigTypeOK
<1>4. ConfigTypeOK'
  BY <1>1, <1>2, <1>3, TableStays DEF ConfigInv, ConfigTypeOK
<1> QED
  BY <1>1, <1>4, TableStays DEF ConfigInv, LoadsInv

LEMMA SubscriptionStep ==
  ASSUME ConfigInv, NEW p \in Servers, Subscribe(p) \/ LoseSubscription(p)
  PROVE  ConfigInv'
<1>1. UNCHANGED <<committed, announced, values, version, loads, overlap>>
  BY DEF Subscribe, LoseSubscription
<1>2. watching' \in [Servers -> BOOLEAN] /\ inbox' \in [Servers -> Nat]
  <2>1. watching \in [Servers -> BOOLEAN] /\ inbox \in [Servers -> Nat]
    BY DEF ConfigInv, ConfigTypeOK
  <2>2. CASE Subscribe(p)
    BY <2>1, <2>2 DEF Subscribe
  <2>3. CASE LoseSubscription(p)
    BY <2>1, <2>3 DEF LoseSubscription
  <2> QED
    BY <2>2, <2>3
<1>3. missed' \subseteq Servers /\ losses' \in Nat
  BY DEF Subscribe, LoseSubscription, ConfigInv, ConfigTypeOK
<1>4. ConfigTypeOK'
  BY <1>1, <1>2, <1>3, TableStays DEF ConfigInv, ConfigTypeOK
<1> QED
  BY <1>1, <1>4, TableStays DEF ConfigInv, LoadsInv

\* A load that begins beside another is remembered in overlap; one that begins
\* alone reads the table as it is.
LEMMA StartLoadFacts ==
  ASSUME ConfigInv, NEW p \in Servers, NEW who \in {"watcher", "reload"},
         StartLoad(p, who), UNCHANGED <<committed, values, version>>,
         overlap' = IF loads[p] # {} THEN overlap \union {p} ELSE overlap
  PROVE  /\ loads' \in [Servers -> SUBSET Loads']
         /\ LoadsInv'
         /\ overlap' \subseteq Servers
<1> DEFINE l == [by |-> who, of |-> Current]
<1>1. loads' = [loads EXCEPT ![p] = @ \union {l}] /\ l \in Loads /\ Loads' = Loads
  BY DEF StartLoad, ConfigInv, ConfigTypeOK, Loads, Current
<1>2. loads \in [Servers -> SUBSET Loads] /\ version \in [Servers -> 0..Current]
  BY DEF ConfigInv, ConfigTypeOK, Loads
<1>3. loads' \in [Servers -> SUBSET Loads']
  BY <1>1, <1>2
<1>4. l.of >= version[p] /\ Current \in Nat
  BY <1>2 DEF ConfigInv, ConfigTypeOK
<1>5. ASSUME NEW q \in Servers, q \notin overlap', NEW m \in loads'[q]
      PROVE  m.of >= version'[q] /\ loads'[q] = {m}
  <2>1. q \notin overlap
    BY <1>5
  <2>2. CASE q = p
    <3>1. loads[p] = {}
      BY <1>5, <2>2
    <3>2. loads'[p] = {l}
      BY <1>1, <1>2, <3>1
    <3> QED
      BY <1>4, <1>5, <2>2, <3>2
  <2>3. CASE q # p
    <3>1. loads'[q] = loads[q]
      BY <1>1, <1>2, <2>3
    <3> QED
      BY <1>5, <2>1, <3>1 DEF ConfigInv, LoadsInv
  <2> QED
    BY <2>2, <2>3
<1>6. LoadsInv'
  BY <1>5 DEF LoadsInv
<1> QED
  BY <1>3, <1>6 DEF ConfigInv, ConfigTypeOK

LEMMA WatcherLoadsStep ==
  ASSUME ConfigInv, NEW p \in Servers, WatcherLoads(p)
  PROVE  ConfigInv'
<1>1. UNCHANGED <<committed, announced, values, version, watching, missed, losses>>
  BY DEF WatcherLoads
<1>2. loads[p] # {} <=> Loading(p, "reload")
  <2>1. \A l \in loads[p] : l.by \in {"watcher", "reload"}
    BY DEF ConfigInv, ConfigTypeOK
  <2> QED
    BY <2>1 DEF WatcherLoads, WatcherFree, Loading
<1>3. /\ loads' \in [Servers -> SUBSET Loads']
      /\ LoadsInv'
      /\ overlap' \subseteq Servers
  BY <1>1, <1>2, StartLoadFacts DEF WatcherLoads
<1>4. inbox' \in [Servers -> Nat]
  BY DEF WatcherLoads, ConfigInv, ConfigTypeOK
<1>5. ConfigTypeOK'
  BY <1>1, <1>3, <1>4, TableStays DEF ConfigInv, ConfigTypeOK, Loads
<1> QED
  BY <1>1, <1>3, <1>5, TableStays DEF ConfigInv

LEMMA ReloadConfigStep ==
  ASSUME ConfigInv, NEW p \in Servers, ReloadConfig(p)
  PROVE  ConfigInv'
<1>1. UNCHANGED <<committed, announced, values, version, watching, inbox, losses>>
  BY DEF ReloadConfig
<1>2. /\ loads' \in [Servers -> SUBSET Loads']
      /\ LoadsInv'
      /\ overlap' \subseteq Servers
  BY <1>1, StartLoadFacts DEF ReloadConfig
<1>3. missed' \subseteq Servers
  BY DEF ReloadConfig, ConfigInv, ConfigTypeOK
<1>4. ConfigTypeOK'
  BY <1>1, <1>2, <1>3, TableStays DEF ConfigInv, ConfigTypeOK, Loads
<1> QED
  BY <1>1, <1>2, <1>4, TableStays DEF ConfigInv

\* Fewer loads are no harm.
LEMMA EndLoadFacts ==
  ASSUME ConfigInv, NEW p \in Servers, NEW l \in loads[p],
         loads' = [loads EXCEPT ![p] = @ \ {l}], UNCHANGED committed
  PROVE  /\ loads' \in [Servers -> SUBSET Loads']
         /\ \A q \in Servers : loads'[q] \subseteq loads[q]
         /\ p \notin overlap => loads'[p] = {}
<1>1. loads \in [Servers -> SUBSET Loads] /\ Loads' = Loads
  BY DEF ConfigInv, ConfigTypeOK, Loads, Current
<1>2. p \notin overlap => loads[p] = {l}
  BY DEF ConfigInv, LoadsInv
<1> QED
  BY <1>1, <1>2

\* DbConfigSource.load() leaves out what does not parse, and nothing else.
LEMMA LoadedIsShown ==
  ASSUME NEW p \in Servers, NEW t \in Tables
  PROVE  /\ Loaded(p, t) = Shown(t)
         /\ Loaded(p, t) \in [ConfigKeys -> Good \union {Absent}]
<1>1. \A k \in ConfigKeys :
        (IF t[k] \in Good THEN t[k] ELSE Absent) = (IF t[k] = Bad THEN Absent ELSE t[k])
  BY DEF Tables
<1> QED
  BY <1>1 DEF Loaded, Shown

LEMMA FinishLoadStep ==
  ASSUME ConfigInv, NEW p \in Servers, FinishLoad(p)
  PROVE  /\ ConfigInv'
         /\ \A q \in Servers : version'[q] >= version[q] \/ q \in overlap'
<1>1. PICK l \in loads[p] :
        /\ loads' = [loads EXCEPT ![p] = @ \ {l}]
        /\ values' = [values EXCEPT ![p] = Loaded(p, committed[l.of])]
        /\ version' = [version EXCEPT ![p] = l.of]
        /\ UNCHANGED <<committed, announced, watching, inbox, overlap, missed, losses>>
  BY DEF FinishLoad
<1>2. /\ committed \in Seq(Tables) /\ Current = Len(committed) /\ Current \in Nat \ {0}
      /\ version \in [Servers -> 0..Current]
      /\ values \in [Servers -> [ConfigKeys -> Good \union {Absent}]]
      /\ loads \in [Servers -> SUBSET Loads]
  BY DEF ConfigInv, ConfigTypeOK, Current, Loads
<1>3. l.of \in 1..Current /\ committed[l.of] \in Tables
  BY <1>1, <1>2 DEF Loads
<1>4. Current' = Current /\ committed' = committed /\ overlap' = overlap
  BY <1>1 DEF Current
<1>5. /\ loads' \in [Servers -> SUBSET Loads']
      /\ \A q \in Servers : loads'[q] \subseteq loads[q]
      /\ p \notin overlap => loads'[p] = {}
  BY <1>1, EndLoadFacts
<1>6. version' \in [Servers -> 0..Current']
  BY <1>1, <1>2, <1>3, <1>4
<1>7. values' \in [Servers -> [ConfigKeys -> Good \union {Absent}]]
  BY <1>1, <1>2, <1>3, LoadedIsShown
<1>8. ConfigTypeOK'
  BY <1>1, <1>2, <1>4, <1>5, <1>6, <1>7 DEF ConfigInv, ConfigTypeOK, Loads
<1>9. LoadsInv'
  <2> SUFFICES ASSUME NEW q \in Servers, q \notin overlap', NEW m \in loads'[q]
               PROVE  m.of >= version'[q] /\ loads'[q] = {m}
    BY DEF LoadsInv
  <2>1. q # p /\ q \notin overlap
    BY <1>4, <1>5
  <2>2. loads'[q] = loads[q] /\ version'[q] = version[q]
    BY <1>1, <1>2, <2>1
  <2> QED
    BY <2>1, <2>2 DEF ConfigInv, LoadsInv
<1>10. NoMixedConfig'
  <2> SUFFICES ASSUME NEW q \in Servers, version'[q] # 0
               PROVE  values'[q] = Shown(committed'[version'[q]])
    BY DEF NoMixedConfig, Shown
  <2>1. CASE q = p
    <3>1. values'[p] = Loaded(p, committed[l.of]) /\ version'[p] = l.of
      BY <1>1, <1>2
    <3>2. Loaded(p, committed[l.of]) = Shown(committed[l.of])
      BY <1>3, LoadedIsShown
    <3> QED
      BY <1>4, <2>1, <3>1, <3>2
  <2>2. CASE q # p
    <3>1. values'[q] = values[q] /\ version'[q] = version[q]
      BY <1>1, <1>2, <2>2
    <3> QED
      BY <1>4, <3>1 DEF ConfigInv, NoMixedConfig
  <2> QED
    BY <2>1, <2>2
<1>11. ASSUME NEW q \in Servers, q \notin overlap'
       PROVE  version'[q] >= version[q]
  <2>1. CASE q = p
    BY <1>1, <1>2, <1>3, <1>4, <1>11, <2>1 DEF ConfigInv, LoadsInv
  <2>2. CASE q # p
    BY <1>1, <1>2, <2>2
  <2> QED
    BY <2>1, <2>2
<1> QED
  BY <1>8, <1>9, <1>10, <1>11 DEF ConfigInv

LEMMA LoadFailsStep ==
  ASSUME ConfigInv, NEW p \in Servers, LoadFails(p)
  PROVE  ConfigInv'
<1>1. UNCHANGED <<committed, announced, values, version, watching, inbox, overlap>>
  BY DEF LoadFails
<1>2. PICK l \in loads[p] : loads' = [loads EXCEPT ![p] = @ \ {l}]
  BY DEF LoadFails
<1>3. /\ loads' \in [Servers -> SUBSET Loads']
      /\ \A q \in Servers : loads'[q] \subseteq loads[q]
  BY <1>1, <1>2, EndLoadFacts
<1>4. missed' \subseteq Servers /\ losses' \in Nat
  BY DEF LoadFails, ConfigInv, ConfigTypeOK
<1>5. ConfigTypeOK'
  BY <1>1, <1>3, <1>4, TableStays DEF ConfigInv, ConfigTypeOK, Loads
<1>6. LoadsInv'
  BY <1>1, <1>3 DEF ConfigInv, LoadsInv
<1> QED
  BY <1>1, <1>5, <1>6, TableStays DEF ConfigInv

NeverBack == \A p \in Servers : version'[p] >= version[p] \/ p \in overlap'

LEMMA ConfigInvStep == ConfigInv /\ [ConfigNext]_configVars => ConfigInv' /\ NeverBack
<1> SUFFICES ASSUME ConfigInv, [ConfigNext]_configVars PROVE ConfigInv' /\ NeverBack
  OBVIOUS
<1>1. version' = version => NeverBack
  BY DEF NeverBack, ConfigInv, ConfigTypeOK
<1>2. CASE UNCHANGED configVars
  <2>1. ConfigTypeOK'
    BY <1>2, TableStays DEF configVars, ConfigInv, ConfigTypeOK
  <2> QED
    BY <1>1, <1>2, <2>1, TableStays DEF configVars, ConfigInv, LoadsInv
<1>3. CASE CommitChange
  BY <1>1, <1>3, CommitChangeStep DEF CommitChange
<1>4. CASE Publish \/ PublishFails
  BY <1>1, <1>4, PublishStep DEF Publish, PublishFails
<1>5. ASSUME NEW p \in Servers, Subscribe(p) \/ LoseSubscription(p)
      PROVE  ConfigInv' /\ NeverBack
  BY <1>1, <1>5, SubscriptionStep DEF Subscribe, LoseSubscription
<1>6. ASSUME NEW p \in Servers, WatcherLoads(p)
      PROVE  ConfigInv' /\ NeverBack
  BY <1>1, <1>6, WatcherLoadsStep DEF WatcherLoads
<1>7. ASSUME NEW p \in Servers, ReloadConfig(p)
      PROVE  ConfigInv' /\ NeverBack
  BY <1>1, <1>7, ReloadConfigStep DEF ReloadConfig
<1>8. ASSUME NEW p \in Servers, FinishLoad(p)
      PROVE  ConfigInv' /\ NeverBack
  BY <1>8, FinishLoadStep DEF NeverBack
<1>9. ASSUME NEW p \in Servers, LoadFails(p)
      PROVE  ConfigInv' /\ NeverBack
  BY <1>1, <1>9, LoadFailsStep DEF LoadFails
<1> QED
  BY <1>2, <1>3, <1>4, <1>5, <1>6, <1>7, <1>8, <1>9 DEF ConfigNext

\* The invariant the theorems below are read off.
THEOREM ConfigInvariant == ConfigSpec => []ConfigInv
<1> QED
  BY ConfigInvInit, ConfigInvStep, PTL DEF ConfigSpec

\* The configuration a process shows is always what one committed table shows,
\* never a mixture of two: ConfigCache.load() replaces the values as a whole.
THEOREM ConfigIsOneTable == ConfigSpec => []NoMixedConfig
<1>1. ConfigInv => NoMixedConfig
  BY DEF ConfigInv
<1> QED
  BY <1>1, ConfigInvariant, PTL

\* With the watcher alone, or reload_config() alone, no process ever goes back
\* to an older configuration, whatever changes and broadcasts come in between.
THEOREM ConfigOnlyAdvances == ConfigSpec => ConfigNeverGoesBack
<1>1. ConfigInv /\ [ConfigNext]_configVars =>
        [\A p \in Servers : version'[p] >= version[p] \/ p \in overlap']_configVars
  BY ConfigInvStep DEF NeverBack
<1> QED
  BY <1>1, ConfigInvariant, PTL DEF ConfigSpec, ConfigNeverGoesBack

HIDE ConfigAssumption

-----------------------------------------------------------------------------
(***************************************************************************)
(* ServiceAuth, for any requests, copies and processes, any                *)
(* SIGNATURE_TTL_SECONDS, any fineness of the clock and any lag: a store   *)
(* passes a request once.                                                  *)
(***************************************************************************)

\* The first moment at which no copy of n can be on its way to a store.
SafeAfter(n) == (stamp[n] + SignatureTtl + 1) * Parts + MaxLag

AuthTypeOK ==
    /\ shared \in BOOLEAN
    /\ now \in Nat
    /\ stamp \in [Signed -> Nat]
    /\ expires \in [Stores -> [Signed -> Nat]]
    /\ handling \in [Handlers -> [of : Signed \union {NoRequest}, in : Stores,
                                  at : Nat, inside : BOOLEAN]]
    /\ passed \in [Stores -> [Signed -> Nat]]

\* A copy between the two checks was fresh when its stamp was compared, and has
\* been under way for MaxLag at most.
CopyOK(h) ==
    handling[h].of # NoRequest =>
        /\ handling[h].in \in Processes
        /\ handling[h].at < (stamp[handling[h].of] + SignatureTtl + 1) * Parts
        /\ now <= handling[h].at + MaxLag

\* A request that has passed through a store is remembered there until no copy
\* of it can come.
RemembersLongEnough(s, n) ==
    passed[s][n] = 0 \/ s \in forgot \/ n \in hasty \/ expires[s][n] >= SafeAfter(n)

AuthInv ==
    /\ AuthTypeOK
    /\ RequestPassesOnce
    /\ \A h \in Handlers : CopyOK(h)
    /\ \A s \in Stores, n \in Signed : RemembersLongEnough(s, n)

USE AuthAssumption

\* Whole seconds and parts of a second.
LEMMA WholeSeconds ==
  ASSUME NEW t \in Nat, NEW s \in Nat, t \div Parts <= s
  PROVE  t < (s + 1) * Parts
<1>1. t = Parts * (t \div Parts) + (t % Parts) /\ t % Parts < Parts /\ t \div Parts \in Nat
  OBVIOUS
<1> DEFINE q == t \div Parts
<1>2. q \in Nat /\ q <= s /\ t < Parts * q + Parts
  BY <1>1
<1> HIDE DEF q
<1>3. Parts * q <= Parts * s
  BY <1>2
<1>4. (s + 1) * Parts = Parts * s + Parts
  OBVIOUS
<1>5. Parts * q \in Nat /\ Parts * s \in Nat
  BY <1>2
<1> QED
  BY <1>2, <1>3, <1>4, <1>5

\* What is registered from then on is kept for long enough.
LEMMA KeptLongEnough ==
  ASSUME NEW s \in Nat, NEW t \in Nat, t >= (s - SignatureTtl + 1) * Parts + MaxLag
  PROVE  t + NonceTtl >= (s + SignatureTtl + 1) * Parts + MaxLag
<1>1. (s + SignatureTtl + 1) * Parts = (s - SignatureTtl + 1) * Parts + 2 * SignatureTtl * Parts
  OBVIOUS
<1>2. /\ (s - SignatureTtl + 1) * Parts \in Int
      /\ 2 * SignatureTtl * Parts \in Int
  OBVIOUS
<1> QED
  BY <1>1, <1>2 DEF NonceTtl

LEMMA AuthInvInit == AuthInit => AuthInv
<1> SUFFICES ASSUME AuthInit PROVE AuthInv
  OBVIOUS
<1>1. AuthTypeOK
  <2>1. MaxTime \div Parts \in Nat /\ now \in Nat
    BY DEF AuthInit
  <2>2. NoCopy \in [of : Signed \union {NoRequest}, in : Stores, at : Nat, inside : BOOLEAN]
    BY DEF NoCopy, Stores
  <2> QED
    BY <2>1, <2>2 DEF AuthInit, AuthTypeOK
<1>2. \A h \in Handlers : CopyOK(h)
  BY DEF AuthInit, CopyOK, NoCopy
<1>3. \A s \in Stores, n \in Signed : passed[s][n] = 0
  BY DEF AuthInit
<1> QED
  BY <1>1, <1>2, <1>3 DEF AuthInv, RequestPassesOnce, RemembersLongEnough

LEMMA VerifyStep ==
  ASSUME AuthInv, NEW h \in Handlers, NEW p \in Processes, NEW n \in Signed, Verify(h, p, n)
  PROVE  AuthInv'
<1>1. PICK inside \in BOOLEAN :
        handling' = [handling EXCEPT ![h] = [of |-> n, in |-> p, at |-> now, inside |-> inside]]
  BY DEF Verify
<1>2. now \in Nat /\ stamp \in [Signed -> Nat] /\ p \in Stores
  BY DEF AuthInv, AuthTypeOK, Stores
<1>3. AuthTypeOK'
  BY <1>1, <1>2 DEF AuthInv, AuthTypeOK, Verify
<1>4. ASSUME NEW g \in Handlers PROVE CopyOK(g)'
  <2>1. CASE g = h
    <3>1. handling'[g] = [of |-> n, in |-> p, at |-> now, inside |-> inside]
      BY <1>1, <2>1 DEF AuthInv, AuthTypeOK
    <3>2. now \div Parts <= stamp[n] + SignatureTtl /\ stamp[n] + SignatureTtl \in Nat
      <4>1. now \div Parts \in Nat /\ now \div Parts - stamp[n] <= SignatureTtl
        BY <1>2 DEF Verify, Fresh
      <4> QED
        BY <1>2, <4>1
    <3>3. now < (stamp[n] + SignatureTtl + 1) * Parts
      BY <1>2, <3>2, WholeSeconds
    <3> QED
      BY <1>2, <3>1, <3>3 DEF CopyOK, Verify
  <2>2. CASE g # h
    <3>1. handling'[g] = handling[g] /\ CopyOK(g)
      BY <1>1, <2>2 DEF AuthInv, AuthTypeOK
    <3> QED
      BY <3>1 DEF CopyOK, Verify
  <2> QED
    BY <2>1, <2>2
<1>5. UNCHANGED <<passed, forgot, hasty, expires, stamp>>
  BY DEF Verify
<1> QED
  BY <1>3, <1>4, <1>5 DEF AuthInv, RequestPassesOnce, RemembersLongEnough, SafeAfter

\* A handler that ends leaves the other copies as they are.
LEMMA HandlerEnds ==
  ASSUME AuthInv, NEW h \in Handlers, handling' = [handling EXCEPT ![h] = NoCopy],
         UNCHANGED <<stamp, now>>
  PROVE  /\ handling' \in [Handlers -> [of : Signed \union {NoRequest}, in : Stores,
                                        at : Nat, inside : BOOLEAN]]
         /\ \A g \in Handlers : CopyOK(g)'
<1>1. NoCopy \in [of : Signed \union {NoRequest}, in : Stores, at : Nat, inside : BOOLEAN]
  BY DEF NoCopy, Stores
<1>2. ASSUME NEW g \in Handlers PROVE CopyOK(g)'
  <2>1. handling'[g] = NoCopy \/ handling'[g] = handling[g]
    BY DEF AuthInv, AuthTypeOK
  <2>2. CopyOK(g)
    BY DEF AuthInv
  <2> QED
    BY <2>1, <2>2 DEF CopyOK, NoCopy
<1> QED
  BY <1>1, <1>2 DEF AuthInv, AuthTypeOK

LEMMA RefuseNonceStep ==
  ASSUME AuthInv, NEW h \in Handlers, RefuseNonce(h)
  PROVE  AuthInv'
<1>1. /\ handling' = [handling EXCEPT ![h] = NoCopy]
      /\ UNCHANGED <<shared, now, stamp, expires, passed, hasty, forgot, restarts>>
  BY DEF RefuseNonce
<1>2. AuthTypeOK' /\ \A g \in Handlers : CopyOK(g)'
  BY <1>1, HandlerEnds DEF AuthInv, AuthTypeOK
<1> QED
  BY <1>1, <1>2 DEF AuthInv, RequestPassesOnce, RemembersLongEnough, SafeAfter

LEMMA RegisterNonceStep ==
  ASSUME AuthInv, NEW h \in Handlers, RegisterNonce(h)
  PROVE  AuthInv'
<1>2. StoreOf(handling[h].in) \in Stores /\ handling[h].of \in Signed
  <2>1. handling[h].in \in Stores /\ handling[h].of \in Signed \union {NoRequest}
    BY DEF AuthInv, AuthTypeOK
  <2> QED
    BY <2>1 DEF StoreOf, Stores, RegisterNonce
<1>1. PICK n \in Signed, s \in Stores :
        /\ n = handling[h].of
        /\ expires[s][n] <= now
        /\ expires' = [expires EXCEPT ![s][n] = now + NonceTtl]
        /\ passed' = passed \/ passed' = [passed EXCEPT ![s][n] = @ + 1]
        /\ hasty' = IF now < (stamp[n] - SignatureTtl + 1) * Parts + MaxLag
                    THEN hasty \union {n} ELSE hasty
        /\ handling' = [handling EXCEPT ![h] = NoCopy]
        /\ UNCHANGED <<shared, now, stamp, forgot, restarts>>
  <2> DEFINE nn == handling[h].of
             ss == StoreOf(handling[h].in)
  <2>1. /\ expires[ss][nn] <= now
        /\ expires' = [expires EXCEPT ![ss][nn] = now + NonceTtl]
        /\ passed' = passed \/ passed' = [passed EXCEPT ![ss][nn] = @ + 1]
        /\ hasty' = IF now < (stamp[nn] - SignatureTtl + 1) * Parts + MaxLag
                    THEN hasty \union {nn} ELSE hasty
        /\ handling' = [handling EXCEPT ![h] = NoCopy]
        /\ UNCHANGED <<shared, now, stamp, forgot, restarts>>
    BY DEF RegisterNonce
  <2>2. nn \in Signed /\ ss \in Stores /\ nn = handling[h].of
    BY <1>2
  <2> HIDE DEF nn, ss
  <2> QED
    BY <2>1, <2>2
<1>3. now \in Nat /\ stamp[n] \in Nat /\ NonceTtl \in Nat
  BY <1>2 DEF AuthInv, AuthTypeOK, NonceTtl
<1>4. /\ expires \in [Stores -> [Signed -> Nat]]
      /\ passed \in [Stores -> [Signed -> Nat]]
  BY DEF AuthInv, AuthTypeOK
<1>5. /\ expires' \in [Stores -> [Signed -> Nat]]
      /\ passed' \in [Stores -> [Signed -> Nat]]
  <2>1. now + NonceTtl \in Nat /\ expires[s] \in [Signed -> Nat]
    BY <1>3, <1>4
  <2>2. [expires[s] EXCEPT ![n] = now + NonceTtl] \in [Signed -> Nat]
    BY <2>1
  <2>3. expires' \in [Stores -> [Signed -> Nat]]
    BY <1>1, <1>4, <2>2
  <2>4. passed[s][n] + 1 \in Nat /\ passed[s] \in [Signed -> Nat]
    BY <1>4
  <2>5. [passed[s] EXCEPT ![n] = passed[s][n] + 1] \in [Signed -> Nat]
    BY <2>4
  <2>6. passed' \in [Stores -> [Signed -> Nat]]
    BY <1>1, <1>4, <2>5
  <2> QED
    BY <2>3, <2>6
<1>6. AuthTypeOK' /\ \A g \in Handlers : CopyOK(g)'
  BY <1>1, <1>5, HandlerEnds DEF AuthInv, AuthTypeOK
<1>7. now < SafeAfter(n)
  <2>1. CopyOK(h)
    BY DEF AuthInv
  <2>2. handling[h].at \in Nat /\ handling[h].at < (stamp[n] + SignatureTtl + 1) * Parts
        /\ now <= handling[h].at + MaxLag
    BY <1>1, <2>1 DEF CopyOK, AuthInv, AuthTypeOK
  <2>3. (stamp[n] + SignatureTtl + 1) * Parts \in Nat
    BY <1>3
  <2> QED
    BY <1>3, <2>2, <2>3 DEF SafeAfter
<1>8. SafeAfter(n) \in Nat
  BY <1>3 DEF SafeAfter
<1>9. passed[s][n] = 0 \/ s \in forgot \/ n \in hasty
  BY <1>1, <1>2, <1>3, <1>4, <1>7, <1>8 DEF AuthInv, RemembersLongEnough
<1>10. SafeAfter(n)' = SafeAfter(n) /\ (n \in hasty' \/ now + NonceTtl >= SafeAfter(n))
  <2>1. CASE now < (stamp[n] - SignatureTtl + 1) * Parts + MaxLag
    BY <1>1, <2>1 DEF SafeAfter
  <2>2. CASE ~(now < (stamp[n] - SignatureTtl + 1) * Parts + MaxLag)
    <3>1. (stamp[n] - SignatureTtl + 1) * Parts \in Int
      BY <1>3
    <3>2. now >= (stamp[n] - SignatureTtl + 1) * Parts + MaxLag
      BY <1>3, <2>2, <3>1
    <3> QED
      BY <1>1, <1>3, <3>2, KeptLongEnough DEF SafeAfter
  <2> QED
    BY <2>1, <2>2
<1>11. hasty \subseteq hasty'
  BY <1>1
<1>12. ASSUME NEW r \in Stores, NEW m \in Signed
       PROVE  /\ passed'[r][m] <= 1 \/ r \in forgot' \/ m \in hasty'
              /\ RemembersLongEnough(r, m)'
  <2>1. /\ passed[r][m] <= 1 \/ r \in forgot \/ m \in hasty
        /\ RemembersLongEnough(r, m)
    BY DEF AuthInv, RequestPassesOnce
  <2>2. CASE r = s /\ m = n
    <3>1. passed'[s][n] \in {passed[s][n], passed[s][n] + 1} /\ expires'[s][n] = now + NonceTtl
      BY <1>1, <1>2, <1>4
    <3>2. passed'[s][n] <= 1 \/ s \in forgot' \/ n \in hasty'
      BY <1>1, <1>9, <1>11, <3>1
    <3>3. RemembersLongEnough(s, n)'
      BY <1>10, <3>1 DEF RemembersLongEnough
    <3> QED
      BY <2>2, <3>2, <3>3
  <2>3. CASE ~(r = s /\ m = n)
    <3>1. passed'[r][m] = passed[r][m] /\ expires'[r][m] = expires[r][m]
      BY <1>1, <1>2, <1>4, <2>3
    <3> QED
      BY <1>1, <1>11, <2>1, <3>1 DEF RemembersLongEnough, SafeAfter
  <2> QED
    BY <2>2, <2>3
<1> QED
  BY <1>6, <1>12 DEF AuthInv, RequestPassesOnce

LEMMA RestartProcessStep ==
  ASSUME AuthInv, NEW p \in Processes, RestartProcess(p)
  PROVE  AuthInv'
<1>1. /\ expires' = [expires EXCEPT ![p] = [n \in Signed |-> 0]]
      /\ forgot' = forgot \union {p}
      /\ handling' = [h \in Handlers |-> IF handling[h].in = p THEN NoCopy ELSE handling[h]]
      /\ UNCHANGED <<shared, now, stamp, passed, hasty>>
  BY DEF RestartProcess
<1>2. NoCopy \in [of : Signed \union {NoRequest}, in : Stores, at : Nat, inside : BOOLEAN]
  BY DEF NoCopy, Stores
<1>3. handling' \in [Handlers -> [of : Signed \union {NoRequest}, in : Stores,
                                  at : Nat, inside : BOOLEAN]]
  BY <1>1, <1>2 DEF AuthInv, AuthTypeOK
<1>4. expires \in [Stores -> [Signed -> Nat]] /\ p \in Stores
  BY DEF AuthInv, AuthTypeOK, Stores
<1>5. /\ expires' \in [Stores -> [Signed -> Nat]]
      /\ \A s \in Stores : s # p => expires'[s] = expires[s]
  BY <1>1, <1>4
<1>6. AuthTypeOK'
  BY <1>1, <1>3, <1>5 DEF AuthInv, AuthTypeOK
<1>7. ASSUME NEW g \in Handlers PROVE CopyOK(g)'
  <2>1. handling'[g] = NoCopy \/ handling'[g] = handling[g]
    BY <1>1
  <2>2. CopyOK(g)
    BY DEF AuthInv
  <2> QED
    BY <1>1, <2>1, <2>2 DEF CopyOK, NoCopy
<1>8. ASSUME NEW s \in Stores, NEW n \in Signed
      PROVE  RemembersLongEnough(s, n)'
  <2>1. RemembersLongEnough(s, n)
    BY DEF AuthInv
  <2>2. CASE s = p
    BY <1>1, <2>2 DEF RemembersLongEnough
  <2>3. CASE s # p
    BY <1>1, <1>5, <2>1, <2>3 DEF RemembersLongEnough, SafeAfter
  <2> QED
    BY <2>2, <2>3
<1>9. RequestPassesOnce'
  BY <1>1 DEF AuthInv, RequestPassesOnce
<1> QED
  BY <1>6, <1>7, <1>8, <1>9 DEF AuthInv

LEMMA AuthTickStep ==
  ASSUME AuthInv, AuthTick
  PROVE  AuthInv'
<1>1. /\ now' = now + 1
      /\ UNCHANGED <<shared, stamp, expires, handling, passed, hasty, forgot>>
  BY DEF AuthTick
<1>2. AuthTypeOK'
  BY <1>1 DEF AuthInv, AuthTypeOK
<1>3. ASSUME NEW h \in Handlers PROVE CopyOK(h)'
  <2>1. handling[h].of # NoRequest => now < handling[h].at + MaxLag
    BY DEF AuthTick, NoCopy
  <2>2. CopyOK(h) /\ now \in Nat /\ handling[h].at \in Nat
    BY DEF AuthInv, AuthTypeOK
  <2>3. handling[h].of # NoRequest => now' <= handling[h].at + MaxLag
    BY <1>1, <2>1, <2>2
  <2> QED
    BY <1>1, <2>2, <2>3 DEF CopyOK
<1> QED
  BY <1>1, <1>2, <1>3 DEF AuthInv, RequestPassesOnce, RemembersLongEnough, SafeAfter

LEMMA AuthInvStep == AuthInv /\ [AuthNext]_authVars => AuthInv'
<1> SUFFICES ASSUME AuthInv, [AuthNext]_authVars PROVE AuthInv'
  OBVIOUS
<1>1. CASE UNCHANGED authVars
  BY <1>1 DEF authVars, AuthInv, AuthTypeOK, RequestPassesOnce, CopyOK,
              RemembersLongEnough, SafeAfter
<1>2. CASE AuthNext
  BY <1>2, VerifyStep, RegisterNonceStep, RefuseNonceStep, RestartProcessStep, AuthTickStep
     DEF AuthNext
<1> QED
  BY <1>1, <1>2

\* The invariant the theorem below is read off.
THEOREM AuthInvariant == AuthSpec => []AuthInv
<1> QED
  BY AuthInvInit, AuthInvStep, PTL DEF AuthSpec

\* SIGNATURE_TTL_SECONDS * 2 is long enough for a nonce: whatever the time to
\* live, the clocks, the copies and the way to the store, a store lets a signed
\* request pass once, the hasty requests and a restarted process excepted.
THEOREM PassesOnce == AuthSpec => []RequestPassesOnce
<1>1. AuthInv => RequestPassesOnce
  BY DEF AuthInv
<1> QED
  BY <1>1, AuthInvariant, PTL

HIDE AuthAssumption

-----------------------------------------------------------------------------
(***************************************************************************)
(* Producer, for any coroutines and any number of objects: one of them at  *)
(* a time is inside start() or stop(), so the flag tells the truth about   *)
(* the object.                                                             *)
(***************************************************************************)

ProducerTypeOK ==
    /\ made \in 0..MaxObjects
    /\ producer \in 0..made
    /\ started \in BOOLEAN
    /\ open \in [Objects -> Nat]
    /\ starting \in [Senders -> 0..made]
    /\ stopping \in 0..made

\* One coroutine at a time is in start() or stop(), of the object in use; it
\* starts what is not started and stops what is.
OneAtATime ==
    /\ \A c \in Senders : starting[c] # 0 =>
          /\ starting[c] = producer
          /\ ~started
          /\ stopping = 0
          /\ \A d \in Senders \ {c} : starting[d] = 0
    /\ stopping # 0 => started /\ stopping = producer
    /\ started => producer # 0

ProducerInv ==
    /\ ProducerTypeOK
    /\ StartedTellsTheTruth
    /\ ~crowded => OneAtATime

USE ProducerAssumption

LEMMA ProducerInvInit == ProducerInit => ProducerInv
<1> SUFFICES ASSUME ProducerInit PROVE ProducerInv
  OBVIOUS
<1>1. started \in BOOLEAN
  BY DEF ProducerInit
<1>2. ProducerTypeOK
  BY <1>1 DEF ProducerInit, ProducerTypeOK, Objects
<1>3. StartedTellsTheTruth /\ OneAtATime
  BY DEF ProducerInit, StartedTellsTheTruth, OneAtATime
<1> QED
  BY <1>2, <1>3 DEF ProducerInv

LEMMA EnsureStartedStep ==
  ASSUME ProducerInv, NEW c \in Senders, EnsureStarted(c)
  PROVE  ProducerInv'
<1>1. /\ producer' \in 0..made' /\ made' \in 0..MaxObjects /\ made <= made' /\ producer' # 0
      /\ producer # 0 => producer' = producer
  BY DEF EnsureStarted, GetProducer, ProducerInv, ProducerTypeOK
<1>2. /\ starting' = [starting EXCEPT ![c] = producer']
      /\ UNCHANGED <<started, open, stopping>>
      /\ ~started
      /\ ~crowded' => ~crowded /\ ~Busy
  BY DEF EnsureStarted, MustStart
<1>3. ProducerTypeOK'
  BY <1>1, <1>2 DEF ProducerInv, ProducerTypeOK, Objects
<1>4. ~crowded' => OneAtATime'
  BY <1>1, <1>2 DEF ProducerInv, ProducerTypeOK, OneAtATime, Busy
<1>5. StartedTellsTheTruth'
  BY <1>2 DEF ProducerInv, StartedTellsTheTruth
<1> QED
  BY <1>3, <1>4, <1>5 DEF ProducerInv

LEMMA StartSucceedsStep ==
  ASSUME ProducerInv, NEW c \in Senders, StartSucceeds(c)
  PROVE  ProducerInv'
<1>1. starting[c] \in Objects
  BY DEF StartSucceeds, ProducerInv, ProducerTypeOK, Objects
<1>2. ProducerTypeOK'
  BY <1>1 DEF StartSucceeds, ProducerInv, ProducerTypeOK
<1>3. ~crowded' => OneAtATime'
  BY DEF StartSucceeds, ProducerInv, ProducerTypeOK, OneAtATime
<1>4. StartedTellsTheTruth'
  BY <1>1 DEF StartSucceeds, ProducerInv, ProducerTypeOK, OneAtATime, StartedTellsTheTruth
<1> QED
  BY <1>2, <1>3, <1>4 DEF ProducerInv

LEMMA StartFailsStep ==
  ASSUME ProducerInv, NEW c \in Senders, StartFails(c)
  PROVE  ProducerInv'
<1>1. ProducerTypeOK' /\ StartedTellsTheTruth'
  BY DEF StartFails, ProducerInv, ProducerTypeOK, StartedTellsTheTruth, Objects
<1>2. ~crowded' => OneAtATime'
  BY DEF StartFails, ProducerInv, ProducerTypeOK, OneAtATime
<1> QED
  BY <1>1, <1>2 DEF ProducerInv

\* A stop() that is not needed finds _started false or no object at all.
LEMMA StopSkipsStep ==
  ASSUME ProducerInv, StopSkips
  PROVE  ProducerInv'
<1>1. ProducerTypeOK'
  BY DEF StopSkips, ProducerInv, ProducerTypeOK, Objects
<1>2. ~crowded' => ~crowded /\ ~started
  BY DEF StopSkips, ProducerInv, ProducerTypeOK, OneAtATime
<1>3. StartedTellsTheTruth' /\ (~crowded' => OneAtATime')
  BY <1>2 DEF StopSkips, ProducerInv, ProducerTypeOK, OneAtATime, StartedTellsTheTruth, Objects
<1> QED
  BY <1>1, <1>3 DEF ProducerInv

LEMMA StopBeginsStep ==
  ASSUME ProducerInv, StopBegins
  PROVE  ProducerInv'
<1>1. ProducerTypeOK' /\ StartedTellsTheTruth'
  BY DEF StopBegins, ProducerInv, ProducerTypeOK, StartedTellsTheTruth, Objects
<1>2. ~crowded' => OneAtATime'
  BY DEF StopBegins, ProducerInv, ProducerTypeOK, OneAtATime, Busy
<1> QED
  BY <1>1, <1>2 DEF ProducerInv

LEMMA StopEndsStep ==
  ASSUME ProducerInv, StopEnds
  PROVE  ProducerInv'
<1>1. ProducerTypeOK'
  <2>1. started' \in BOOLEAN
    BY DEF StopEnds
  <2>2. /\ UNCHANGED <<made, producer, starting>>
        /\ stopping' = 0
        /\ open' = [open EXCEPT ![stopping] = 0]
    BY DEF StopEnds
  <2>3. open' \in [Objects -> Nat]
    BY <2>2 DEF ProducerInv, ProducerTypeOK
  <2> QED
    BY <2>1, <2>2, <2>3 DEF ProducerInv, ProducerTypeOK
<1>2. ~crowded' => OneAtATime'
  BY DEF StopEnds, ProducerInv, ProducerTypeOK, OneAtATime
<1>3. StartedTellsTheTruth'
  BY DEF StopEnds, ProducerInv, ProducerTypeOK, OneAtATime, StartedTellsTheTruth
<1> QED
  BY <1>1, <1>2, <1>3 DEF ProducerInv

LEMMA ResetProducerStep ==
  ASSUME ProducerInv, ResetProducer
  PROVE  ProducerInv'
<1>1. /\ ~started /\ ~Busy /\ producer' = 0
      /\ UNCHANGED <<made, open, starting, stopping, crowded>> /\ started' = FALSE
  BY DEF ResetProducer, ResetAllowed
<1>2. ProducerTypeOK'
  <2>1. started' \in BOOLEAN
    BY <1>1
  <2> QED
    BY <1>1, <2>1 DEF ProducerInv, ProducerTypeOK
<1>3. StartedTellsTheTruth' /\ (~crowded' => OneAtATime')
  BY <1>1 DEF ProducerInv, ProducerTypeOK, OneAtATime, StartedTellsTheTruth, Busy, Objects
<1> QED
  BY <1>2, <1>3 DEF ProducerInv

LEMMA ProducerInvStep == ProducerInv /\ [ProducerNext]_producerVars => ProducerInv'
<1> SUFFICES ASSUME ProducerInv, [ProducerNext]_producerVars PROVE ProducerInv'
  OBVIOUS
<1>1. CASE UNCHANGED producerVars
  BY <1>1 DEF producerVars, ProducerInv, ProducerTypeOK, OneAtATime, StartedTellsTheTruth, Objects
<1>2. ASSUME NEW c \in Senders, EnsureStarted(c) \/ StartSucceeds(c) \/ StartFails(c)
      PROVE  ProducerInv'
  BY <1>2, EnsureStartedStep, StartSucceedsStep, StartFailsStep
<1>3. CASE StopSkips \/ StopBegins \/ StopEnds \/ ResetProducer
  BY <1>3, StopSkipsStep, StopBeginsStep, StopEndsStep, ResetProducerStep
<1> QED
  BY <1>1, <1>2, <1>3 DEF ProducerNext

\* The invariant the theorem below is read off.
THEOREM ProducerInvariant == ProducerSpec => []ProducerInv
<1> QED
  BY ProducerInvInit, ProducerInvStep, PTL DEF ProducerSpec

\* While one coroutine at a time starts or stops the producer, _started agrees
\* with the connections of every object the process ever made, so that a
\* shutdown closes them all (kafka_producer.py:79-101).
THEOREM StartedIsTrue == ProducerSpec => []StartedTellsTheTruth
<1>1. ProducerInv => StartedTellsTheTruth
  BY DEF ProducerInv
<1> QED
  BY <1>1, ProducerInvariant, PTL

HIDE ProducerAssumption

-----------------------------------------------------------------------------
(***************************************************************************)
(* Rows, for any number of transactions and any stock: who holds the lock  *)
(* of the row writes the state that follows the committed one.             *)
(***************************************************************************)

\* The row after w sales: version and value go together.
RowAfter(w) == [value |-> Stock - w, version |-> w]

\* What a transaction has read is a committed state of the row; what it has
\* written follows the committed state, which its lock keeps as it is.
HasRead(a) ==
    \E w \in 0..sold : /\ w < Stock
                       /\ actor[a] = [at |-> "read", seen |-> RowAfter(w)]

HoldsStock(a) ==
    /\ lock["stock"] = a
    /\ sold < Stock
    /\ actor[a] = [at |-> "updated", row |-> "stock", next |-> RowAfter(sold + 1)]

HoldsMaster(a) ==
    /\ lock["master"] = a
    /\ \E v \in 0..1 : /\ v # removed
                       /\ actor[a] = [at |-> "updated", row |-> "master", next |-> v]

ActorOK(a) == actor[a] = Unused \/ HasRead(a) \/ HoldsStock(a) \/ HoldsMaster(a)

RowsTypeOK ==
    /\ sold \in 0..Stock
    /\ removed \in 0..1
    /\ marks \in [0..1 -> Nat]
    /\ actor = [a \in Actors |-> actor[a]]
    /\ lock \in [{"stock", "master"} -> Actors \union {NoActor}]

RowsInv ==
    /\ RowsTypeOK
    /\ RowCountsTellTheTruth
    /\ \A a \in Actors : ActorOK(a)

USE RowsAssumption

LEMMA RowsInvInit == RowsInit => RowsInv
<1> SUFFICES ASSUME RowsInit PROVE RowsInv
  OBVIOUS
<1>1. RowsTypeOK
  BY DEF RowsInit, RowsTypeOK
<1>2. RowCountsTellTheTruth
  BY DEF RowsInit, RowCountsTellTheTruth
<1>3. \A a \in Actors : ActorOK(a)
  BY DEF RowsInit, ActorOK, HasRead, HoldsStock, HoldsMaster
<1> QED
  BY <1>1, <1>2, <1>3 DEF RowsInv

\* A step of one transaction that commits nothing and takes no lock away from
\* another leaves the others in order.
LEMMA OthersStay ==
  ASSUME RowsInv, NEW a \in Actors, NEW mine,
         actor' = [actor EXCEPT ![a] = mine],
         UNCHANGED <<stock, removed, sold, marks>>,
         lock' \in [{"stock", "master"} -> Actors \union {NoActor}],
         \A row \in {"stock", "master"} : lock[row] \notin {a, NoActor} => lock'[row] = lock[row],
         ActorOK(a)'
  PROVE  RowsInv'
<1>1. RowsTypeOK'
  BY DEF RowsInv, RowsTypeOK
<1>2. RowCountsTellTheTruth'
  BY DEF RowsInv, RowCountsTellTheTruth
<1>3. ASSUME NEW b \in Actors, b # a PROVE ActorOK(b)'
  <2>1. actor'[b] = actor[b]
    BY <1>3 DEF RowsInv, RowsTypeOK
  <2>2. \A row \in {"stock", "master"} : lock[row] = b => lock'[row] = b
    BY <1>3
  <2>3. ActorOK(b)
    BY DEF RowsInv
  <2> QED
    BY <2>1, <2>2, <2>3 DEF ActorOK, HasRead, HoldsStock, HoldsMaster
<1> QED
  BY <1>1, <1>2, <1>3 DEF RowsInv

\* The state of a transaction tells what it holds.
LEMMA WhatIsHeld ==
  ASSUME RowsInv, NEW a \in Actors
  PROVE  /\ actor[a].at = "read" => HasRead(a)
         /\ actor[a].at = "updated" =>
                \/ HoldsStock(a) /\ actor[a].row = "stock"
                \/ HoldsMaster(a) /\ actor[a].row = "master"
<1>1. ActorOK(a)
  BY DEF RowsInv
<1>2. CASE actor[a] = Unused
  BY <1>2 DEF Unused
<1>3. HasRead(a) => actor[a].at = "read"
  BY DEF HasRead
<1>4. HoldsStock(a) => actor[a].at = "updated" /\ actor[a].row = "stock"
  BY DEF HoldsStock
<1>5. HoldsMaster(a) => actor[a].at = "updated" /\ actor[a].row = "master"
  BY DEF HoldsMaster
<1> QED
  BY <1>1, <1>2, <1>3, <1>4, <1>5 DEF ActorOK

LEMMA ReadStockStep ==
  ASSUME RowsInv, NEW a \in Actors, ReadStock(a)
  PROVE  RowsInv'
<1>1. actor'[a] = [at |-> "read", seen |-> RowAfter(sold)]
  BY DEF ReadStock, RowsInv, RowsTypeOK, RowCountsTellTheTruth, RowAfter
<1>2. sold \in 0..sold /\ sold < Stock
  BY DEF ReadStock, RowsInv, RowsTypeOK, RowCountsTellTheTruth
<1>3. sold' = sold
  BY DEF ReadStock
<1>4. ActorOK(a)'
  BY <1>1, <1>2, <1>3 DEF ActorOK, HasRead, HoldsStock, HoldsMaster, RowAfter
<1> QED
  BY <1>4, OthersStay DEF ReadStock, RowsInv, RowsTypeOK

\* Only the state the row has now has the version it has now.
LEMMA UpdateStockStep ==
  ASSUME RowsInv, NEW a \in Actors, UpdateStock(a)
  PROVE  RowsInv'
<1>1. PICK w \in 0..sold : w < Stock /\ actor[a] = [at |-> "read", seen |-> RowAfter(w)]
  BY WhatIsHeld DEF UpdateStock, HasRead
<1>2. w = sold
  BY <1>1 DEF UpdateStock, VersionMatches, RowsInv, RowCountsTellTheTruth, RowAfter
<1>3. sold \in Nat /\ Stock - sold - 1 = Stock - (sold + 1)
  BY DEF RowsInv, RowsTypeOK
<1>4. actor'[a] = [at |-> "updated", row |-> "stock", next |-> RowAfter(sold + 1)]
  BY <1>1, <1>2, <1>3 DEF UpdateStock, RowsInv, RowsTypeOK, RowAfter
<1>5. lock'["stock"] = a /\ lock' \in [{"stock", "master"} -> Actors \union {NoActor}]
  BY DEF UpdateStock, RowsInv, RowsTypeOK
<1>6. ActorOK(a)'
  BY <1>1, <1>2, <1>4, <1>5 DEF ActorOK, HasRead, HoldsStock, HoldsMaster, RowAfter, UpdateStock
<1> QED
  BY <1>5, <1>6, OthersStay DEF UpdateStock, RowsInv, RowsTypeOK

LEMMA ConflictStep ==
  ASSUME RowsInv, NEW a \in Actors, VersionConflict(a)
  PROVE  RowsInv'
<1>1. ActorOK(a)'
  BY DEF VersionConflict, ActorOK, HasRead, HoldsStock, HoldsMaster, RowsInv, RowsTypeOK
<1> QED
  BY <1>1, OthersStay DEF VersionConflict, RowsInv, RowsTypeOK

LEMMA MarkRowStep ==
  ASSUME RowsInv, NEW a \in Actors, NEW v \in 0..1, MarkRow(a, v)
  PROVE  RowsInv'
<1>1. lock'["master"] = a /\ lock' \in [{"stock", "master"} -> Actors \union {NoActor}]
  BY DEF MarkRow, RowsInv, RowsTypeOK
<1>2. actor'[a] = [at |-> "updated", row |-> "master", next |-> v] /\ v # removed'
  BY DEF MarkRow, MarkMatches, RowsInv, RowsTypeOK
<1>3. ActorOK(a)'
  BY <1>1, <1>2 DEF ActorOK, HasRead, HoldsStock, HoldsMaster
<1> QED
  BY <1>1, <1>3, OthersStay DEF MarkRow, RowsInv, RowsTypeOK

LEMMA RollBackStep ==
  ASSUME RowsInv, NEW a \in Actors, RollBackRow(a)
  PROVE  RowsInv'
<1>1. actor' = [actor EXCEPT ![a] = Unused] /\ ActorOK(a)'
  BY DEF RollBackRow, EndActor, ActorOK, HasRead, HoldsStock, HoldsMaster, RowsInv, RowsTypeOK
<1>2. actor[a].row \in {"stock", "master"} /\ lock[actor[a].row] = a
  BY WhatIsHeld DEF RollBackRow, EndActor, HoldsStock, HoldsMaster
<1>3. /\ lock' \in [{"stock", "master"} -> Actors \union {NoActor}]
      /\ \A row \in {"stock", "master"} :
            lock[row] \notin {a, NoActor} => lock'[row] = lock[row]
  BY <1>2 DEF RollBackRow, EndActor, RowsInv, RowsTypeOK
<1> QED
  BY <1>1, <1>3, OthersStay DEF RollBackRow

\* The committer of a row holds its lock: no other has written it.
LEMMA CommitStep ==
  ASSUME RowsInv, NEW a \in Actors, CommitRow(a)
  PROVE  RowsInv'
<1>1. actor' = [actor EXCEPT ![a] = Unused] /\ actor[a].at = "updated"
  BY DEF CommitRow, EndActor
<1>2. actor'[a] = Unused /\ \A b \in Actors : b # a => actor'[b] = actor[b]
  BY <1>1 DEF RowsInv, RowsTypeOK
<1>3. CASE actor[a].row = "stock"
  <2>1. /\ lock["stock"] = a
        /\ sold < Stock
        /\ actor[a] = [at |-> "updated", row |-> "stock", next |-> RowAfter(sold + 1)]
    BY <1>1, <1>3, WhatIsHeld DEF HoldsStock
  <2>2. /\ stock' = RowAfter(sold + 1) /\ sold' = sold + 1
        /\ UNCHANGED <<removed, marks>>
        /\ lock' = [lock EXCEPT !["stock"] = NoActor]
    BY <1>3, <2>1 DEF CommitRow, EndActor
  <2>3. RowsTypeOK'
    BY <1>1, <2>1, <2>2 DEF RowsInv, RowsTypeOK
  <2>4. RowCountsTellTheTruth'
    BY <2>1, <2>2 DEF RowsInv, RowsTypeOK, RowCountsTellTheTruth, RowAfter
  <2>5. ASSUME NEW b \in Actors, b # a PROVE ActorOK(b)'
    <3>1. actor'[b] = actor[b] /\ lock["stock"] # b /\ lock'["master"] = lock["master"]
      BY <1>2, <2>1, <2>2, <2>5 DEF RowsInv, RowsTypeOK
    <3>2. 0..sold \subseteq 0..sold'
      BY <2>2 DEF RowsInv, RowsTypeOK
    <3>3. ActorOK(b)
      BY DEF RowsInv
    <3> QED
      BY <2>2, <3>1, <3>2, <3>3 DEF ActorOK, HasRead, HoldsStock, HoldsMaster, RowAfter
  <2> QED
    BY <1>2, <2>3, <2>4, <2>5 DEF RowsInv, ActorOK
<1>4. CASE actor[a].row # "stock"
  <2>1. PICK v \in 0..1 :
          /\ lock["master"] = a
          /\ v # removed
          /\ actor[a] = [at |-> "updated", row |-> "master", next |-> v]
    BY <1>1, <1>4, WhatIsHeld DEF HoldsMaster
  <2>2. /\ removed' = v /\ marks' = [marks EXCEPT ![v] = @ + 1]
        /\ UNCHANGED <<stock, sold>>
        /\ lock' = [lock EXCEPT !["master"] = NoActor]
    BY <1>4, <2>1 DEF CommitRow, EndActor
  <2>3. RowsTypeOK'
    BY <1>1, <2>2 DEF RowsInv, RowsTypeOK
  <2>4. RowCountsTellTheTruth'
    <3>1. marks \in [0..1 -> Nat] /\ removed \in 0..1
      BY DEF RowsInv, RowsTypeOK
    <3>2. CASE v = 1
      BY <2>1, <2>2, <3>1, <3>2 DEF RowsInv, RowCountsTellTheTruth
    <3>3. CASE v = 0
      BY <2>1, <2>2, <3>1, <3>3 DEF RowsInv, RowCountsTellTheTruth
    <3> QED
      BY <3>2, <3>3
  <2>5. ASSUME NEW b \in Actors, b # a PROVE ActorOK(b)'
    <3>1. actor'[b] = actor[b] /\ lock["master"] # b /\ lock'["stock"] = lock["stock"]
      BY <1>2, <2>1, <2>2, <2>5 DEF RowsInv, RowsTypeOK
    <3>2. ActorOK(b)
      BY DEF RowsInv
    <3> QED
      BY <2>2, <3>1, <3>2 DEF ActorOK, HasRead, HoldsStock, HoldsMaster, RowAfter
  <2> QED
    BY <1>2, <2>3, <2>4, <2>5 DEF RowsInv, ActorOK
<1> QED
  BY <1>3, <1>4

LEMMA RowsInvStep == RowsInv /\ [RowsNext]_rowsVars => RowsInv'
<1> SUFFICES ASSUME RowsInv, [RowsNext]_rowsVars PROVE RowsInv'
  OBVIOUS
<1>1. CASE UNCHANGED rowsVars
  BY <1>1 DEF rowsVars, RowsInv, RowsTypeOK, RowCountsTellTheTruth, ActorOK, HasRead, HoldsStock, HoldsMaster
<1>2. CASE RowsNext
  BY <1>2, ReadStockStep, UpdateStockStep, ConflictStep, MarkRowStep, CommitStep, RollBackStep
     DEF RowsNext
<1> QED
  BY <1>1, <1>2

\* The invariant the theorem below is read off.
THEOREM RowsInvariant == RowsSpec => []RowsInv
<1> QED
  BY RowsInvInit, RowsInvStep, PTL DEF RowsSpec

\* The callers of update_with_version(), soft_delete_by_id() and
\* restore_by_id() are told the truth by the number of rows: no update is lost,
\* nothing is oversold, and no deletion is counted twice, for any number of
\* transactions that read, update, commit and roll back in any order.
THEOREM RowCountsAreTrue == RowsSpec => []RowCountsTellTheTruth
<1>1. RowsInv => RowCountsTellTheTruth
  BY DEF RowsInv
<1> QED
  BY <1>1, RowsInvariant, PTL

=============================================================================
