-------------------------------- MODULE Lock --------------------------------
(***************************************************************************)
(* RedisLock (app/core/redis.py): one key in Redis that holds the token of *)
(* the instance that set it, for a limited time.  An instance belongs to   *)
(* one caller; it enters a critical section when try_acquire() succeeds    *)
(* and leaves it through __aexit__ or a plain release().  _held is what    *)
(* the instance believes, the key is what is true.                         *)
(***************************************************************************)
EXTENDS Naturals

CONSTANTS
    Instances,      \* RedisLock objects for one name; each is its own token
    NoToken,        \* the key does not exist
    Ttl,            \* ttl_seconds, in steps of the clock
    MaxMishaps      \* bound: crashes and answers of Redis that are lost

ASSUME LockAssumption ==
    /\ NoToken \notin Instances
    /\ Ttl \in Nat \ {0}        \* __init__ refuses ttl_seconds <= 0
    /\ MaxMishaps \in Nat

VARIABLES
    key,        \* the token stored under the name, or NoToken
    left,       \* time to live of the key
    held,       \* held[i]: _held of i
    at,         \* at[i]: "outside", "inside" the critical section or "dead"
    lapsed,     \* instances inside whose key expired since they entered
    strayed,    \* instances that crashed, lost an answer, or asked twice
    mishaps

lockVars == <<key, left, held, at, lapsed, strayed, mishaps>>

LockInit ==
    /\ key = NoToken
    /\ left = 0
    /\ held = [i \in Instances |-> FALSE]
    /\ at = [i \in Instances |-> "outside"]
    /\ lapsed = {}
    /\ strayed = {}
    /\ mishaps = 0

\* SET name token NX PX ttl.
SetNx(i) ==
    /\ key' = IF key = NoToken THEN i ELSE key
    /\ left' = IF key = NoToken THEN Ttl ELSE left

\* Mutation: DEL without comparing the token.
DelIfMine_Unchecked(i) ==
    /\ key' = NoToken
    /\ left' = 0

\* The Lua script of release().
DelIfMine(i) ==
    /\ key' = IF key = i THEN NoToken ELSE key
    /\ left' = IF key = i THEN 0 ELSE left

\* try_acquire() from outside, in a plain call or in __aenter__.
Acquire(i) ==
    /\ at[i] = "outside"
    /\ SetNx(i)
    /\ held' = [held EXCEPT ![i] = key = NoToken]
    /\ at' = [at EXCEPT ![i] = IF key = NoToken THEN "inside" ELSE @]
    /\ lapsed' = IF key = NoToken THEN lapsed \ {i} ELSE lapsed
    /\ UNCHANGED <<strayed, mishaps>>

\* try_acquire() of an instance that is inside: it stays there, but _held
\* tells of the second call only.
AcquireAgain(i) ==
    /\ at[i] = "inside"
    /\ SetNx(i)
    /\ held' = [held EXCEPT ![i] = key = NoToken]
    /\ lapsed' = IF key = NoToken THEN lapsed \ {i} ELSE lapsed
    /\ strayed' = strayed \union {i}
    /\ UNCHANGED <<at, mishaps>>

\* The key is set and the answer is lost: try_acquire() raises.
AcquireAnswerLost(i) ==
    /\ at[i] = "outside"
    /\ mishaps < MaxMishaps
    /\ mishaps' = mishaps + 1
    /\ SetNx(i)
    /\ strayed' = strayed \union {i}
    /\ UNCHANGED <<held, at, lapsed>>

\* renew(): the script extends only the key of the caller.
Renew(i) ==
    /\ at[i] = "inside"
    /\ key = i
    /\ left' = Ttl
    /\ UNCHANGED <<key, held, at, lapsed, strayed, mishaps>>

Leave(i) ==
    /\ at[i] = "inside"
    /\ at' = [at EXCEPT ![i] = "outside"]
    /\ lapsed' = lapsed \ {i}

\* finally: await lock.release()
Release(i) ==
    /\ Leave(i)
    /\ DelIfMine(i)
    /\ held' = [held EXCEPT ![i] = @ /\ key # i]
    /\ UNCHANGED <<strayed, mishaps>>

\* Mutation: __aexit__ looks at _held the wrong way round.
ExitReleases_Negated(i) == ~held[i]

\* __aexit__ releases only what _held says is held.
ExitReleases(i) == held[i]

ExitContext(i) ==
    /\ Leave(i)
    /\ IF ExitReleases(i)
       THEN DelIfMine(i) /\ held' = [held EXCEPT ![i] = @ /\ key # i]
       ELSE UNCHANGED <<key, left, held>>
    /\ UNCHANGED <<strayed, mishaps>>

\* The script did not run, or ran and its answer was lost: release() raises.
ReleaseFails(i) ==
    /\ Leave(i)
    /\ mishaps < MaxMishaps
    /\ mishaps' = mishaps + 1
    /\ strayed' = strayed \union {i}
    /\ DelIfMine(i) \/ UNCHANGED <<key, left>>
    /\ UNCHANGED held

\* The process of i dies; its next instance has another token.
HolderCrash(i) ==
    /\ at[i] # "dead"
    /\ mishaps < MaxMishaps
    /\ mishaps' = mishaps + 1
    /\ at' = [at EXCEPT ![i] = "dead"]
    /\ lapsed' = lapsed \ {i}
    /\ strayed' = strayed \union {i}
    /\ UNCHANGED <<key, left, held>>

KeyAges ==
    /\ left > 0
    /\ left' = left - 1
    /\ key' = IF left = 1 THEN NoToken ELSE key
    /\ lapsed' = IF left = 1 /\ at[key] = "inside" THEN lapsed \union {key} ELSE lapsed
    /\ UNCHANGED <<held, at, strayed, mishaps>>

LockNext ==
    \/ \E i \in Instances : \/ Acquire(i) \/ AcquireAgain(i) \/ AcquireAnswerLost(i)
                            \/ Renew(i)
                            \/ Release(i) \/ ExitContext(i) \/ ReleaseFails(i)
                            \/ HolderCrash(i)
    \/ KeyAges

LockSpec == LockInit /\ [][LockNext]_lockVars

-----------------------------------------------------------------------------
(* Properties *)

LockTypeOK ==
    /\ key \in Instances \union {NoToken}
    /\ left \in 0..Ttl
    /\ key = NoToken <=> left = 0
    /\ held \in [Instances -> BOOLEAN]
    /\ at \in [Instances -> {"outside", "inside", "dead"}]
    /\ lapsed \subseteq Instances
    /\ strayed \subseteq Instances
    /\ mishaps \in Nat

\* Two callers are in the critical section together only if the time to live
\* of one ran out while it worked.  In particular the late release() of that
\* one takes nothing from its successor (redis.py, token and Lua script).
LapseOnlyBreaksExclusion ==
    \A i, j \in Instances :
        at[i] = "inside" /\ at[j] = "inside" /\ i # j => i \in lapsed \/ j \in lapsed

\* A lock under which nobody works was left behind by a crash, by a lost
\* answer, or by a second try_acquire() on the instance: then _held is false
\* and __aexit__ does not release.  Every other caller frees its lock.
OnlyStraysLeaveLocks ==
    key # NoToken => at[key] = "inside" \/ key \in strayed
=============================================================================
