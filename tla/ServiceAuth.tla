---------------------------- MODULE ServiceAuth ----------------------------
(***************************************************************************)
(* Authentication between services (app/core/service_auth.py).  A caller   *)
(* signs a timestamp and a nonce; copies of the request may arrive at any  *)
(* process, at any time (a client or a proxy repeats it).  A process       *)
(* compares the timestamp with its clock in whole seconds, then registers  *)
(* the nonce, in Redis if it is configured, in its own memory otherwise,   *)
(* and looks at the address of the caller last.                            *)
(* Time is counted in parts of a second.                                   *)
(***************************************************************************)
EXTENDS Integers, FiniteSets

CONSTANTS
    Signed,         \* requests a caller has signed, each with its own nonce
    Handlers,       \* copies of requests that may be handled at once
    Processes,      \* workers of the service
    Redis,          \* the store they share
    NoRequest,
    SignatureTtl,   \* SIGNATURE_TTL_SECONDS
    Parts,          \* steps of the clock in a second
    MaxLag,         \* longest time from the check of the timestamp to the store
    MaxTime,        \* bound on the clock
    MaxRestarts     \* bound

ASSUME AuthAssumption ==
    /\ Redis \notin Processes
    /\ NoRequest \notin Signed
    /\ SignatureTtl \in Nat \ {0}
    /\ Parts \in Nat \ {0}
    /\ MaxLag \in Nat
    /\ MaxTime \in Nat
    /\ MaxRestarts \in Nat

Stores == Processes \union {Redis}

VARIABLES
    shared,     \* REDIS_URL is configured
    now,        \* the clock of the service
    stamp,      \* stamp[n]: X-Timestamp of n, in seconds of the caller's clock
    expires,    \* expires[s][n]: when store s forgets the nonce of n; 0: not known
    handling,   \* handling[h]: the request, its process, the time of the check and
                \* whether the caller's address is inside the network
    passed,     \* passed[s][n]: how often n passed through store s
    hasty,      \* requests registered as soon as their stamp was fresh
    forgot,     \* processes that restarted and lost their memory
    restarts

authVars == <<shared, now, stamp, expires, handling, passed, hasty, forgot, restarts>>

NoCopy == [of |-> NoRequest, in |-> Redis, at |-> 0, inside |-> FALSE]

AuthInit ==
    /\ shared \in BOOLEAN
    /\ now \in 1..Parts
    /\ stamp \in [Signed -> 0..MaxTime \div Parts]
    /\ expires = [s \in Stores |-> [n \in Signed |-> 0]]
    /\ handling = [h \in Handlers |-> NoCopy]
    /\ passed = [s \in Stores |-> [n \in Signed |-> 0]]
    /\ hasty = {}
    /\ forgot = {}
    /\ restarts = 0

\* verify_credentials(): abs(int(time.time()) - timestamp) <= SIGNATURE_TTL_SECONDS.
Fresh(n) ==
    /\ now \div Parts - stamp[n] <= SignatureTtl
    /\ stamp[n] - now \div Parts <= SignatureTtl

Verify(h, p, n) ==
    /\ handling[h] = NoCopy
    /\ Fresh(n)
    /\ \E inside \in BOOLEAN :
        handling' = [handling EXCEPT ![h] = [of |-> n, in |-> p, at |-> now, inside |-> inside]]
    /\ UNCHANGED <<shared, now, stamp, expires, passed, hasty, forgot, restarts>>

\* get_nonce_store(): Redis if configured, the process otherwise.
StoreOf(p) == IF shared THEN Redis ELSE p

\* Mutation: the nonce is kept for the signature's time only.
NonceTtl_Once == SignatureTtl * Parts

\* verify_replay_fresh(): SIGNATURE_TTL_SECONDS * 2.
NonceTtl == 2 * SignatureTtl * Parts

\* verify_internal_network(): the other dependency of the internal routes.
InsideNetwork(h) == handling[h].inside

\* register() finds no live entry and makes one, in one step.  A caller from
\* outside is refused after that: the nonce is used up.
RegisterNonce(h) ==
    LET n == handling[h].of
        s == StoreOf(handling[h].in)
    IN  /\ n # NoRequest
        /\ expires[s][n] <= now
        /\ expires' = [expires EXCEPT ![s][n] = now + NonceTtl]
        /\ passed' = IF InsideNetwork(h) THEN [passed EXCEPT ![s][n] = @ + 1] ELSE passed
        /\ hasty' = IF now < (stamp[n] - SignatureTtl + 1) * Parts + MaxLag
                    THEN hasty \union {n} ELSE hasty
        /\ handling' = [handling EXCEPT ![h] = NoCopy]
        /\ UNCHANGED <<shared, now, stamp, forgot, restarts>>

\* register() finds a live entry: 403.
RefuseNonce(h) ==
    LET n == handling[h].of
    IN  /\ n # NoRequest
        /\ expires[StoreOf(handling[h].in)][n] > now
        /\ handling' = [handling EXCEPT ![h] = NoCopy]
        /\ UNCHANGED <<shared, now, stamp, expires, passed, hasty, forgot, restarts>>

\* A process restarts: its memory and the requests in it are gone.
RestartProcess(p) ==
    /\ restarts < MaxRestarts
    /\ restarts' = restarts + 1
    /\ forgot' = forgot \union {p}
    /\ expires' = [expires EXCEPT ![p] = [n \in Signed |-> 0]]
    /\ handling' = [h \in Handlers |-> IF handling[h].in = p THEN NoCopy ELSE handling[h]]
    /\ UNCHANGED <<shared, now, stamp, passed, hasty>>

\* No request waits longer than MaxLag for the store.
AuthTick ==
    /\ now < MaxTime
    /\ \A h \in Handlers : handling[h] # NoCopy => now < handling[h].at + MaxLag
    /\ now' = now + 1
    /\ UNCHANGED <<shared, stamp, expires, handling, passed, hasty, forgot, restarts>>

AuthNext ==
    \/ \E h \in Handlers : \/ \E p \in Processes, n \in Signed : Verify(h, p, n)
                           \/ RegisterNonce(h) \/ RefuseNonce(h)
    \/ \E p \in Processes : RestartProcess(p)
    \/ AuthTick

AuthSpec == AuthInit /\ [][AuthNext]_authVars

-----------------------------------------------------------------------------
(* Properties *)

\* A signed request takes effect once, whatever number of copies arrive and
\* whichever workers handle them (service_auth.py:12,19), as far as one store
\* remembers: with Redis everywhere, without it in each process that did not
\* restart.  Excepted is a request registered in the very second in which its
\* stamp, ahead of the clock by SIGNATURE_TTL_SECONDS, becomes fresh: int() cuts
\* fractions off and the way to the store takes time, so that the nonce expires
\* while the stamp is still fresh.
RequestPassesOnce ==
    \A s \in Stores, n \in Signed : passed[s][n] <= 1 \/ s \in forgot \/ n \in hasty
=============================================================================
