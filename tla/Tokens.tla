------------------------------- MODULE Tokens -------------------------------
(***************************************************************************)
(* Roles and revocation over many logins: the roles in the claims of a     *)
(* token pair (jwt.py, security.py), their way through refresh (auth.py),  *)
(* and revoke_all_of() of both refresh stores (refresh_store.py), by which *)
(* a ban or a demotion is to take effect.  Session shows one login with    *)
(* its browser tabs; here are the logins of all users and no browser.  A   *)
(* pair is named by its number.  Expiry only takes tokens away.            *)
(***************************************************************************)
EXTENDS Naturals, Sequences

CONSTANTS
    Accounts,
    Roles,          \* the sets of roles a user may have, as values
    NoAccount,
    MaxPairs,       \* bound: pairs issued
    MaxScans        \* bound: calls of revoke_all_of()

ASSUME TokensAssumption ==
    /\ NoAccount \notin Accounts
    /\ MaxPairs \in Nat
    /\ MaxScans \in Nat

VARIABLES
    redis,      \* REDIS_URL is configured; otherwise the store is in memory
    roles,      \* roles[u]: the roles of u in the database
    pairs,      \* pairs issued, each with its user and the roles in its claims
    live,       \* refresh tokens in the store
    exchanging, \* refresh tokens taken from Redis whose successor is not saved
    overlapped, \* those whose handler runs beside a scan of their user
    escaped,    \* pairs that descend from one that was exchanged beside a scan
    scanned,    \* the user whose tokens are being revoked, or NoAccount
    unvisited,  \* keys the cursor of SCAN has yet to return
    hadRoles,   \* hadRoles[u]: those u has had since its last revocation began
    revoked,    \* users whose last revocation has ended
    cutoff,     \* cutoff[u]: pairs issued when the last revocation of u began
    admitted,   \* pairs issued since then whose access token passed require_roles()
    scans

tokensVars == <<redis, roles, pairs, live, exchanging, overlapped, escaped,
                scanned, unvisited, hadRoles, revoked, cutoff, admitted, scans>>

\* What only the access tokens are concerned with.
accessVars == <<cutoff, admitted>>

TokensInit ==
    /\ redis \in BOOLEAN
    /\ roles \in [Accounts -> Roles]
    /\ pairs = <<>>
    /\ live = {}
    /\ exchanging = {}
    /\ overlapped = {}
    /\ escaped = {}
    /\ scanned = NoAccount
    /\ unvisited = {}
    /\ hadRoles = [u \in Accounts |-> {}]
    /\ revoked = {}
    /\ cutoff = [u \in Accounts |-> 0]
    /\ admitted = {}
    /\ scans = 0

PairsOf(u) == {p \in 1..Len(pairs) : pairs[p].user = u}

Newest == Len(pairs) + 1

\* issue_token_pair() and save(); a key set while SCAN runs may be returned.
IssuePair(u, r) ==
    /\ Len(pairs) < MaxPairs
    /\ pairs' = Append(pairs, [user |-> u, roles |-> r])
    /\ unvisited' \in IF scanned = NoAccount THEN {unvisited}
                       ELSE {unvisited, unvisited \union {Newest}}

\* A login takes the roles from the database.
LoginPair(u) ==
    /\ IssuePair(u, roles[u])
    /\ live' = live \union {Newest}
    /\ UNCHANGED <<redis, roles, exchanging, overlapped, escaped, scanned, hadRoles, revoked,
                   cutoff, admitted, scans>>

ChangeRoles(u) ==
    /\ \E r \in Roles \ {roles[u]} :
        /\ roles' = [roles EXCEPT ![u] = r]
        /\ hadRoles' = [hadRoles EXCEPT ![u] = @ \union {r}]
    /\ UNCHANGED <<redis, pairs, live, exchanging, overlapped, escaped, scanned, unvisited,
                   revoked, accessVars, scans>>

\* refresh(): the token is consumed ...
ConsumePair(p) ==
    /\ redis
    /\ p \in live
    /\ live' = live \ {p}
    /\ exchanging' = exchanging \union {p}
    /\ overlapped' = IF pairs[p].user = scanned THEN overlapped \union {p} ELSE overlapped
    /\ UNCHANGED <<redis, roles, pairs, escaped, scanned, unvisited, hadRoles, revoked,
                   accessVars, scans>>

\* ... and its successor, with the same roles, is saved.
SavePair(p) ==
    /\ p \in exchanging
    /\ IssuePair(pairs[p].user, pairs[p].roles)
    /\ live' = live \union {Newest}
    /\ exchanging' = exchanging \ {p}
    /\ overlapped' = overlapped \ {p}
    /\ escaped' = IF p \in overlapped \union escaped THEN escaped \union {Newest} ELSE escaped
    /\ UNCHANGED <<redis, roles, scanned, hadRoles, revoked, cutoff, admitted, scans>>

\* In memory nothing comes between the two calls.
ExchangeInMemory(p) ==
    /\ ~redis
    /\ p \in live
    /\ IssuePair(pairs[p].user, pairs[p].roles)
    /\ live' = (live \ {p}) \union {Newest}
    /\ UNCHANGED <<redis, roles, exchanging, overlapped, escaped, scanned, hadRoles, revoked,
                   cutoff, admitted, scans>>

\* A handler dies between the two calls, a token expires, a user logs out.
LosePair(p) ==
    /\ p \in live \union exchanging
    /\ live' = live \ {p}
    /\ exchanging' = exchanging \ {p}
    /\ overlapped' = overlapped \ {p}
    /\ UNCHANGED <<redis, roles, pairs, escaped, scanned, unvisited, hadRoles, revoked,
                   accessVars, scans>>

\* Mutation: the first token found is taken for the only one.
Doomed_First(k, u) ==
    /\ pairs[k].user = u
    /\ \A p \in live : pairs[p].user = u => k <= p

\* int(raw) == user_id
Doomed(k, u) == pairs[k].user = u

\* revoke_all_of() begins; in memory it is done in the same step.
RevokeAll(u) ==
    /\ scanned = NoAccount
    /\ scans < MaxScans
    /\ scans' = scans + 1
    /\ hadRoles' = [hadRoles EXCEPT ![u] = {roles[u]}]
    /\ escaped' = escaped \ PairsOf(u)
    /\ IF redis
       THEN /\ scanned' = u
            /\ unvisited' = live
            /\ revoked' = revoked \ {u}
            /\ overlapped' = overlapped \union (exchanging \intersect PairsOf(u))
            /\ UNCHANGED live
       ELSE /\ live' = {k \in live : ~Doomed(k, u)}
            /\ revoked' = revoked \union {u}
            /\ UNCHANGED <<scanned, unvisited, overlapped>>
    /\ cutoff' = [cutoff EXCEPT ![u] = Len(pairs)]
    /\ admitted' = admitted \ PairsOf(u)
    /\ UNCHANGED <<redis, roles, pairs, exchanging>>

\* scan_iter() returns a key; GET, and DELETE if it is the user's.
VisitKey ==
    \E k \in unvisited :
        /\ unvisited' = unvisited \ {k}
        /\ live' = IF k \in live /\ Doomed(k, scanned) THEN live \ {k} ELSE live
        /\ UNCHANGED <<redis, roles, pairs, exchanging, overlapped, escaped, scanned, hadRoles,
                       revoked, accessVars, scans>>

EndScan ==
    /\ scanned # NoAccount
    /\ unvisited = {}
    /\ scanned' = NoAccount
    /\ revoked' = revoked \union {scanned}
    /\ UNCHANGED <<redis, roles, pairs, live, exchanging, overlapped, escaped, unvisited, hadRoles,
                   accessVars, scans>>

\* CurrentUser.has_role(): the roles are those of the claims, and one of those
\* that the route asks for is enough.
HasRole(p, required) == pairs[p].roles \in required

\* get_current_user() and require_roles(): a request passes with an access token
\* alone, until that expires; no store is asked.  It changes nothing but what is
\* noted here, once for a pair: the pairs of before the revocation pass as well.
PassGuard(p, required) ==
    /\ HasRole(p, required)
    /\ p > cutoff[pairs[p].user]
    /\ p \notin admitted
    /\ admitted' = admitted \union {p}
    /\ UNCHANGED <<redis, roles, pairs, live, exchanging, overlapped, escaped, scanned, unvisited,
                   hadRoles, revoked, cutoff, scans>>

TokensNext ==
    \/ \E u \in Accounts : LoginPair(u) \/ ChangeRoles(u) \/ RevokeAll(u)
    \/ \E p \in 1..Len(pairs) : \/ ConsumePair(p) \/ SavePair(p)
                                \/ ExchangeInMemory(p) \/ LosePair(p)
                                \/ \E required \in SUBSET Roles : PassGuard(p, required)
    \/ VisitKey \/ EndScan

TokensSpec == TokensInit /\ [][TokensNext]_tokensVars

-----------------------------------------------------------------------------
(* Properties *)

\* Once revoke_all_of() has returned, no refresh token of the user carries
\* roles the user has not had since it was called, and no access token issued
\* since then lets a request pass with such roles: a demotion takes effect
\* (security.py:114-116), if not at once, since the access tokens of before are
\* good until they expire.  Excepted are the successors of a refresh that
\* overlapped the scan of Redis, which SCAN need not return.
RevocationEndsOldRoles ==
    \A p \in (live \union admitted) \ escaped :
        pairs[p].user \in revoked => pairs[p].roles \in hadRoles[pairs[p].user]
=============================================================================
