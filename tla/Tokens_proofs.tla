---------------------------- MODULE Tokens_proofs ---------------------------
(***************************************************************************)
(* Proofs about Tokens, for any accounts and roles, any number of token    *)
(* pairs, and Redis present or not: once a revocation has ended, neither a *)
(* refresh token nor an access token issued since carries roles of before. *)
(***************************************************************************)
EXTENDS Tokens, TLAPS

Issued == 1..Len(pairs)

TokensTypeOK ==
    /\ redis \in BOOLEAN
    /\ roles \in [Accounts -> Roles]
    /\ pairs \in Seq([user : Accounts, roles : Roles])
    /\ live \subseteq Issued
    /\ exchanging \subseteq Issued
    /\ scanned \in Accounts \union {NoAccount}
    /\ hadRoles \in [Accounts -> SUBSET Roles]
    /\ revoked \subseteq Accounts
    /\ cutoff \in [Accounts -> Nat]
    /\ admitted \subseteq Issued

\* revoke_all_of(u) has been called.
Called(u) == u \in revoked \/ u = scanned

HasHad(p) == pairs[p].roles \in hadRoles[pairs[p].user]

\* A scan takes time in Redis only, and so does an exchange.
OnlyRedisTakesTime ==
    /\ scanned \notin revoked
    /\ ~redis => scanned = NoAccount /\ exchanging = {} /\ escaped = {}

RolesAreNoted == \A u \in Accounts : Called(u) => roles[u] \in hadRoles[u]

\* A token with old roles is one that the scan has yet to visit,
LiveOK ==
    \A p \in live \ escaped :
        Called(pairs[p].user) => HasHad(p) \/ (pairs[p].user = scanned /\ p \in unvisited)

\* or one that was being exchanged beside it.
ExchangingOK ==
    \A p \in exchanging \ escaped : Called(pairs[p].user) => HasHad(p) \/ p \in overlapped

\* What was issued since the call has roles of since then.
IssuedOK ==
    \A p \in Issued \ escaped :
        Called(pairs[p].user) /\ p > cutoff[pairs[p].user] => HasHad(p)

AdmittedSince == \A p \in admitted : p > cutoff[pairs[p].user]

TokensInv ==
    /\ TokensTypeOK
    /\ OnlyRedisTakesTime
    /\ RolesAreNoted
    /\ LiveOK
    /\ ExchangingOK
    /\ IssuedOK
    /\ AdmittedSince

USE TokensAssumption

LEMMA TokensInvInit == TokensInit => TokensInv
<1> SUFFICES ASSUME TokensInit PROVE TokensInv
  OBVIOUS
<1>1. TokensTypeOK
  BY DEF TokensInit, TokensTypeOK, Issued
<1>2. Issued = {}
  BY DEF TokensInit, Issued
<1>3. OnlyRedisTakesTime /\ RolesAreNoted /\ LiveOK /\ ExchangingOK /\ AdmittedSince
  BY DEF TokensInit, OnlyRedisTakesTime, RolesAreNoted, LiveOK, ExchangingOK, AdmittedSince,
         Called
<1>4. IssuedOK
  BY <1>2 DEF IssuedOK
<1> QED
  BY <1>1, <1>3, <1>4 DEF TokensInv

\* A pair is issued to a user with roles the user has had, or notes that it escaped.
LEMMA IssueKeeps ==
  ASSUME TokensInv, NEW u \in Accounts, NEW r \in Roles, IssuePair(u, r),
         live' \subseteq live \union {Newest},
         exchanging' \subseteq exchanging,
         \A p \in exchanging' : p \in overlapped => p \in overlapped',
         escaped \subseteq escaped',
         ~redis => escaped' = {},
         Newest \in escaped' \/ (Called(u) => r \in hadRoles[u]),
         UNCHANGED <<redis, roles, scanned, hadRoles, revoked, cutoff, admitted>>
  PROVE  TokensInv'
<1> DEFINE n == Len(pairs)
           new == [user |-> u, roles |-> r]
<1>1. pairs' = Append(pairs, new) /\ n \in Nat /\ Newest = n + 1
  BY DEF IssuePair, TokensInv, TokensTypeOK, Newest
<1>2. /\ pairs' \in Seq([user : Accounts, roles : Roles])
      /\ Len(pairs') = n + 1
      /\ pairs'[n + 1] = new
      /\ \A p \in 1..n : pairs'[p] = pairs[p]
  BY <1>1 DEF TokensInv, TokensTypeOK
<1>3. Issued' = Issued \union {Newest} /\ Newest \notin Issued
  BY <1>1, <1>2 DEF Issued
<1>4. \A p \in Issued : pairs'[p] = pairs[p]
  BY <1>2 DEF Issued
<1>5. pairs'[Newest].user = u /\ pairs'[Newest].roles = r
  BY <1>1, <1>2
<1>6. TokensTypeOK'
  BY <1>2, <1>3 DEF TokensInv, TokensTypeOK
<1>7. OnlyRedisTakesTime' /\ RolesAreNoted'
  BY DEF TokensInv, OnlyRedisTakesTime, RolesAreNoted, Called
<1>8. unvisited \subseteq unvisited'
  BY DEF IssuePair
<1>9. Newest \in escaped' \/ (Called(u) => pairs'[Newest].roles \in hadRoles'[u])
  BY <1>5
<1>10. LiveOK'
  <2> SUFFICES ASSUME NEW p \in live' \ escaped',
                      pairs'[p].user \in revoked \/ pairs'[p].user = scanned
               PROVE  \/ pairs'[p].roles \in hadRoles[pairs'[p].user]
                      \/ pairs'[p].user = scanned /\ p \in unvisited'
    BY DEF LiveOK, Called, HasHad
  <2>1. CASE p = Newest
    BY <2>1, <1>5, <1>9 DEF Called
  <2>2. CASE p # Newest
    <3>1. p \in live \ escaped /\ p \in Issued /\ pairs'[p] = pairs[p]
      BY <2>2, <1>4 DEF TokensInv, TokensTypeOK
    <3> QED
      BY <3>1, <1>8 DEF TokensInv, LiveOK, Called, HasHad
  <2> QED
    BY <2>1, <2>2
<1>11. ExchangingOK'
  <2> SUFFICES ASSUME NEW p \in exchanging' \ escaped',
                      pairs'[p].user \in revoked \/ pairs'[p].user = scanned
               PROVE  pairs'[p].roles \in hadRoles[pairs'[p].user] \/ p \in overlapped'
    BY DEF ExchangingOK, Called, HasHad
  <2>1. p \in exchanging \ escaped /\ p \in Issued /\ pairs'[p] = pairs[p]
    BY <1>4 DEF TokensInv, TokensTypeOK
  <2> QED
    BY <2>1 DEF TokensInv, ExchangingOK, Called, HasHad
<1>12. IssuedOK'
  <2> SUFFICES ASSUME NEW p \in Issued' \ escaped',
                      pairs'[p].user \in revoked \/ pairs'[p].user = scanned,
                      p > cutoff[pairs'[p].user]
               PROVE  pairs'[p].roles \in hadRoles[pairs'[p].user]
    BY DEF IssuedOK, Called, HasHad
  <2>1. CASE p = Newest
    BY <2>1, <1>5, <1>9 DEF Called
  <2>2. CASE p # Newest
    <3>1. p \in Issued \ escaped /\ pairs'[p] = pairs[p]
      BY <2>2, <1>3, <1>4
    <3> QED
      BY <3>1 DEF TokensInv, IssuedOK, Called, HasHad
  <2> QED
    BY <2>1, <2>2
<1>13. AdmittedSince'
  BY <1>4 DEF TokensInv, TokensTypeOK, AdmittedSince
<1> QED
  BY <1>6, <1>7, <1>10, <1>11, <1>12, <1>13 DEF TokensInv

LEMMA LoginPairStep ==
  ASSUME TokensInv, NEW u \in Accounts, LoginPair(u)
  PROVE  TokensInv'
<1>1. roles[u] \in Roles /\ (Called(u) => roles[u] \in hadRoles[u])
  BY DEF TokensInv, TokensTypeOK, RolesAreNoted
<1>2. ~redis => escaped = {}
  BY DEF TokensInv, OnlyRedisTakesTime
<1> QED
  BY <1>1, <1>2, IssueKeeps DEF LoginPair

\* The claims of an issued pair.
LEMMA ClaimsOf ==
  ASSUME TokensInv, NEW p \in Issued
  PROVE  pairs[p].user \in Accounts /\ pairs[p].roles \in Roles
<1> DEFINE S == [user : Accounts, roles : Roles]
<1>1. pairs \in Seq(S) /\ p \in 1..Len(pairs)
  BY DEF TokensInv, TokensTypeOK, Issued
<1> HIDE DEF S
<1>2. pairs[p] \in S
  BY <1>1
<1> QED
  BY <1>2 DEF S

LEMMA SavePairStep ==
  ASSUME TokensInv, NEW p \in Issued, SavePair(p)
  PROVE  TokensInv'
<1>1. p \in exchanging /\ IssuePair(pairs[p].user, pairs[p].roles)
  BY DEF SavePair
<1>2. Newest \in escaped' \/ (Called(pairs[p].user) => HasHad(p))
  BY <1>1 DEF SavePair, TokensInv, ExchangingOK
<1>3. escaped \subseteq escaped' /\ exchanging' \subseteq exchanging
      /\ live' \subseteq live \union {Newest}
      /\ \A q \in exchanging' : q \in overlapped => q \in overlapped'
  BY DEF SavePair
<1>4. redis
  BY <1>1 DEF TokensInv, OnlyRedisTakesTime
<1> QED
  BY <1>1, <1>2, <1>3, <1>4, ClaimsOf, IssueKeeps DEF SavePair, HasHad

LEMMA ExchangeInMemoryStep ==
  ASSUME TokensInv, NEW p \in Issued, ExchangeInMemory(p)
  PROVE  TokensInv'
<1>1. p \in live /\ ~redis /\ IssuePair(pairs[p].user, pairs[p].roles)
  BY DEF ExchangeInMemory
<1>2. scanned # pairs[p].user
  BY <1>1, ClaimsOf DEF TokensInv, OnlyRedisTakesTime
<1>3. Called(pairs[p].user) => HasHad(p)
  BY <1>1, <1>2 DEF TokensInv, OnlyRedisTakesTime, LiveOK
<1>4. escaped = {}
  BY <1>1 DEF TokensInv, OnlyRedisTakesTime
<1> QED
  BY <1>1, <1>3, <1>4, ClaimsOf, IssueKeeps DEF ExchangeInMemory, HasHad

\* Steps that issue nothing and call nothing: tokens may go, and roles be added.
LEMMA NothingIssued ==
  ASSUME TokensInv,
         UNCHANGED <<redis, pairs, escaped, scanned, revoked, cutoff>>,
         roles' \in [Accounts -> Roles],
         hadRoles' \in [Accounts -> SUBSET Roles],
         \A u \in Accounts : hadRoles[u] \subseteq hadRoles'[u]
                             /\ (Called(u) => roles'[u] \in hadRoles'[u]),
         live' \subseteq live,
         \A p \in live' : pairs[p].user = scanned /\ p \in unvisited => p \in unvisited',
         ~redis => exchanging' = {},
         \A p \in exchanging' :
            \/ p \in exchanging /\ (p \in overlapped => p \in overlapped')
            \/ p \in live /\ (pairs[p].user = scanned => p \in overlapped'),
         admitted' \subseteq Issued,
         \A p \in admitted' : p > cutoff[pairs[p].user]
  PROVE  TokensInv'
<1>0. Issued' = Issued
  BY DEF Issued
<1>1. \A p \in Issued : pairs[p].user \in Accounts
  BY ClaimsOf
<1>2. TokensTypeOK'
  BY <1>0 DEF TokensInv, TokensTypeOK
<1>3. OnlyRedisTakesTime' /\ RolesAreNoted' /\ AdmittedSince'
  BY DEF TokensInv, OnlyRedisTakesTime, RolesAreNoted, AdmittedSince, Called
<1>4. \A p \in Issued : HasHad(p) => pairs[p].roles \in hadRoles'[pairs[p].user]
  BY <1>1 DEF HasHad
<1>5. LiveOK'
  <2> SUFFICES ASSUME NEW p \in live' \ escaped,
                      pairs[p].user \in revoked \/ pairs[p].user = scanned
               PROVE  \/ pairs[p].roles \in hadRoles'[pairs[p].user]
                      \/ pairs[p].user = scanned /\ p \in unvisited'
    BY DEF LiveOK, Called, HasHad
  <2>1. p \in live \ escaped /\ p \in Issued
    BY DEF TokensInv, TokensTypeOK
  <2> QED
    BY <2>1, <1>4 DEF TokensInv, LiveOK, Called
<1>6. ExchangingOK'
  <2> SUFFICES ASSUME NEW p \in exchanging' \ escaped,
                      pairs[p].user \in revoked \/ pairs[p].user = scanned
               PROVE  pairs[p].roles \in hadRoles'[pairs[p].user] \/ p \in overlapped'
    BY DEF ExchangingOK, Called, HasHad
  <2>1. CASE p \in exchanging /\ (p \in overlapped => p \in overlapped')
    <3>1. p \in Issued
      BY <2>1 DEF TokensInv, TokensTypeOK
    <3> QED
      BY <2>1, <3>1, <1>4 DEF TokensInv, ExchangingOK, Called
  <2>2. CASE p \in live /\ (pairs[p].user = scanned => p \in overlapped')
    <3>1. p \in Issued
      BY <2>2 DEF TokensInv, TokensTypeOK
    <3> QED
      BY <2>2, <3>1, <1>4 DEF TokensInv, LiveOK, Called
  <2> QED
    BY <2>1, <2>2
<1>7. IssuedOK'
  <2> SUFFICES ASSUME NEW p \in Issued \ escaped,
                      pairs[p].user \in revoked \/ pairs[p].user = scanned,
                      p > cutoff[pairs[p].user]
               PROVE  pairs[p].roles \in hadRoles'[pairs[p].user]
    BY <1>0 DEF IssuedOK, Called, HasHad
  <2> QED
    BY <1>4 DEF TokensInv, IssuedOK, Called
<1> QED
  BY <1>2, <1>3, <1>5, <1>6, <1>7 DEF TokensInv

\* What is noted of roles does not change.
LEMMA SameRoles ==
  ASSUME TokensInv, UNCHANGED <<roles, hadRoles>>
  PROVE  /\ roles' \in [Accounts -> Roles]
         /\ hadRoles' \in [Accounts -> SUBSET Roles]
         /\ \A u \in Accounts : hadRoles[u] \subseteq hadRoles'[u]
                                /\ (Called(u) => roles'[u] \in hadRoles'[u])
  BY DEF TokensInv, TokensTypeOK, RolesAreNoted

\* Nor what was admitted.
LEMMA SameAdmitted ==
  ASSUME TokensInv
  PROVE  admitted \subseteq Issued /\ \A p \in admitted : p > cutoff[pairs[p].user]
  BY DEF TokensInv, TokensTypeOK, AdmittedSince

LEMMA ChangeRolesStep ==
  ASSUME TokensInv, NEW u \in Accounts, ChangeRoles(u)
  PROVE  TokensInv'
<1>1. PICK r \in Roles : /\ roles' = [roles EXCEPT ![u] = r]
                         /\ hadRoles' = [hadRoles EXCEPT ![u] = @ \union {r}]
  BY DEF ChangeRoles
<1>2. roles' \in [Accounts -> Roles] /\ hadRoles' \in [Accounts -> SUBSET Roles]
  BY <1>1 DEF TokensInv, TokensTypeOK
<1>3. \A v \in Accounts : hadRoles[v] \subseteq hadRoles'[v]
                          /\ (Called(v) => roles'[v] \in hadRoles'[v])
  BY <1>1 DEF TokensInv, TokensTypeOK, RolesAreNoted
<1> QED
  BY <1>2, <1>3, SameAdmitted, NothingIssued
  DEF ChangeRoles, accessVars, TokensInv, OnlyRedisTakesTime

LEMMA ConsumePairStep ==
  ASSUME TokensInv, NEW p \in Issued, ConsumePair(p)
  PROVE  TokensInv'
<1>1. \A q \in exchanging' :
        \/ q \in exchanging /\ (q \in overlapped => q \in overlapped')
        \/ q \in live /\ (pairs[q].user = scanned => q \in overlapped')
  BY DEF ConsumePair
<1> QED
  BY <1>1, SameRoles, SameAdmitted, NothingIssued DEF ConsumePair, accessVars

LEMMA LosePairStep ==
  ASSUME TokensInv, NEW p \in Issued, LosePair(p)
  PROVE  TokensInv'
<1>1. exchanging' \subseteq exchanging
      /\ \A q \in exchanging' : q \in overlapped => q \in overlapped'
  BY DEF LosePair
<1>2. ~redis => exchanging' = {}
  BY <1>1 DEF TokensInv, OnlyRedisTakesTime
<1> QED
  BY <1>1, <1>2, SameRoles, SameAdmitted, NothingIssued DEF LosePair, accessVars

LEMMA PassGuardStep ==
  ASSUME TokensInv, NEW p \in Issued, NEW required \in SUBSET Roles, PassGuard(p, required)
  PROVE  TokensInv'
<1>1. admitted' \subseteq Issued /\ \A q \in admitted' : q > cutoff[pairs[q].user]
  BY SameAdmitted DEF PassGuard
<1> QED
  BY <1>1, SameRoles, NothingIssued DEF PassGuard, TokensInv, OnlyRedisTakesTime

LEMMA VisitKeyStep ==
  ASSUME TokensInv, VisitKey
  PROVE  TokensInv'
<1>1. PICK k \in unvisited :
        /\ unvisited' = unvisited \ {k}
        /\ live' = IF k \in live /\ Doomed(k, scanned) THEN live \ {k} ELSE live
        /\ UNCHANGED <<redis, roles, pairs, exchanging, overlapped, escaped, scanned, hadRoles,
                       revoked, accessVars, scans>>
  BY DEF VisitKey
<1>2. live' \subseteq live
      /\ \A p \in live' : pairs[p].user = scanned /\ p \in unvisited => p \in unvisited'
  BY <1>1 DEF Doomed
<1> QED
  BY <1>1, <1>2, SameRoles, SameAdmitted, NothingIssued
  DEF accessVars, TokensInv, OnlyRedisTakesTime

LEMMA EndScanStep ==
  ASSUME TokensInv, EndScan
  PROVE  TokensInv'
<1>1. /\ scanned # NoAccount /\ unvisited = {} /\ scanned' = NoAccount
      /\ revoked' = revoked \union {scanned}
      /\ UNCHANGED <<redis, roles, pairs, live, exchanging, overlapped, escaped, unvisited,
                     hadRoles, cutoff, admitted>>
  BY DEF EndScan, accessVars
<1>2. Issued' = Issued /\ \A p \in Issued : pairs[p].user \in Accounts
  BY <1>1, ClaimsOf DEF Issued
<1>3. TokensTypeOK'
  BY <1>1, <1>2 DEF TokensInv, TokensTypeOK
<1>4. OnlyRedisTakesTime'
  BY <1>1 DEF TokensInv, TokensTypeOK, OnlyRedisTakesTime
<1>5. RolesAreNoted' /\ AdmittedSince'
  BY <1>1 DEF TokensInv, RolesAreNoted, AdmittedSince, Called
<1>6. live \subseteq Issued /\ exchanging \subseteq Issued
  BY DEF TokensInv, TokensTypeOK
<1>7. LiveOK'
  BY <1>1, <1>2, <1>6 DEF TokensInv, LiveOK, Called, HasHad
<1>8. ExchangingOK'
  BY <1>1, <1>2, <1>6 DEF TokensInv, ExchangingOK, Called, HasHad
<1>9. IssuedOK'
  BY <1>1, <1>2 DEF TokensInv, IssuedOK, Called, HasHad
<1> QED
  BY <1>3, <1>4, <1>5, <1>7, <1>8, <1>9 DEF TokensInv

LEMMA RevokeAllStep ==
  ASSUME TokensInv, NEW u \in Accounts, RevokeAll(u)
  PROVE  TokensInv'
<1>1. /\ scanned = NoAccount
      /\ hadRoles' = [hadRoles EXCEPT ![u] = {roles[u]}]
      /\ escaped' = escaped \ PairsOf(u)
      /\ cutoff' = [cutoff EXCEPT ![u] = Len(pairs)]
      /\ admitted' = admitted \ PairsOf(u)
      /\ UNCHANGED <<redis, roles, pairs, exchanging>>
  BY DEF RevokeAll
<1>2. Issued' = Issued /\ Len(pairs) \in Nat
  BY <1>1 DEF Issued, TokensInv, TokensTypeOK
<1>3. \A p \in Issued : pairs[p].user \in Accounts
  BY ClaimsOf
<1>4. live \subseteq Issued /\ exchanging \subseteq Issued /\ admitted \subseteq Issued
  BY DEF TokensInv, TokensTypeOK
<1>5. hadRoles'[u] = {roles[u]} /\ cutoff'[u] = Len(pairs)
      /\ \A v \in Accounts \ {u} : hadRoles'[v] = hadRoles[v] /\ cutoff'[v] = cutoff[v]
  BY <1>1 DEF TokensInv, TokensTypeOK
<1>6. \A p \in Issued : p \in PairsOf(u) <=> pairs[p].user = u
  BY DEF PairsOf, Issued
<1>7. hadRoles' \in [Accounts -> SUBSET Roles] /\ cutoff' \in [Accounts -> Nat]
  BY <1>1, <1>2 DEF TokensInv, TokensTypeOK
<1>8. AdmittedSince'
  BY <1>1, <1>3, <1>4, <1>5, <1>6 DEF TokensInv, AdmittedSince
\* Pairs of u are no newer than the call; those of others are as they were.
<1>9. ASSUME revoked' \union {scanned'} = revoked \union {u, scanned'},
             scanned' \in {NoAccount, u}
      PROVE  RolesAreNoted' /\ IssuedOK'
  <2>1. \A v \in Accounts \ {u} : Called(v)' => Called(v)
    BY <1>9 DEF Called
  <2>2. RolesAreNoted'
    BY <1>1, <1>5, <2>1 DEF TokensInv, TokensTypeOK, RolesAreNoted
  <2>3. IssuedOK'
    <3> SUFFICES ASSUME NEW p \in Issued \ escaped',
                        pairs[p].user \in revoked' \/ pairs[p].user = scanned',
                        p > cutoff'[pairs[p].user]
                 PROVE  pairs[p].roles \in hadRoles'[pairs[p].user]
      BY <1>1, <1>2 DEF IssuedOK, Called, HasHad
    <3>1. pairs[p].user # u
      BY <1>2, <1>5 DEF Issued
    <3>2. p \in Issued \ escaped /\ pairs[p].user \in Accounts \ {u}
          /\ pairs[p].user \in revoked
      BY <3>1, <1>1, <1>3, <1>6, <1>9
    <3> QED
      BY <3>2, <1>5 DEF TokensInv, IssuedOK, Called, HasHad
  <2> QED
    BY <2>2, <2>3
<1>10. CASE redis
  <2>1. /\ scanned' = u /\ unvisited' = live /\ revoked' = revoked \ {u} /\ live' = live
        /\ overlapped' = overlapped \union (exchanging \intersect PairsOf(u))
    BY <1>10 DEF RevokeAll
  <2>2. TokensTypeOK'
    BY <1>1, <1>2, <1>7, <2>1 DEF TokensInv, TokensTypeOK
  <2>3. OnlyRedisTakesTime'
    BY <1>1, <1>10, <2>1 DEF OnlyRedisTakesTime
  <2>4. RolesAreNoted' /\ IssuedOK'
    BY <1>9, <2>1
  <2>5. LiveOK'
    BY <1>1, <1>3, <1>4, <1>5, <1>6, <2>1 DEF TokensInv, LiveOK, Called, HasHad
  <2>6. ExchangingOK'
    BY <1>1, <1>3, <1>4, <1>5, <1>6, <2>1 DEF TokensInv, ExchangingOK, Called, HasHad
  <2> QED
    BY <2>2, <2>3, <2>4, <2>5, <2>6, <1>8 DEF TokensInv
<1>11. CASE ~redis
  <2>1. /\ live' = {k \in live : ~Doomed(k, u)} /\ revoked' = revoked \union {u}
        /\ UNCHANGED <<scanned, unvisited, overlapped>>
    BY <1>11 DEF RevokeAll
  <2>2. TokensTypeOK'
    BY <1>1, <1>2, <1>7, <2>1 DEF TokensInv, TokensTypeOK
  <2>3. OnlyRedisTakesTime'
    BY <1>1, <1>11, <2>1 DEF TokensInv, TokensTypeOK, OnlyRedisTakesTime
  <2>4. RolesAreNoted' /\ IssuedOK'
    BY <1>1, <1>9, <2>1
  <2>5. LiveOK'
    BY <1>1, <1>3, <1>4, <1>5, <1>6, <2>1 DEF TokensInv, LiveOK, Called, HasHad, Doomed
  <2>6. ExchangingOK'
    BY <1>1, <1>11 DEF TokensInv, OnlyRedisTakesTime, ExchangingOK
  <2> QED
    BY <2>2, <2>3, <2>4, <2>5, <2>6, <1>8 DEF TokensInv
<1> QED
  BY <1>10, <1>11 DEF TokensInv, TokensTypeOK

LEMMA TokensInvNext ==
  ASSUME TokensInv, [TokensNext]_tokensVars
  PROVE  TokensInv'
<1>1. CASE UNCHANGED tokensVars
  BY <1>1 DEF tokensVars, TokensInv, TokensTypeOK, OnlyRedisTakesTime, RolesAreNoted, LiveOK,
              ExchangingOK, IssuedOK, AdmittedSince, Called, HasHad, Issued
<1>2. CASE TokensNext
  BY <1>2, LoginPairStep, ChangeRolesStep, RevokeAllStep, ConsumePairStep, SavePairStep,
     ExchangeInMemoryStep, LosePairStep, PassGuardStep, VisitKeyStep, EndScanStep
  DEF TokensNext, Issued
<1> QED
  BY <1>1, <1>2

\* The invariant holds at all times.
THEOREM TokensInvariant == TokensSpec => []TokensInv
<1>1. TokensInit => TokensInv
  BY TokensInvInit
<1>2. TokensInv /\ [TokensNext]_tokensVars => TokensInv'
  BY TokensInvNext
<1> QED
  BY <1>1, <1>2, PTL DEF TokensSpec

\* When revoke_all_of() has returned, no refresh token carries roles of before
\* it was called, and no access token issued since lets a request pass with
\* such roles, but for the descendants of what was exchanged beside it.
THEOREM DemotionTakesEffect == TokensSpec => []RevocationEndsOldRoles
<1>1. TokensInv => RevocationEndsOldRoles
  BY DEF TokensInv, TokensTypeOK, OnlyRedisTakesTime, LiveOK, IssuedOK, AdmittedSince, Called,
         HasHad, RevocationEndsOldRoles
<1> QED
  BY <1>1, TokensInvariant, PTL
=============================================================================
