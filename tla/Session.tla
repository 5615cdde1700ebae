------------------------------ MODULE Session ------------------------------
(***************************************************************************)
(* One login of one user: the refresh and logout handlers of               *)
(* aids_backend/api/auth.py over the refresh store, and the browser tabs   *)
(* of aids-mall that share the tokens through localStorage.                *)
(*                                                                         *)
(* A token pair is named by its sid, the n-th pair issued being n; its     *)
(* access token and its refresh token share it.  No refresh token outlives *)
(* its 7 days in the behaviours considered.                                *)
(***************************************************************************)
EXTENDS Naturals, FiniteSets

CONSTANTS
    Tabs,           \* browser tabs, each with module variables of its own
    Calls,          \* bound: the API calls made, each leads to one refresh at most
    NoTab,          \* the tab of a call that was not made
    MaxFaults       \* bound: lost messages and crashed handlers

ASSUME SessionAssumption ==
    /\ IsFiniteSet(Calls)
    /\ NoTab \notin Tabs
    /\ MaxFaults \in Nat

VARIABLES
    store,      \* refresh tokens that may be exchanged (RefreshTokenStore)
    issued,     \* token pairs issued so far
    expired,    \* pairs whose access token has expired
    shared,     \* the pair in localStorage
    memory,     \* memory[b]: the pair tab b keeps in module variables
    call,       \* call[c]: the state of an API call
    refresh,    \* refresh[b]: the refresh tab b has in flight
    loggedOut,  \* whether the server executed a logout
    revokedLive, \* whether that logout found the refresh token it revokes
    clash,      \* history: whether two tabs had refreshes in flight at once
    faults      \* lost messages and crashed handlers so far

tokenVars == <<shared, memory>>
histVars  == <<clash, faults>>
vars      == <<store, issued, expired, tokenVars, call, refresh,
               loggedOut, revokedLive, histVars>>

None == 0           \* no token
Sids == 1..(Cardinality(Calls) + 1)

NoCall    == [at |-> "none", tab |-> NoTab, kind |-> "api", sid |-> None, retried |-> FALSE]
NoRefresh == [at |-> "none", sid |-> None]

\* issue_token_pair() and save() at login, setTokens() in some tab.
Init ==
    /\ store = {1}
    /\ issued = 1
    /\ expired = {}
    /\ shared = 1
    /\ memory \in {[b \in Tabs |-> IF b = first THEN 1 ELSE None] : first \in Tabs}
    /\ call = [c \in Calls |-> NoCall]
    /\ refresh = [b \in Tabs |-> NoRefresh]
    /\ loggedOut = FALSE
    /\ revokedLive = FALSE
    /\ clash = FALSE
    /\ faults = 0

-----------------------------------------------------------------------------
(* The tabs: tokenStore.ts, http.ts, refreshQueue.ts, auth.ts              *)

\* getAccessToken(), getRefreshToken().
AccessToken(b) == IF shared # None THEN shared ELSE memory[b]

SetTokens(b, s) ==
    /\ shared' = s
    /\ memory' = [memory EXCEPT ![b] = s]

ClearTokens(b) == SetTokens(b, None)

\* The request interceptor attaches the access token of this moment.
SendCall(b, c, kind) ==
    /\ call[c] = NoCall
    /\ AccessToken(b) # None
    /\ call' = [call EXCEPT ![c] = [at |-> "sent", tab |-> b, kind |-> kind,
                                    sid |-> AccessToken(b), retried |-> FALSE]]
    /\ UNCHANGED <<store, issued, expired, tokenVars, refresh, loggedOut, revokedLive, histVars>>

\* The call ends with an answer or an error; logout() clears the tokens in
\* either case.
EndCall(c) ==
    /\ call' = [call EXCEPT ![c].at = "done"]
    /\ IF call[c].kind = "logout" THEN ClearTokens(call[c].tab) ELSE UNCHANGED tokenVars

ReceiveOk(c) ==
    /\ call[c].at = "ok"
    /\ EndCall(c)
    /\ UNCHANGED <<store, issued, expired, refresh, loggedOut, revokedLive, histVars>>

\* Mutation: no coordinator, each 401 of a tab sends a refresh of its own.
InFlight_Never(b) == FALSE

\* inFlight of the refresh coordinator.
InFlight(b) == refresh[b].at # "none"

\* The first 401 of a call waits for the refresh of its tab, which is sent
\* with the refresh token of this moment unless one is in flight.
ReceiveUnauthorized(c) ==
    LET b == call[c].tab
    IN  /\ call[c].at = "401" /\ ~call[c].retried
        /\ InFlight(b) \/ AccessToken(b) # None
        /\ call' = [call EXCEPT ![c].at = "waiting"]
        /\ IF InFlight(b)
           THEN UNCHANGED <<refresh, clash>>
           ELSE /\ refresh' = [refresh EXCEPT ![b] = [at |-> "sent", sid |-> AccessToken(b)]]
                /\ clash' = (clash \/ \E other \in Tabs \ {b} : refresh[other].at # "none")
        /\ UNCHANGED <<store, issued, expired, tokenVars, loggedOut, revokedLive, faults>>

\* A second 401, or one without a refresh token to use, clears the tokens and
\* leads to the login page.
ReceiveRejected(c) ==
    LET b == call[c].tab
    IN  /\ call[c].at = "401"
        /\ call[c].retried \/ (~InFlight(b) /\ AccessToken(b) = None)
        /\ call' = [call EXCEPT ![c].at = "done"]
        /\ ClearTokens(b)
        /\ UNCHANGED <<store, issued, expired, refresh, loggedOut, revokedLive, histVars>>

Waiting(b) == {c \in Calls : call[c].at = "waiting" /\ call[c].tab = b}

\* Mutation: the call is not marked, its next 401 refreshes once more.
SentAgain_NotMarked(c, s) == [call[c] EXCEPT !.at = "sent", !.sid = s]

SentAgain(c, s) == [call[c] EXCEPT !.at = "sent", !.sid = s, !.retried = TRUE]

\* doRefresh() resolves: the tokens are stored, the waiting calls sent again.
RefreshGranted(b) ==
    LET s == refresh[b].sid
    IN  /\ refresh[b].at = "granted"
        /\ SetTokens(b, s)
        /\ call' = [c \in Calls |-> IF c \in Waiting(b) THEN SentAgain(c, s) ELSE call[c]]
        /\ refresh' = [refresh EXCEPT ![b] = NoRefresh]
        /\ UNCHANGED <<store, issued, expired, loggedOut, revokedLive, histVars>>

FailRefresh(b) ==
    /\ ClearTokens(b)
    /\ call' = [c \in Calls |-> IF c \in Waiting(b)
                                THEN [call[c] EXCEPT !.at = "done"] ELSE call[c]]
    /\ refresh' = [refresh EXCEPT ![b] = NoRefresh]

\* Mutation: the coordinator is not released by a failure.
RefreshDenied_NotReleased(b) ==
    /\ refresh[b].at = "denied"
    /\ ClearTokens(b)
    /\ UNCHANGED <<store, issued, expired, call, refresh, loggedOut, revokedLive, histVars>>

\* doRefresh() rejects: onFailure clears the tokens, the waiting calls fail.
RefreshDenied(b) ==
    /\ refresh[b].at = "denied"
    /\ FailRefresh(b)
    /\ UNCHANGED <<store, issued, expired, loggedOut, revokedLive, histVars>>

-----------------------------------------------------------------------------
(* The server: api/auth.py, refresh_store.py                               *)

\* Mutation: the store is read and not emptied.
Consumed_StaysInStore(s) == store

\* consume(): GETDEL.
Consumed(s) == store \ {s}

Consume(b) ==
    LET s == refresh[b].sid
    IN  /\ refresh[b].at = "sent"
        /\ store' = Consumed(s)
        /\ refresh' = [refresh EXCEPT ![b].at = IF s \in store THEN "consumed" ELSE "denied"]
        /\ UNCHANGED <<issued, expired, tokenVars, call, loggedOut, revokedLive, histVars>>

\* issue_token_pair() and save(): the handler awaits between the two calls to
\* the store, so that anything may come in between.
Issue(b) ==
    /\ refresh[b].at = "consumed"
    /\ issued' = issued + 1
    /\ store' = store \union {issued + 1}
    /\ refresh' = [refresh EXCEPT ![b] = [at |-> "granted", sid |-> issued + 1]]
    /\ UNCHANGED <<expired, tokenVars, call, loggedOut, revokedLive, histVars>>

\* get_current_user() looks at the signature and the expiry only.
AnswerUnauthorized(c) ==
    /\ call[c].at = "sent" /\ call[c].sid \in expired
    /\ call' = [call EXCEPT ![c].at = "401"]
    /\ UNCHANGED <<store, issued, expired, tokenVars, refresh, loggedOut, revokedLive, histVars>>

AnswerApi(c) ==
    /\ call[c].at = "sent" /\ call[c].sid \notin expired /\ call[c].kind = "api"
    /\ call' = [call EXCEPT ![c].at = "ok"]
    /\ UNCHANGED <<store, issued, expired, tokenVars, refresh, loggedOut, revokedLive, histVars>>

\* Mutation: the sid of the access token is not that of the refresh token.
RevokedBy_OwnJti(s) == {}

\* logout() revokes the sid its access token carries.
RevokedBy(s) == {s}

AnswerLogout(c) ==
    /\ call[c].at = "sent" /\ call[c].sid \notin expired /\ call[c].kind = "logout"
    /\ call' = [call EXCEPT ![c].at = "ok"]
    /\ store' = store \ RevokedBy(call[c].sid)
    /\ loggedOut' = TRUE
    /\ revokedLive' = (revokedLive \/ call[c].sid \in store)
    /\ UNCHANGED <<issued, expired, tokenVars, refresh, histVars>>

-----------------------------------------------------------------------------
(* Time and failures                                                       *)

\* An access token (2 hours) outlives its way to the tab and the call that is
\* sent again with it (timeout 15 s each).
Expire(s) ==
    /\ s \in 1..issued \ expired
    /\ \A b \in Tabs : refresh[b].at = "granted" => refresh[b].sid # s
    /\ \A c \in Calls : call[c].retried /\ call[c].at = "sent" => call[c].sid # s
    /\ expired' = expired \union {s}
    /\ UNCHANGED <<store, issued, tokenVars, call, refresh, loggedOut, revokedLive, histVars>>

Fault == faults < MaxFaults /\ faults' = faults + 1

\* The request or its answer is lost, or axios gives up: an error without a
\* response, which refreshes nothing.
LoseCall(c) ==
    /\ Fault
    /\ call[c].at \in {"sent", "ok", "401"}
    /\ EndCall(c)
    /\ UNCHANGED <<store, issued, expired, refresh, loggedOut, revokedLive, clash>>

\* The refresh request is lost, its handler dies between consume() and save(),
\* or the answer is lost: the tab sees a failure in each case.
LoseRefresh(b) ==
    /\ Fault
    /\ InFlight(b)
    /\ FailRefresh(b)
    /\ UNCHANGED <<store, issued, expired, loggedOut, revokedLive, clash>>

Next ==
    \/ \E c \in Calls : \/ \E b \in Tabs, kind \in {"api", "logout"} : SendCall(b, c, kind)
                        \/ ReceiveOk(c) \/ ReceiveUnauthorized(c) \/ ReceiveRejected(c)
                        \/ AnswerUnauthorized(c) \/ AnswerApi(c) \/ AnswerLogout(c)
                        \/ LoseCall(c)
    \/ \E b \in Tabs : \/ Consume(b) \/ Issue(b)
                       \/ RefreshGranted(b) \/ RefreshDenied(b)
                       \/ LoseRefresh(b)
    \/ \E s \in 1..issued : Expire(s)

Spec == Init /\ [][Next]_vars

\* The server answers what reaches it and the browser handles what it
\* receives; nothing is assumed of users, of expiry and of failures.
Answer(c) == AnswerUnauthorized(c) \/ AnswerApi(c) \/ AnswerLogout(c)

Fairness ==
    /\ \A c \in Calls : WF_vars(Answer(c)) /\ WF_vars(ReceiveOk(c))
                        /\ WF_vars(ReceiveUnauthorized(c) \/ ReceiveRejected(c))
    /\ \A b \in Tabs : WF_vars(Consume(b) \/ Issue(b))
                       /\ WF_vars(RefreshGranted(b) \/ RefreshDenied(b))

FairSpec == Spec /\ Fairness

-----------------------------------------------------------------------------
(* Properties                                                              *)

TypeOK ==
    /\ store \subseteq Sids
    /\ issued \in Sids
    /\ expired \subseteq Sids
    /\ shared \in Sids \union {None}
    /\ memory \in [Tabs -> Sids \union {None}]
    /\ call \in [Calls ->
           [at : {"none", "sent", "ok", "401", "waiting", "done"},
            tab : Tabs \union {NoTab}, kind : {"api", "logout"},
            sid : Sids \union {None}, retried : BOOLEAN]]
    /\ refresh \in [Tabs -> [at : {"none", "sent", "consumed", "granted", "denied"},
                             sid : Sids \union {None}]]
    /\ loggedOut \in BOOLEAN /\ revokedLive \in BOOLEAN /\ clash \in BOOLEAN
    /\ faults \in Nat

Exchanging == {b \in Tabs : refresh[b].at = "consumed"}

\* However many tabs replay a refresh token, one exchange goes through: the
\* store holds the newest token alone, and none while an exchange is between
\* consume() and save(), which is one at most.
OneLiveRefresh ==
    /\ store \subseteq {issued}
    /\ Exchanging # {} => store = {}
    /\ \A a, b \in Exchanging : a = b

\* A logout that found the token it revokes ends the session for good: no
\* refresh in flight in any tab brings it back.
RevokedStaysDead == revokedLive => store = {} /\ Exchanging = {}

\* refreshQueue.ts: the user is not thrown out by refreshes that overtake each
\* other.  With a reliable network and no two tabs refreshing at once, the
\* tokens are only cleared after a logout, however late the 401s arrive.
NoFalseLogout == faults = 0 /\ ~clash /\ ~loggedOut => shared # None

\* refreshQueue.ts:48: a failed refresh leaves no call waiting.  Every call
\* ends, whatever is lost and however the tabs' refreshes fail.
NoCallHangs == \A c \in Calls : (call[c].at = "sent") ~> (call[c].at = "done")

\* auth.py:14: with the access token alone the whole session is revoked, so
\* that no refresh token of it is left after a logout was executed.
LogoutEndsSession == loggedOut => store = {}
=============================================================================
