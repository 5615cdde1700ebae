-------------------------- MODULE Session_proofs --------------------------
(***************************************************************************)
(* Proofs about Session, for any set of tabs, any set of calls and any     *)
(* number of failures.                                                     *)
(***************************************************************************)
EXTENDS Session, FiniteSetTheorems, TLAPS

CallRecords ==
    [at : {"none", "sent", "ok", "401", "waiting", "done"},
     tab : Tabs \union {NoTab}, kind : {"api", "logout"}, sid : Nat, retried : BOOLEAN]

RefreshRecords ==
    [at : {"none", "sent", "consumed", "granted", "denied"}, sid : Nat]

\* TypeOK without the bound that the number of calls puts on the tokens.
Shape ==
    /\ issued \in Nat
    /\ expired \subseteq 1..issued
    /\ shared \in Nat
    /\ memory \in [Tabs -> Nat]
    /\ call \in [Calls -> CallRecords]
    /\ refresh \in [Tabs -> RefreshRecords]
    /\ faults \in Nat
    /\ \A c \in Calls : call[c].at # "none" => call[c].tab \in Tabs

\* A token is not expired before the call that is sent again with it was
\* answered, so such a call meets no second 401.
FreshInv ==
    /\ \A b \in Tabs : refresh[b].at = "granted" =>
          refresh[b].sid \in Nat \ {None} /\ refresh[b].sid \notin expired
    /\ \A c \in Calls : call[c].retried =>
          /\ call[c].at \in {"sent", "ok", "done"}
          /\ call[c].at = "sent" => call[c].sid \notin expired

\* A logout call gets a positive answer from the handler alone.
LogoutInv ==
    \A c \in Calls : call[c].at = "ok" /\ call[c].kind = "logout" => loggedOut

Calm == faults = 0 /\ ~clash /\ ~loggedOut

\* Without failures, overlapping refreshes and logout, one refresh is in
\* flight at most, it carries the live token, and the tabs hold that token
\* whenever none is in flight.
CalmInv ==
    Calm =>
        /\ shared # None
        /\ (\A b \in Tabs : ~InFlight(b)) => store = {issued} /\ shared = issued
        /\ \A a, b \in Tabs : InFlight(a) /\ InFlight(b) => a = b
        /\ \A b \in Tabs :
              /\ refresh[b].at # "denied"
              /\ refresh[b].at \in {"sent", "granted"} =>
                    refresh[b].sid = issued /\ store = {issued}

SessionInv ==
    /\ Shape
    /\ OneLiveRefresh
    /\ RevokedStaysDead
    /\ FreshInv
    /\ LogoutInv
    /\ CalmInv

LEMMA SessionInvInit == Init => SessionInv
<1> SUFFICES ASSUME Init PROVE SessionInv
  OBVIOUS
<1>1. Shape
  BY DEF Init, Shape, NoCall, NoRefresh, None, CallRecords, RefreshRecords
<1>2. \A b \in Tabs : refresh[b] = NoRefresh
  BY DEF Init
<1>3. \A c \in Calls : call[c] = NoCall
  BY DEF Init
<1>4. OneLiveRefresh /\ RevokedStaysDead
  BY <1>2 DEF Init, OneLiveRefresh, RevokedStaysDead, Exchanging, NoRefresh
<1>5. FreshInv /\ LogoutInv
  BY <1>2, <1>3 DEF FreshInv, LogoutInv, NoRefresh, NoCall
<1>6. CalmInv
  BY <1>2 DEF Init, CalmInv, InFlight, NoRefresh, None
<1> QED
  BY <1>1, <1>4, <1>5, <1>6 DEF SessionInv

\* What the server and the refreshes in flight do not change, holds on.
LEMMA ServerQuiet ==
  ASSUME SessionInv, UNCHANGED <<store, issued, refresh, revokedLive>>
  PROVE  OneLiveRefresh' /\ RevokedStaysDead'
  BY DEF SessionInv, OneLiveRefresh, RevokedStaysDead, Exchanging

LEMMA CalmQuiet ==
  ASSUME SessionInv, UNCHANGED <<store, issued, refresh, shared, loggedOut, clash, faults>>
  PROVE  CalmInv'
  BY DEF SessionInv, CalmInv, Calm, InFlight

LEMMA SendCallStep ==
  ASSUME SessionInv, NEW b \in Tabs, NEW c \in Calls, NEW kind \in {"api", "logout"},
         SendCall(b, c, kind)
  PROVE  SessionInv'
<1> DEFINE new == [at |-> "sent", tab |-> b, kind |-> kind,
                   sid |-> AccessToken(b), retried |-> FALSE]
<1>1. call' = [call EXCEPT ![c] = new]
  BY DEF SendCall
<1>2. UNCHANGED <<store, issued, expired, shared, memory, refresh, loggedOut,
                  revokedLive, clash, faults>>
  BY DEF SendCall, tokenVars, histVars
<1>3. new \in CallRecords
  BY DEF SessionInv, Shape, AccessToken, CallRecords
<1>4. Shape'
  BY <1>1, <1>2, <1>3 DEF SessionInv, Shape
<1>5. FreshInv' /\ LogoutInv'
  BY <1>1, <1>2 DEF SessionInv, Shape, FreshInv, LogoutInv
<1> QED
  BY <1>2, <1>4, <1>5, ServerQuiet, CalmQuiet DEF SessionInv

\* A step of a call that leaves refreshes and tokens alone.
LEMMA CallStep ==
  ASSUME SessionInv, NEW c \in Calls, NEW a \in {"ok", "401", "done", "waiting"},
         call[c].at # "none",
         call' = [call EXCEPT ![c].at = a],
         a = "401" => call[c].at = "sent" /\ call[c].sid \in expired,
         a = "waiting" => ~call[c].retried,
         a = "ok" /\ call[c].kind = "logout" => loggedOut',
         loggedOut => loggedOut',
         UNCHANGED <<issued, expired>>,
         memory' \in [Tabs -> Nat], shared' \in Nat,
         refresh' \in [Tabs -> RefreshRecords],
         faults' \in Nat,
         \A b \in Tabs : refresh'[b].at = "granted" => refresh'[b] = refresh[b]
  PROVE  Shape' /\ FreshInv' /\ LogoutInv'
<1>1. call \in [Calls -> CallRecords] /\ call[c] \in CallRecords
  BY DEF SessionInv, Shape
<1>2. call' \in [Calls -> CallRecords]
  BY <1>1 DEF CallRecords
<1>3. /\ \A d \in Calls \ {c} : call'[d] = call[d]
      /\ call'[c].at = a /\ call'[c].tab = call[c].tab /\ call'[c].kind = call[c].kind
      /\ call'[c].sid = call[c].sid /\ call'[c].retried = call[c].retried
  BY <1>1 DEF CallRecords
<1>4. Shape'
  BY <1>2, <1>3 DEF SessionInv, Shape
<1>5. FreshInv'
  BY <1>3 DEF SessionInv, FreshInv
<1>6. LogoutInv'
  BY <1>3 DEF SessionInv, LogoutInv
<1> QED
  BY <1>4, <1>5, <1>6

\* SetTokens keeps the tokens well formed.
LEMMA TokensShape ==
  ASSUME SessionInv, NEW b \in Tabs, NEW s \in Nat, SetTokens(b, s)
  PROVE  shared' \in Nat /\ memory' \in [Tabs -> Nat]
  BY DEF SessionInv, Shape, SetTokens

LEMMA EndCallTokens ==
  ASSUME SessionInv, NEW c \in Calls, call[c].at # "none", EndCall(c)
  PROVE  /\ shared' \in Nat /\ memory' \in [Tabs -> Nat]
         /\ call[c].kind # "logout" => UNCHANGED shared
  BY TokensShape DEF EndCall, ClearTokens, None, tokenVars, SessionInv, Shape

LEMMA ReceiveOkStep ==
  ASSUME SessionInv, NEW c \in Calls, ReceiveOk(c)
  PROVE  SessionInv'
<1>1. UNCHANGED <<store, issued, expired, refresh, loggedOut, revokedLive, clash, faults>>
  BY DEF ReceiveOk, histVars
<1>2. call[c].at = "ok" /\ EndCall(c)
  BY DEF ReceiveOk
<1>3. Shape' /\ FreshInv' /\ LogoutInv'
  BY <1>1, <1>2, CallStep, EndCallTokens DEF EndCall, SessionInv, Shape
<1>4. CalmInv'
  <2>1. CASE call[c].kind = "logout"
    BY <2>1, <1>1, <1>2 DEF SessionInv, LogoutInv, CalmInv, Calm
  <2>2. CASE call[c].kind # "logout"
    BY <2>2, <1>1, <1>2, EndCallTokens, CalmQuiet
  <2> QED
    BY <2>1, <2>2
<1> QED
  BY <1>1, <1>3, <1>4, ServerQuiet DEF SessionInv

LEMMA ReceiveUnauthorizedStep ==
  ASSUME SessionInv, NEW c \in Calls, ReceiveUnauthorized(c)
  PROVE  SessionInv'
<1> DEFINE b == call[c].tab
           new == [at |-> "sent", sid |-> AccessToken(b)]
<1>1. UNCHANGED <<store, issued, expired, shared, memory, loggedOut, revokedLive, faults>>
  BY DEF ReceiveUnauthorized, tokenVars
<1>2. call[c].at = "401" /\ call' = [call EXCEPT ![c].at = "waiting"] /\ ~call[c].retried
  BY DEF ReceiveUnauthorized
<1>3. b \in Tabs
  BY <1>2 DEF SessionInv, Shape
<1>4. new \in RefreshRecords
  BY <1>3 DEF SessionInv, Shape, AccessToken, RefreshRecords
<1>5. CASE InFlight(b)
  <2>1. UNCHANGED <<refresh, clash>>
    BY <1>5 DEF ReceiveUnauthorized
  <2>2. Shape' /\ FreshInv' /\ LogoutInv'
    BY <1>1, <1>2, <2>1, CallStep DEF SessionInv, Shape
  <2> QED
    BY <1>1, <2>1, <2>2, ServerQuiet, CalmQuiet DEF SessionInv
<1>6. CASE ~InFlight(b)
  <2>1. /\ refresh' = [refresh EXCEPT ![b] = new]
        /\ clash' = (clash \/ \E other \in Tabs \ {b} : refresh[other].at # "none")
    BY <1>6 DEF ReceiveUnauthorized
  <2>2. /\ refresh' \in [Tabs -> RefreshRecords]
        /\ refresh'[b] = new
        /\ \A o \in Tabs \ {b} : refresh'[o] = refresh[o]
    BY <1>3, <1>4, <2>1 DEF SessionInv, Shape
  <2>3. Shape' /\ FreshInv' /\ LogoutInv'
    <3>1. \A o \in Tabs : refresh'[o].at = "granted" => refresh'[o] = refresh[o]
      BY <2>2
    <3>2. memory' \in [Tabs -> Nat] /\ shared' \in Nat /\ faults' \in Nat
      BY <1>1 DEF SessionInv, Shape
    <3> QED
      BY <1>1, <1>2, <2>2, <3>1, <3>2, CallStep
  <2>4. Exchanging' = Exchanging
    BY <1>3, <1>6, <2>2 DEF Exchanging, InFlight
  <2>5. OneLiveRefresh' /\ RevokedStaysDead'
    BY <1>1, <2>4 DEF SessionInv, OneLiveRefresh, RevokedStaysDead
  <2>6. CalmInv'
    <3> SUFFICES ASSUME Calm' PROVE CalmInv'
      BY DEF CalmInv
    <3>1. Calm /\ \A o \in Tabs : ~InFlight(o)
      BY <1>1, <1>3, <1>6, <2>1 DEF Calm, InFlight
    <3>2. shared # None /\ store = {issued} /\ AccessToken(b) = issued
      BY <3>1 DEF SessionInv, CalmInv, AccessToken
    <3> QED
      BY <1>1, <1>3, <2>2, <3>1, <3>2 DEF CalmInv, InFlight
  <2> QED
    BY <2>3, <2>5, <2>6 DEF SessionInv
<1> QED
  BY <1>5, <1>6

LEMMA ReceiveRejectedStep ==
  ASSUME SessionInv, NEW c \in Calls, ReceiveRejected(c)
  PROVE  SessionInv'
<1> DEFINE b == call[c].tab
<1>1. UNCHANGED <<store, issued, expired, refresh, loggedOut, revokedLive, clash, faults>>
  BY DEF ReceiveRejected, histVars
<1>2. call[c].at = "401" /\ call' = [call EXCEPT ![c].at = "done"] /\ ClearTokens(b)
  BY DEF ReceiveRejected
<1>3. b \in Tabs
  BY <1>2 DEF SessionInv, Shape
<1>4. Shape' /\ FreshInv' /\ LogoutInv'
  BY <1>1, <1>2, <1>3, CallStep, TokensShape DEF SessionInv, Shape, ClearTokens, None
<1>5. CalmInv'
  <2>1. ~call[c].retried
    BY <1>2 DEF SessionInv, FreshInv
  <2>2. shared = None
    BY <2>1, <1>3 DEF ReceiveRejected, AccessToken
  <2>3. ~Calm
    BY <2>2 DEF SessionInv, CalmInv
  <2> QED
    BY <1>1, <2>3 DEF CalmInv, Calm
<1> QED
  BY <1>1, <1>4, <1>5, ServerQuiet DEF SessionInv

LEMMA RefreshGrantedStep ==
  ASSUME SessionInv, NEW b \in Tabs, RefreshGranted(b)
  PROVE  SessionInv'
<1> DEFINE s == refresh[b].sid
<1>1. UNCHANGED <<store, issued, expired, loggedOut, revokedLive, clash, faults>>
  BY DEF RefreshGranted, histVars
<1>2. refresh[b].at = "granted" /\ SetTokens(b, s) /\ refresh' = [refresh EXCEPT ![b] = NoRefresh]
  BY DEF RefreshGranted
<1>3. s \in Nat \ {None} /\ s \notin expired
  BY <1>2 DEF SessionInv, FreshInv
<1>4. /\ refresh' \in [Tabs -> RefreshRecords]
      /\ refresh'[b].at = "none"
      /\ \A o \in Tabs \ {b} : refresh'[o] = refresh[o]
  BY <1>2 DEF SessionInv, Shape, NoRefresh, None, RefreshRecords
<1>5. \A c \in Calls : call'[c] = IF c \in Waiting(b) THEN SentAgain(c, s) ELSE call[c]
  BY DEF RefreshGranted
<1>6. \A c \in Calls : /\ call[c] \in CallRecords
                       /\ SentAgain(c, s) \in CallRecords
                       /\ SentAgain(c, s).at = "sent" /\ SentAgain(c, s).sid = s
                       /\ SentAgain(c, s).tab = call[c].tab
  BY <1>3 DEF SessionInv, Shape, SentAgain, CallRecords
<1>7. Shape'
  <2>1. call' \in [Calls -> CallRecords]
    BY <1>6 DEF RefreshGranted
  <2>2. \A c \in Calls : call'[c].at # "none" => call'[c].tab \in Tabs
    BY <1>5, <1>6 DEF SessionInv, Shape, Waiting
  <2> QED
    BY <1>1, <1>2, <1>3, <1>4, <2>1, <2>2, TokensShape DEF SessionInv, Shape
<1>8. FreshInv'
  BY <1>1, <1>3, <1>4, <1>5, <1>6 DEF SessionInv, FreshInv
<1>9. LogoutInv'
  BY <1>1, <1>5, <1>6 DEF SessionInv, LogoutInv
<1>10. OneLiveRefresh' /\ RevokedStaysDead'
  <2>1. Exchanging' = Exchanging
    BY <1>2, <1>4 DEF Exchanging
  <2> QED
    BY <1>1, <2>1 DEF SessionInv, OneLiveRefresh, RevokedStaysDead
<1>11. CalmInv'
  <2> SUFFICES ASSUME Calm' PROVE CalmInv'
    BY DEF CalmInv
  <2>1. Calm
    BY <1>1 DEF Calm
  <2>2. s = issued /\ store = {issued} /\ \A o \in Tabs \ {b} : ~InFlight(o)
    BY <2>1, <1>2 DEF SessionInv, CalmInv, InFlight
  <2>3. shared' = issued /\ issued # None
    BY <1>2, <1>3, <2>2 DEF SetTokens
  <2>4. \A o \in Tabs : refresh'[o].at = "none"
    BY <1>4, <2>2 DEF InFlight
  <2> QED
    BY <1>1, <2>2, <2>3, <2>4 DEF CalmInv, InFlight
<1> QED
  BY <1>7, <1>8, <1>9, <1>10, <1>11 DEF SessionInv

\* Everything but CalmInv survives a refresh that fails.
LEMMA FailRefreshStep ==
  ASSUME SessionInv, NEW b \in Tabs, FailRefresh(b), faults' \in Nat,
         UNCHANGED <<store, issued, expired, loggedOut, revokedLive>>
  PROVE  Shape' /\ FreshInv' /\ LogoutInv' /\ OneLiveRefresh' /\ RevokedStaysDead'
<1>1. refresh' = [refresh EXCEPT ![b] = NoRefresh] /\ ClearTokens(b)
  BY DEF FailRefresh
<1>2. /\ refresh' \in [Tabs -> RefreshRecords]
      /\ refresh'[b].at = "none"
      /\ \A o \in Tabs \ {b} : refresh'[o] = refresh[o]
  BY <1>1 DEF SessionInv, Shape, NoRefresh, None, RefreshRecords
<1>3. \A c \in Calls :
         call'[c] = IF c \in Waiting(b) THEN [call[c] EXCEPT !.at = "done"] ELSE call[c]
  BY DEF FailRefresh
<1>4. \A c \in Calls : /\ call[c] \in CallRecords
                       /\ [call[c] EXCEPT !.at = "done"] \in CallRecords
                       /\ [call[c] EXCEPT !.at = "done"].at = "done"
                       /\ [call[c] EXCEPT !.at = "done"].tab = call[c].tab
  BY DEF SessionInv, Shape, CallRecords
<1>5. Shape'
  <2>1. call' \in [Calls -> CallRecords]
    BY <1>4 DEF FailRefresh
  <2>2. \A c \in Calls : call'[c].at # "none" => call'[c].tab \in Tabs
    BY <1>3, <1>4 DEF SessionInv, Shape, Waiting
  <2> QED
    BY <1>1, <1>2, <2>1, <2>2, TokensShape DEF SessionInv, Shape, ClearTokens, None
<1>6. FreshInv'
  BY <1>2, <1>3, <1>4 DEF SessionInv, FreshInv
<1>7. LogoutInv'
  BY <1>3, <1>4 DEF SessionInv, LogoutInv
<1>8. Exchanging' \subseteq Exchanging
  BY <1>2 DEF Exchanging
<1>9. OneLiveRefresh' /\ RevokedStaysDead'
  BY <1>8 DEF SessionInv, OneLiveRefresh, RevokedStaysDead
<1> QED
  BY <1>5, <1>6, <1>7, <1>9

LEMMA RefreshDeniedStep ==
  ASSUME SessionInv, NEW b \in Tabs, RefreshDenied(b)
  PROVE  SessionInv'
<1>1. /\ FailRefresh(b)
      /\ UNCHANGED <<store, issued, expired, loggedOut, revokedLive, clash, faults>>
  BY DEF RefreshDenied, histVars
<1>2. ~Calm
  BY DEF RefreshDenied, SessionInv, CalmInv
<1>3. CalmInv'
  BY <1>1, <1>2 DEF CalmInv, Calm
<1> QED
  BY <1>1, <1>3, FailRefreshStep DEF SessionInv, Shape

LEMMA LoseRefreshStep ==
  ASSUME SessionInv, NEW b \in Tabs, LoseRefresh(b)
  PROVE  SessionInv'
<1>1. /\ FailRefresh(b)
      /\ faults' = faults + 1
      /\ UNCHANGED <<store, issued, expired, loggedOut, revokedLive>>
  BY DEF LoseRefresh, Fault
<1>2. faults' \in Nat \ {0}
  BY <1>1 DEF SessionInv, Shape
<1>3. CalmInv'
  BY <1>2 DEF CalmInv, Calm
<1> QED
  BY <1>1, <1>2, <1>3, FailRefreshStep DEF SessionInv

LEMMA LoseCallStep ==
  ASSUME SessionInv, NEW c \in Calls, LoseCall(c)
  PROVE  SessionInv'
<1>1. UNCHANGED <<store, issued, expired, refresh, loggedOut, revokedLive, clash>>
  BY DEF LoseCall
<1>2. EndCall(c) /\ faults' = faults + 1 /\ call[c].at # "none"
  BY DEF LoseCall, Fault
<1>3. faults' \in Nat \ {0}
  BY <1>2 DEF SessionInv, Shape
<1>4. Shape' /\ FreshInv' /\ LogoutInv'
  BY <1>1, <1>2, <1>3, CallStep, EndCallTokens DEF EndCall, SessionInv, Shape
<1>5. CalmInv'
  BY <1>3 DEF CalmInv, Calm
<1> QED
  BY <1>1, <1>4, <1>5, ServerQuiet DEF SessionInv

LEMMA ConsumeStep ==
  ASSUME SessionInv, NEW b \in Tabs, Consume(b)
  PROVE  SessionInv'
<1> DEFINE s == refresh[b].sid
           a == IF s \in store THEN "consumed" ELSE "denied"
<1>1. UNCHANGED <<issued, expired, shared, memory, call, loggedOut, revokedLive, clash, faults>>
  BY DEF Consume, tokenVars, histVars
<1>2. /\ refresh[b].at = "sent" /\ store' = store \ {s}
      /\ refresh' = [refresh EXCEPT ![b].at = a]
  BY DEF Consume, Consumed
<1>3. /\ refresh' \in [Tabs -> RefreshRecords]
      /\ refresh'[b].at = a
      /\ \A o \in Tabs \ {b} : refresh'[o] = refresh[o]
  BY <1>2 DEF SessionInv, Shape, RefreshRecords
<1>4. Shape' /\ FreshInv' /\ LogoutInv'
  <2>1. Shape'
    BY <1>1, <1>3 DEF SessionInv, Shape
  <2>2. FreshInv'
    BY <1>1, <1>3 DEF SessionInv, FreshInv
  <2>3. LogoutInv'
    BY <1>1 DEF SessionInv, LogoutInv
  <2> QED
    BY <2>1, <2>2, <2>3
<1>5. OneLiveRefresh' /\ RevokedStaysDead'
  <2>1. CASE s \in store
    <3>1. store = {s} /\ Exchanging = {} /\ ~revokedLive
      BY <2>1 DEF SessionInv, OneLiveRefresh, RevokedStaysDead
    <3>2. store' = {} /\ Exchanging' = {b}
      BY <1>2, <1>3, <2>1, <3>1 DEF Exchanging
    <3> QED
      BY <1>1, <3>1, <3>2 DEF OneLiveRefresh, RevokedStaysDead
  <2>2. CASE s \notin store
    <3>1. store' = store /\ Exchanging' = Exchanging
      BY <1>2, <1>3, <2>2 DEF Exchanging
    <3> QED
      BY <1>1, <3>1 DEF SessionInv, OneLiveRefresh, RevokedStaysDead
  <2> QED
    BY <2>1, <2>2
<1>6. CalmInv'
  <2> SUFFICES ASSUME Calm' PROVE CalmInv'
    BY DEF CalmInv
  <2>1. Calm
    BY <1>1 DEF Calm
  <2>2. /\ s = issued /\ store = {issued} /\ shared # None
        /\ \A o \in Tabs \ {b} : ~InFlight(o)
    BY <1>2, <2>1 DEF SessionInv, CalmInv, InFlight
  <2>3. refresh'[b].at = "consumed" /\ \A o \in Tabs \ {b} : refresh'[o].at = "none"
    BY <1>3, <2>2 DEF InFlight
  <2> QED
    BY <1>1, <2>2, <2>3 DEF CalmInv, InFlight
<1> QED
  BY <1>4, <1>5, <1>6 DEF SessionInv

LEMMA IssueStep ==
  ASSUME SessionInv, NEW b \in Tabs, Issue(b)
  PROVE  SessionInv'
<1> DEFINE new == [at |-> "granted", sid |-> issued + 1]
<1>1. UNCHANGED <<expired, shared, memory, call, loggedOut, revokedLive, clash, faults>>
  BY DEF Issue, tokenVars, histVars
<1>2. /\ refresh[b].at = "consumed" /\ issued' = issued + 1
      /\ store' = store \union {issued + 1}
      /\ refresh' = [refresh EXCEPT ![b] = new]
  BY DEF Issue
<1>3. /\ refresh' \in [Tabs -> RefreshRecords]
      /\ refresh'[b] = new
      /\ \A o \in Tabs \ {b} : refresh'[o] = refresh[o]
  BY <1>2 DEF SessionInv, Shape, RefreshRecords
<1>4. issued \in Nat /\ expired \subseteq 1..issued
  BY DEF SessionInv, Shape
<1>5. b \in Exchanging
  BY <1>2 DEF Exchanging
<1>6. store = {} /\ Exchanging = {b} /\ ~revokedLive
  BY <1>5 DEF SessionInv, OneLiveRefresh, RevokedStaysDead, Exchanging
<1>7. Shape'
  BY <1>1, <1>2, <1>3, <1>4 DEF SessionInv, Shape
<1>8. FreshInv' /\ LogoutInv'
  <2>1. issued + 1 \in Nat \ {None} /\ issued + 1 \notin expired
    BY <1>4 DEF None
  <2> QED
    BY <1>1, <1>3, <2>1 DEF SessionInv, FreshInv, LogoutInv
<1>9. OneLiveRefresh' /\ RevokedStaysDead'
  <2>1. store' = {issued'} /\ Exchanging' = {}
    BY <1>2, <1>3, <1>6 DEF Exchanging
  <2> QED
    BY <1>1, <1>6, <2>1 DEF OneLiveRefresh, RevokedStaysDead
<1>10. CalmInv'
  <2> SUFFICES ASSUME Calm' PROVE CalmInv'
    BY DEF CalmInv
  <2>1. Calm
    BY <1>1 DEF Calm
  <2>2. shared # None /\ \A o \in Tabs \ {b} : ~InFlight(o)
    BY <1>2, <2>1 DEF SessionInv, CalmInv, InFlight
  <2>3. \A o \in Tabs \ {b} : refresh'[o].at = "none"
    BY <1>3, <2>2 DEF InFlight
  <2>4. store' = {issued'}
    BY <1>2, <1>6
  <2> QED
    BY <1>1, <1>2, <1>3, <2>2, <2>3, <2>4 DEF CalmInv, InFlight
<1> QED
  BY <1>7, <1>8, <1>9, <1>10 DEF SessionInv

LEMMA AnswerUnauthorizedStep ==
  ASSUME SessionInv, NEW c \in Calls, AnswerUnauthorized(c)
  PROVE  SessionInv'
<1>1. UNCHANGED <<store, issued, expired, shared, memory, refresh, loggedOut,
                  revokedLive, clash, faults>>
  BY DEF AnswerUnauthorized, tokenVars, histVars
<1>2. /\ call[c].at = "sent" /\ call[c].sid \in expired
      /\ call' = [call EXCEPT ![c].at = "401"]
  BY DEF AnswerUnauthorized
<1>3. Shape' /\ FreshInv' /\ LogoutInv'
  BY <1>1, <1>2, CallStep DEF SessionInv, Shape
<1> QED
  BY <1>1, <1>3, ServerQuiet, CalmQuiet DEF SessionInv

LEMMA AnswerApiStep ==
  ASSUME SessionInv, NEW c \in Calls, AnswerApi(c)
  PROVE  SessionInv'
<1>1. UNCHANGED <<store, issued, expired, shared, memory, refresh, loggedOut,
                  revokedLive, clash, faults>>
  BY DEF AnswerApi, tokenVars, histVars
<1>2. /\ call[c].at = "sent" /\ call[c].kind = "api"
      /\ call' = [call EXCEPT ![c].at = "ok"]
  BY DEF AnswerApi
<1>3. Shape' /\ FreshInv' /\ LogoutInv'
  BY <1>1, <1>2, CallStep DEF SessionInv, Shape
<1> QED
  BY <1>1, <1>3, ServerQuiet, CalmQuiet DEF SessionInv

LEMMA AnswerLogoutStep ==
  ASSUME SessionInv, NEW c \in Calls, AnswerLogout(c)
  PROVE  SessionInv'
<1> DEFINE s == call[c].sid
<1>1. UNCHANGED <<issued, expired, shared, memory, refresh, clash, faults>>
  BY DEF AnswerLogout, tokenVars, histVars
<1>2. /\ call[c].at = "sent" /\ call' = [call EXCEPT ![c].at = "ok"]
      /\ store' = store \ {s} /\ loggedOut' /\ revokedLive' = (revokedLive \/ s \in store)
  BY DEF AnswerLogout, RevokedBy
<1>3. Shape' /\ FreshInv' /\ LogoutInv'
  BY <1>1, <1>2, CallStep DEF SessionInv, Shape
<1>4. Exchanging' = Exchanging
  BY <1>1 DEF Exchanging
<1>5. OneLiveRefresh'
  BY <1>1, <1>2, <1>4 DEF SessionInv, OneLiveRefresh
<1>6. RevokedStaysDead'
  <2>1. CASE s \in store
    BY <1>2, <1>4, <2>1 DEF SessionInv, OneLiveRefresh, RevokedStaysDead
  <2>2. CASE s \notin store
    <3>1. store' = store
      BY <1>2, <2>2
    <3>2. revokedLive' => revokedLive
      BY <1>2, <2>2
    <3> QED
      BY <1>4, <3>1, <3>2 DEF SessionInv, RevokedStaysDead
  <2> QED
    BY <2>1, <2>2
<1>7. CalmInv'
  BY <1>2 DEF CalmInv, Calm
<1> QED
  BY <1>3, <1>5, <1>6, <1>7 DEF SessionInv

LEMMA ExpireStep ==
  ASSUME SessionInv, NEW s \in 1..issued, Expire(s)
  PROVE  SessionInv'
<1>1. UNCHANGED <<store, issued, shared, memory, call, refresh, loggedOut,
                  revokedLive, clash, faults>>
  BY DEF Expire, tokenVars, histVars
<1>2. expired' = expired \union {s}
  BY DEF Expire
<1>3. Shape' /\ LogoutInv'
  BY <1>1, <1>2 DEF SessionInv, Shape, LogoutInv
<1>4. FreshInv'
  BY <1>1, <1>2 DEF SessionInv, FreshInv, Expire
<1> QED
  BY <1>1, <1>3, <1>4, ServerQuiet, CalmQuiet DEF SessionInv

LEMMA SessionInvStep == SessionInv /\ [Next]_vars => SessionInv'
<1> SUFFICES ASSUME SessionInv, [Next]_vars PROVE SessionInv'
  OBVIOUS
<1>1. CASE UNCHANGED vars
  <2>1. UNCHANGED <<store, issued, expired, shared, memory, call, refresh,
                    loggedOut, revokedLive, clash, faults>>
    BY <1>1 DEF vars, tokenVars, histVars
  <2>2. Shape' /\ FreshInv' /\ LogoutInv'
    BY <2>1 DEF SessionInv, Shape, FreshInv, LogoutInv
  <2> QED
    BY <2>1, <2>2, ServerQuiet, CalmQuiet DEF SessionInv
<1>2. CASE \E c \in Calls, b \in Tabs, kind \in {"api", "logout"} : SendCall(b, c, kind)
  BY <1>2, SendCallStep
<1>3. CASE \E c \in Calls : \/ ReceiveOk(c) \/ ReceiveUnauthorized(c) \/ ReceiveRejected(c)
                            \/ AnswerUnauthorized(c) \/ AnswerApi(c) \/ AnswerLogout(c)
                            \/ LoseCall(c)
  BY <1>3, ReceiveOkStep, ReceiveUnauthorizedStep, ReceiveRejectedStep,
     AnswerUnauthorizedStep, AnswerApiStep, AnswerLogoutStep, LoseCallStep
<1>4. CASE \E b \in Tabs : \/ Consume(b) \/ Issue(b)
                           \/ RefreshGranted(b) \/ RefreshDenied(b) \/ LoseRefresh(b)
  BY <1>4, ConsumeStep, IssueStep, RefreshGrantedStep, RefreshDeniedStep, LoseRefreshStep
<1>5. CASE \E s \in 1..issued : Expire(s)
  BY <1>5, ExpireStep
<1> QED
  BY <1>1, <1>2, <1>3, <1>4, <1>5 DEF Next

\* The invariant the theorems below are read off.
THEOREM SessionInvariant == Spec => []SessionInv
<1> QED
  BY SessionInvInit, SessionInvStep, PTL DEF Spec

\* Of all replays of a refresh token one exchange goes through, and the store
\* never holds two tokens of a login, whatever the tabs do.
THEOREM RefreshOneShot == Spec => []OneLiveRefresh
<1>1. SessionInv => OneLiveRefresh
  BY DEF SessionInv
<1> QED
  BY <1>1, SessionInvariant, PTL

\* A logout that found its refresh token ends the session for good.
THEOREM LogoutIsFinal == Spec => []RevokedStaysDead
<1>1. SessionInv => RevokedStaysDead
  BY DEF SessionInv
<1> QED
  BY <1>1, SessionInvariant, PTL

\* Late 401s of any number of calls never throw the user out, as long as no
\* message is lost and no two tabs refresh at once.
THEOREM LateAnswersHarmless == Spec => []NoFalseLogout
<1>1. SessionInv => NoFalseLogout
  BY DEF SessionInv, CalmInv, Calm, NoFalseLogout
<1> QED
  BY <1>1, SessionInvariant, PTL

-----------------------------------------------------------------------------
(***************************************************************************)
(* How many token pairs are issued.                                        *)
(***************************************************************************)

\* The calls that have had their refresh or will have none, and the tabs with
\* a refresh that the server has not answered.
Spent    == {c \in Calls : call[c].retried \/ call[c].at \in {"waiting", "done"}}
Underway == {b \in Tabs : refresh[b].at \in {"sent", "consumed"}}

\* No token is in use that was not issued.
SidsKnown ==
    /\ shared <= issued /\ 1 <= issued
    /\ \A b \in Tabs : memory[b] <= issued /\ refresh[b].sid <= issued
    /\ \A c \in Calls : call[c].sid <= issued

\* Every pair but that of the login, and every refresh under way, was paid for
\* by a call, which cannot pay again.
CountInv ==
    /\ IsFiniteSet(Underway)
    /\ issued + Cardinality(Underway) <= Cardinality(Spent) + 1

Flags == loggedOut \in BOOLEAN /\ revokedLive \in BOOLEAN /\ clash \in BOOLEAN

BoundInv == SidsKnown /\ CountInv /\ Flags

LEMMA SpentFinite == IsFiniteSet(Spent) /\ Cardinality(Spent) \in Nat
<1>1. Spent \in SUBSET Calls
  BY DEF Spent
<1> QED
  BY <1>1, SessionAssumption, FS_Subset, FS_CardinalityType

LEMMA BoundInvInit == Init => BoundInv
<1> SUFFICES ASSUME Init PROVE BoundInv
  OBVIOUS
<1>1. SidsKnown
  BY DEF Init, SidsKnown, NoCall, NoRefresh, None
<1>2. Underway = {} /\ issued = 1
  BY DEF Init, Underway, NoRefresh
<1>3. CountInv
  BY <1>2, FS_EmptySet, SpentFinite DEF CountInv
<1> QED
  BY <1>1, <1>3 DEF Init, BoundInv, Flags

-----------------------------------------------------------------------------
(* The count: what a step may do to the calls and to the refreshes.        *)

\* Calls go on, and no refresh begins.
LEMMA CountQuiet ==
  ASSUME SessionInv, BoundInv, Spent \subseteq Spent',
         Underway' \subseteq Underway, issued' = issued
  PROVE  CountInv'
<1>1. /\ Cardinality(Spent) <= Cardinality(Spent') /\ Cardinality(Spent') \in Nat
      /\ Cardinality(Spent) \in Nat
  <2>1. Spent' \in SUBSET Calls
    BY DEF Spent
  <2>2. IsFiniteSet(Spent')
    BY <2>1, SessionAssumption, FS_Subset
  <2> QED
    BY <2>2, SpentFinite, FS_Subset, FS_CardinalityType
<1>2. /\ IsFiniteSet(Underway) /\ IsFiniteSet(Underway')
      /\ Cardinality(Underway') <= Cardinality(Underway)
  BY FS_Subset DEF BoundInv, CountInv
<1>3. Cardinality(Underway) \in Nat /\ Cardinality(Underway') \in Nat
  BY <1>2, FS_CardinalityType
<1>4. issued + Cardinality(Underway') <= Cardinality(Spent') + 1
  BY <1>1, <1>2, <1>3 DEF BoundInv, CountInv, SessionInv, Shape
<1> QED
  BY <1>2, <1>4 DEF CountInv

\* A call pays for the refresh of a tab.
LEMMA CountBegun ==
  ASSUME SessionInv, BoundInv, NEW c \in Calls \ Spent, NEW b \in Tabs,
         Spent \union {c} \subseteq Spent',
         Underway' \subseteq Underway \union {b}, issued' = issued
  PROVE  CountInv'
<1>1. /\ IsFiniteSet(Spent') /\ Cardinality(Spent') \in Nat
  <2>1. Spent' \in SUBSET Calls
    BY DEF Spent
  <2> QED
    BY <2>1, SessionAssumption, FS_Subset, FS_CardinalityType
<1>2. Cardinality(Spent) \in Nat /\ Cardinality(Spent) + 1 <= Cardinality(Spent')
  <2>1. Cardinality(Spent \union {c}) = Cardinality(Spent) + 1
    BY SpentFinite, FS_AddElement
  <2>2. Cardinality(Spent \union {c}) <= Cardinality(Spent')
    BY <1>1, FS_Subset
  <2> QED
    BY <2>1, <2>2, SpentFinite
<1>3. IsFiniteSet(Underway) /\ Cardinality(Underway) \in Nat
  BY FS_CardinalityType DEF BoundInv, CountInv
<1>4. /\ IsFiniteSet(Underway \union {b})
      /\ Cardinality(Underway \union {b}) <= Cardinality(Underway) + 1
  <2>1. CASE b \in Underway
    <3>1. Underway \union {b} = Underway
      BY <2>1
    <3> QED
      BY <1>3, <3>1
  <2>2. CASE b \notin Underway
    <3>1. /\ IsFiniteSet(Underway \union {b})
          /\ Cardinality(Underway \union {b}) = Cardinality(Underway) + 1
      BY <1>3, <2>2, FS_AddElement
    <3> QED
      BY <1>3, <3>1
  <2> QED
    BY <2>1, <2>2
<1>5. IsFiniteSet(Underway') /\ Cardinality(Underway') <= Cardinality(Underway \union {b})
  BY <1>4, FS_Subset
<1>6. Cardinality(Underway') \in Nat /\ Cardinality(Underway \union {b}) \in Nat
  BY <1>4, <1>5, FS_CardinalityType
<1>7. issued + Cardinality(Underway') <= Cardinality(Spent') + 1
  BY <1>1, <1>2, <1>3, <1>4, <1>5, <1>6 DEF BoundInv, CountInv, SessionInv, Shape
<1> QED
  BY <1>5, <1>7 DEF CountInv

\* A refresh under way becomes a pair.
LEMMA CountIssued ==
  ASSUME SessionInv, BoundInv, NEW b \in Underway, Spent' = Spent,
         Underway' = Underway \ {b}, issued' = issued + 1
  PROVE  CountInv'
<1>1. IsFiniteSet(Underway) /\ Cardinality(Underway) \in Nat
  BY FS_CardinalityType DEF BoundInv, CountInv
<1>2. IsFiniteSet(Underway') /\ Cardinality(Underway') = Cardinality(Underway) - 1
  BY <1>1, FS_RemoveElement
<1>3. issued' + Cardinality(Underway') <= Cardinality(Spent') + 1
  BY <1>1, <1>2, SpentFinite DEF BoundInv, CountInv, SessionInv, Shape
<1> QED
  BY <1>2, <1>3 DEF CountInv

-----------------------------------------------------------------------------
(* Tokens and calls.                                                       *)

LEMMA TokensKnown ==
  ASSUME SessionInv, BoundInv, NEW b \in Tabs, NEW s, s <= issued, SetTokens(b, s)
  PROVE  shared' <= issued /\ \A a \in Tabs : memory'[a] <= issued
  BY DEF SessionInv, Shape, BoundInv, SidsKnown, SetTokens

LEMMA TokensCleared ==
  ASSUME SessionInv, BoundInv, NEW b \in Tabs, ClearTokens(b)
  PROVE  shared' <= issued /\ \A a \in Tabs : memory'[a] <= issued
<1>1. None <= issued
  BY DEF None, SessionInv, Shape
<1> QED
  BY <1>1, TokensKnown DEF ClearTokens

LEMMA CurrentKnown ==
  ASSUME SessionInv, BoundInv, NEW b \in Tabs
  PROVE  AccessToken(b) <= issued
  BY DEF BoundInv, SidsKnown, AccessToken

\* A call that goes on keeps its token, and once spent it stays so.
LEMMA CallGoesOn ==
  ASSUME SessionInv, BoundInv, NEW c \in Calls, NEW a,
         call' = [call EXCEPT ![c].at = a],
         a \in {"waiting", "done"} \/ call[c].at = "sent"
  PROVE  /\ \A d \in Calls : call'[d].sid <= issued
         /\ Spent \subseteq Spent'
         /\ a \in {"waiting", "done"} => c \in Spent'
<1>1. call \in [Calls -> CallRecords] /\ call[c] \in CallRecords
  BY DEF SessionInv, Shape
<1>2. /\ \A d \in Calls \ {c} : call'[d] = call[d]
      /\ call'[c].at = a /\ call'[c].sid = call[c].sid /\ call'[c].retried = call[c].retried
  BY <1>1 DEF CallRecords
<1> QED
  BY <1>2 DEF Spent, BoundInv, SidsKnown

LEMMA CallEnds ==
  ASSUME SessionInv, BoundInv, NEW c \in Calls, call[c].at # "none", EndCall(c)
  PROVE  /\ \A d \in Calls : call'[d].sid <= issued
         /\ Spent \subseteq Spent'
         /\ shared' <= issued /\ \A a \in Tabs : memory'[a] <= issued
<1>1. call[c].tab \in Tabs
  BY DEF SessionInv, Shape
<1>2. shared' <= issued /\ \A a \in Tabs : memory'[a] <= issued
  BY <1>1, TokensCleared DEF EndCall, tokenVars, BoundInv, SidsKnown
<1> QED
  BY <1>2, CallGoesOn DEF EndCall

\* The refresh of b is over, the calls that waited for it are spent.
LEMMA RefreshEnds ==
  ASSUME SessionInv, BoundInv, NEW b \in Tabs,
         refresh' = [refresh EXCEPT ![b] = NoRefresh]
  PROVE  /\ \A a \in Tabs : refresh'[a].sid <= issued
         /\ Underway' \subseteq Underway
<1>1. refresh \in [Tabs -> RefreshRecords]
  BY DEF SessionInv, Shape
<1> QED
  BY <1>1 DEF BoundInv, SidsKnown, Underway, NoRefresh, None, SessionInv, Shape

-----------------------------------------------------------------------------
(* One lemma for each kind of step.                                        *)

\* The steps of a call that change its record only, or end it.
LEMMA BoundCallStep ==
  ASSUME SessionInv, BoundInv, NEW c \in Calls,
         ReceiveOk(c) \/ ReceiveRejected(c) \/ LoseCall(c)
  PROVE  BoundInv'
<1>1. UNCHANGED <<issued, refresh, loggedOut, revokedLive, clash>>
  BY DEF ReceiveOk, ReceiveRejected, LoseCall, histVars
<1>2. /\ \A d \in Calls : call'[d].sid <= issued
      /\ Spent \subseteq Spent'
      /\ shared' <= issued /\ \A a \in Tabs : memory'[a] <= issued
  <2>1. CASE ReceiveRejected(c)
    <3>1. call[c].tab \in Tabs
      BY <2>1 DEF ReceiveRejected, SessionInv, Shape
    <3> QED
      BY <2>1, <3>1, CallGoesOn, TokensCleared DEF ReceiveRejected
  <2>2. CASE ReceiveOk(c) \/ LoseCall(c)
    BY <2>2, CallEnds DEF ReceiveOk, LoseCall
  <2> QED
    BY <2>1, <2>2
<1>3. SidsKnown' /\ Flags'
  BY <1>1, <1>2 DEF BoundInv, SidsKnown, Flags
<1>4. CountInv'
  BY <1>1, <1>2, CountQuiet DEF Underway
<1> QED
  BY <1>3, <1>4 DEF BoundInv

LEMMA BoundAnswerStep ==
  ASSUME SessionInv, BoundInv, NEW c \in Calls,
         AnswerUnauthorized(c) \/ AnswerApi(c) \/ AnswerLogout(c)
  PROVE  BoundInv'
<1>1. UNCHANGED <<issued, refresh, shared, memory, clash>>
  BY DEF AnswerUnauthorized, AnswerApi, AnswerLogout, histVars, tokenVars
<1>2. (\A d \in Calls : call'[d].sid <= issued) /\ Spent \subseteq Spent'
  BY CallGoesOn DEF AnswerUnauthorized, AnswerApi, AnswerLogout
<1>3. SidsKnown'
  BY <1>1, <1>2 DEF BoundInv, SidsKnown
<1>4. Flags'
  BY <1>1 DEF AnswerUnauthorized, AnswerApi, AnswerLogout, BoundInv, Flags
<1>5. CountInv'
  BY <1>1, <1>2, CountQuiet DEF Underway
<1> QED
  BY <1>3, <1>4, <1>5 DEF BoundInv

LEMMA BoundSendStep ==
  ASSUME SessionInv, BoundInv, NEW b \in Tabs, NEW c \in Calls, NEW kind, SendCall(b, c, kind)
  PROVE  BoundInv'
<1>1. UNCHANGED <<issued, refresh, shared, memory, loggedOut, revokedLive, clash>>
  BY DEF SendCall, histVars, tokenVars
<1>2. /\ call[c] = NoCall
      /\ call' = [call EXCEPT ![c] = [at |-> "sent", tab |-> b, kind |-> kind,
                                      sid |-> AccessToken(b), retried |-> FALSE]]
      /\ call \in [Calls -> CallRecords]
  BY DEF SendCall, SessionInv, Shape
<1>3. \A d \in Calls : call'[d].sid <= issued
  BY <1>2, CurrentKnown DEF BoundInv, SidsKnown
<1>4. Spent \subseteq Spent'
  BY <1>2 DEF Spent, NoCall
<1>5. SidsKnown' /\ Flags'
  BY <1>1, <1>3 DEF BoundInv, SidsKnown, Flags
<1>6. CountInv'
  BY <1>1, <1>4, CountQuiet DEF Underway
<1> QED
  BY <1>5, <1>6 DEF BoundInv

LEMMA BoundUnauthorizedStep ==
  ASSUME SessionInv, BoundInv, NEW c \in Calls, ReceiveUnauthorized(c)
  PROVE  BoundInv'
<1> DEFINE b == call[c].tab
<1>1. UNCHANGED <<issued, shared, memory, loggedOut, revokedLive>>
  BY DEF ReceiveUnauthorized, tokenVars
<1>2. /\ call[c].at = "401" /\ ~call[c].retried /\ b \in Tabs
      /\ call' = [call EXCEPT ![c].at = "waiting"]
  BY DEF ReceiveUnauthorized, SessionInv, Shape
<1>3. (\A d \in Calls : call'[d].sid <= issued) /\ Spent \union {c} \subseteq Spent'
  BY <1>2, CallGoesOn
<1>4. \/ UNCHANGED <<refresh, clash>>
      \/ /\ refresh' = [refresh EXCEPT ![b] = [at |-> "sent", sid |-> AccessToken(b)]]
         /\ clash' = (clash \/ \E other \in Tabs \ {b} : refresh[other].at # "none")
  BY DEF ReceiveUnauthorized
<1>5. AccessToken(b) <= issued
  BY <1>2, CurrentKnown
<1>6. refresh \in [Tabs -> RefreshRecords]
  BY DEF SessionInv, Shape
<1>7. \A a \in Tabs : refresh'[a].sid <= issued
  <2>1. CASE UNCHANGED refresh
    BY <2>1 DEF BoundInv, SidsKnown
  <2>2. CASE refresh' = [refresh EXCEPT ![b] = [at |-> "sent", sid |-> AccessToken(b)]]
    BY <1>2, <1>5, <1>6, <2>2 DEF BoundInv, SidsKnown
  <2> QED
    BY <1>4, <2>1, <2>2
<1>8. Underway' \subseteq Underway \union {b}
  BY <1>2, <1>4, <1>6 DEF Underway
<1>9. SidsKnown'
  BY <1>1, <1>3, <1>7 DEF BoundInv, SidsKnown
<1>10. Flags'
  BY <1>1, <1>4 DEF BoundInv, Flags
<1>11. c \notin Spent
  BY <1>2 DEF Spent
<1>12. CountInv'
  BY <1>1, <1>2, <1>3, <1>8, <1>11, CountBegun
<1> QED
  BY <1>9, <1>10, <1>12 DEF BoundInv

LEMMA BoundGrantedStep ==
  ASSUME SessionInv, BoundInv, NEW b \in Tabs, RefreshGranted(b)
  PROVE  BoundInv'
<1>1. UNCHANGED <<issued, loggedOut, revokedLive, clash>>
  BY DEF RefreshGranted, histVars
<1>2. /\ SetTokens(b, refresh[b].sid)
      /\ refresh' = [refresh EXCEPT ![b] = NoRefresh]
      /\ call' = [c \in Calls |-> IF c \in Waiting(b) THEN SentAgain(c, refresh[b].sid)
                                                      ELSE call[c]]
  BY DEF RefreshGranted
<1>3. refresh[b].sid <= issued
  BY DEF BoundInv, SidsKnown
<1>4. \A c \in Calls : SentAgain(c, refresh[b].sid).sid = refresh[b].sid
                       /\ SentAgain(c, refresh[b].sid).retried
  BY DEF SentAgain, SessionInv, Shape, CallRecords
<1>5. \A c \in Calls : call'[c].sid <= issued
  BY <1>2, <1>3, <1>4 DEF BoundInv, SidsKnown
<1>6. Spent \subseteq Spent'
  BY <1>2, <1>4 DEF Spent
<1>7. SidsKnown'
  BY <1>1, <1>2, <1>3, <1>5, TokensKnown, RefreshEnds DEF BoundInv, SidsKnown
<1>8. Flags'
  BY <1>1 DEF BoundInv, Flags
<1>9. CountInv'
  BY <1>1, <1>2, <1>6, CountQuiet, RefreshEnds
<1> QED
  BY <1>7, <1>8, <1>9 DEF BoundInv

LEMMA BoundFailedStep ==
  ASSUME SessionInv, BoundInv, NEW b \in Tabs, RefreshDenied(b) \/ LoseRefresh(b)
  PROVE  BoundInv'
<1>1. UNCHANGED <<issued, loggedOut, revokedLive, clash>>
  BY DEF RefreshDenied, LoseRefresh, histVars
<1>2. /\ ClearTokens(b)
      /\ refresh' = [refresh EXCEPT ![b] = NoRefresh]
      /\ call' = [c \in Calls |-> IF c \in Waiting(b) THEN [call[c] EXCEPT !.at = "done"]
                                                      ELSE call[c]]
  BY DEF RefreshDenied, LoseRefresh, FailRefresh
<1>3. \A c \in Calls : /\ [call[c] EXCEPT !.at = "done"].sid = call[c].sid
                       /\ [call[c] EXCEPT !.at = "done"].at = "done"
  BY DEF SessionInv, Shape, CallRecords
<1>4. \A c \in Calls : call'[c].sid <= issued
  BY <1>2, <1>3 DEF BoundInv, SidsKnown
<1>5. Spent \subseteq Spent'
  BY <1>2, <1>3 DEF Spent
<1>6. SidsKnown'
  BY <1>1, <1>2, <1>4, TokensCleared, RefreshEnds DEF BoundInv, SidsKnown
<1>7. Flags'
  BY <1>1 DEF BoundInv, Flags
<1>8. CountInv'
  BY <1>1, <1>2, <1>5, CountQuiet, RefreshEnds
<1> QED
  BY <1>6, <1>7, <1>8 DEF BoundInv

LEMMA BoundConsumeStep ==
  ASSUME SessionInv, BoundInv, NEW b \in Tabs, Consume(b)
  PROVE  BoundInv'
<1>1. UNCHANGED <<issued, shared, memory, call, loggedOut, revokedLive, clash>>
  BY DEF Consume, tokenVars, histVars
<1>2. /\ refresh[b].at = "sent" /\ refresh \in [Tabs -> RefreshRecords]
      /\ \A a \in Tabs : /\ refresh'[a].sid = refresh[a].sid
                         /\ a # b => refresh'[a] = refresh[a]
  BY DEF Consume, SessionInv, Shape, RefreshRecords
<1>3. SidsKnown' /\ Flags'
  BY <1>1, <1>2 DEF BoundInv, SidsKnown, Flags
<1>4. Underway' \subseteq Underway
  BY <1>2 DEF Underway
<1>5. CountInv'
  BY <1>1, <1>4, CountQuiet DEF Spent
<1> QED
  BY <1>3, <1>5 DEF BoundInv

LEMMA BoundIssueStep ==
  ASSUME SessionInv, BoundInv, NEW b \in Tabs, Issue(b)
  PROVE  BoundInv'
<1>1. UNCHANGED <<shared, memory, call, loggedOut, revokedLive, clash>>
  BY DEF Issue, tokenVars, histVars
<1>2. /\ issued' = issued + 1 /\ issued \in Nat
      /\ refresh' = [refresh EXCEPT ![b] = [at |-> "granted", sid |-> issued + 1]]
      /\ refresh \in [Tabs -> RefreshRecords] /\ refresh[b].at = "consumed"
      /\ shared \in Nat /\ memory \in [Tabs -> Nat]
      /\ \A c \in Calls : call[c].sid \in Nat
      /\ \A a \in Tabs : refresh[a].sid \in Nat
  BY DEF Issue, SessionInv, Shape, CallRecords, RefreshRecords
<1>3. SidsKnown'
  BY <1>1, <1>2 DEF BoundInv, SidsKnown
<1>4. Underway' = Underway \ {b} /\ b \in Underway
  BY <1>2 DEF Underway
<1>5. Flags' /\ Spent' = Spent
  BY <1>1 DEF BoundInv, Flags, Spent
<1>6. CountInv'
  BY <1>2, <1>4, <1>5, CountIssued
<1> QED
  BY <1>3, <1>5, <1>6 DEF BoundInv

LEMMA BoundQuiet ==
  ASSUME SessionInv, BoundInv,
         UNCHANGED <<issued, shared, memory, call, refresh, loggedOut, revokedLive, clash>>
  PROVE  BoundInv'
<1>1. SidsKnown' /\ Flags' /\ Spent' = Spent /\ Underway' = Underway
  BY DEF BoundInv, SidsKnown, Flags, Spent, Underway
<1> QED
  BY <1>1, CountQuiet DEF BoundInv

LEMMA BoundInvStep == SessionInv /\ BoundInv /\ [Next]_vars => BoundInv'
<1> SUFFICES ASSUME SessionInv, BoundInv, [Next]_vars PROVE BoundInv'
  OBVIOUS
<1>1. CASE (\E s \in 1..issued : Expire(s)) \/ UNCHANGED vars
  BY <1>1, BoundQuiet DEF Expire, vars, tokenVars, histVars
<1>2. CASE \E c \in Calls : \/ \E b \in Tabs, kind \in {"api", "logout"} : SendCall(b, c, kind)
                            \/ ReceiveOk(c) \/ ReceiveUnauthorized(c) \/ ReceiveRejected(c)
                            \/ AnswerUnauthorized(c) \/ AnswerApi(c) \/ AnswerLogout(c)
                            \/ LoseCall(c)
  BY <1>2, BoundSendStep, BoundCallStep, BoundUnauthorizedStep, BoundAnswerStep
<1>3. CASE \E b \in Tabs : \/ Consume(b) \/ Issue(b)
                           \/ RefreshGranted(b) \/ RefreshDenied(b) \/ LoseRefresh(b)
  BY <1>3, BoundConsumeStep, BoundIssueStep, BoundGrantedStep, BoundFailedStep
<1> QED
  BY <1>1, <1>2, <1>3 DEF Next

\* In particular a login issues one pair more than there are calls, at most:
\* no call refreshes twice, and the calls that wait together share a refresh.
THEOREM SessionTypeCorrect == Spec => []TypeOK
<1>1. SessionInv /\ BoundInv => TypeOK
  <2> SUFFICES ASSUME SessionInv, BoundInv PROVE TypeOK
    OBVIOUS
  <2>1. issued \in Nat /\ issued <= Cardinality(Calls) + 1
    <3>1. Spent \in SUBSET Calls
      BY DEF Spent
    <3>2. /\ Cardinality(Spent) <= Cardinality(Calls)
          /\ Cardinality(Spent) \in Nat /\ Cardinality(Calls) \in Nat
      BY <3>1, SpentFinite, SessionAssumption, FS_Subset, FS_CardinalityType
    <3>3. Cardinality(Underway) \in Nat
      BY FS_CardinalityType DEF BoundInv, CountInv
    <3> QED
      BY <3>2, <3>3 DEF BoundInv, CountInv, SessionInv, Shape
  <2>2. 1 <= issued
    BY DEF BoundInv, SidsKnown
  <2> DEFINE Known == Sids \union {None}
  <2>3. Sids \in SUBSET Nat /\ issued \in Sids /\ 1..issued \subseteq Sids
    <3>1. Cardinality(Calls) \in Nat
      BY SessionAssumption, FS_CardinalityType
    <3> QED
      BY <2>1, <2>2, <3>1 DEF Sids
  <2>4. \A s \in Nat : s <= issued => s \in Known
    BY <2>3 DEF None
  <2>5. store \subseteq Sids /\ expired \subseteq Sids
    BY <2>3 DEF SessionInv, Shape, OneLiveRefresh
  <2> HIDE DEF Known
  <2>6. shared \in Known /\ memory \in [Tabs -> Known]
    BY <2>4 DEF SessionInv, Shape, BoundInv, SidsKnown
  <2>7. call \in [Calls -> [at : {"none", "sent", "ok", "401", "waiting", "done"},
                           tab : Tabs \union {NoTab}, kind : {"api", "logout"},
                           sid : Known, retried : BOOLEAN]]
    BY <2>4 DEF SessionInv, Shape, BoundInv, SidsKnown, CallRecords
  <2>8. refresh \in [Tabs -> [at : {"none", "sent", "consumed", "granted", "denied"},
                             sid : Known]]
    BY <2>4 DEF SessionInv, Shape, BoundInv, SidsKnown, RefreshRecords
  <2>9. loggedOut \in BOOLEAN /\ revokedLive \in BOOLEAN /\ clash \in BOOLEAN
    BY DEF BoundInv, Flags
  <2>10. faults \in Nat
    BY DEF SessionInv, Shape
  <2> QED
    BY <2>3, <2>5, <2>6, <2>7, <2>8, <2>9, <2>10 DEF TypeOK, Known
<1>2. Init => BoundInv
  BY BoundInvInit
<1>3. SessionInv /\ BoundInv /\ [Next]_vars => BoundInv'
  BY BoundInvStep
<1> QED
  BY <1>1, <1>2, <1>3, SessionInvariant, PTL DEF Spec
=============================================================================
