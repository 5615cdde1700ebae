---------------------------- MODULE MCComponents ----------------------------
(***************************************************************************)
(* One instance of every component that is checked on its own: which of    *)
(* them runs is chosen at the start, and the others stand still.  None of  *)
(* these modules uses the state of another.                                *)
(***************************************************************************)
EXTENDS Lock, MCOutbox, ServiceAuth, Producer, Startup, Pipeline, Internal, Tokens,
        Logistics, Sms, Recon, Keys, Rows

VARIABLE running

componentsVars == <<running, lockVars, vars, authVars, producerVars, startupVars,
    pipelineVars, internalVars, tokensVars, logisticsVars, smsVars, reconVars,
    keysVars, rowsVars>>

\* A node per minute is far apart in seconds; here two seconds are enough for
\* the rounding of the first node.
MCTraceNodes == <<[offset |-> 0, status |-> 0], [offset |-> 2, status |-> 1],
                  [offset |-> 4, status |-> 3]>>

MainDb == [name |-> "main", shop |-> TRUE, test |-> FALSE, marked |-> FALSE]
TestDb == [name |-> "test", shop |-> TRUE, test |-> TRUE, marked |-> TRUE]
OtherDb == [name |-> "other", shop |-> FALSE, test |-> FALSE, marked |-> FALSE]

Good1 == [service |-> "backend", env |-> [name |-> "production", exact |-> TRUE],
          url |-> MainDb, mockUrl |-> NoDatabase, secret |-> "strong",
          keys |-> RequiredKeys, jwt |-> JwtFiles, ttl |-> "number", internal |-> TRUE]

\* A production backend that is right, every departure from it by one thing or
\* by the two that matter together, and the other services and environments.
MCDeployments ==
    LET envs == {[name |-> n, exact |-> x] : n \in {"production", "test", "staging"}, x \in BOOLEAN}
        dbs == {MainDb, TestDb, OtherDb, NoDatabase}
    IN  {[Good1 EXCEPT !.env = e, !.url = d] : e \in envs, d \in dbs}
        \union {[Good1 EXCEPT !.jwt = f] : f \in SUBSET JwtFiles}
        \union {[Good1 EXCEPT !.ttl = "junk", !.internal = FALSE],
                [Good1 EXCEPT !.secret = "short"],
                [Good1 EXCEPT !.keys = {"ARK_API_KEY"}],
                [Good1 EXCEPT !.service = "mock"],
                [Good1 EXCEPT !.service = "mock", !.mockUrl = OtherDb],
                [Good1 EXCEPT !.service = "ai", !.url = NoDatabase, !.jwt = {}, !.keys = {}],
                [Good1 EXCEPT !.service = "ai", !.url = NoDatabase, !.jwt = {}]}

Components == {"Lock", "Outbox", "ServiceAuth", "Producer", "Startup", "Pipeline",
               "Internal", "Tokens", "Logistics", "Sms", "Recon", "Keys", "Rows"}

Runs(component) == running = component

\* A component that may start in several ways does so only when it runs.  With
\* one payment its type may be any: the reports ask for all types.
MCInit ==
    /\ running \in Components
    /\ LockInit /\ Init /\ PipelineInit /\ InternalInit /\ LogisticsInit
    /\ SmsInit /\ KeysInit /\ RowsInit
    /\ ReconInit /\ payType = [p \in Payments |-> CHOOSE t \in PayTypes : TRUE]
    /\ ProducerInit /\ (~Runs("Producer") => configured)
    /\ StartupInit /\ (~Runs("Startup") => \A h \in Hosts : deployed[h] = Good1)
    /\ AuthInit /\ (~Runs("ServiceAuth") => shared /\ now = 1 /\ \A n \in Signed : stamp[n] = 0)
    /\ TokensInit /\ (~Runs("Tokens") => redis /\ \A u \in Accounts : roles[u] = CHOOSE r \in Roles : TRUE)

OthersStay ==
    /\ UNCHANGED running
    /\ ~Runs("Lock") => UNCHANGED lockVars
    /\ ~Runs("Outbox") => UNCHANGED vars
    /\ ~Runs("ServiceAuth") => UNCHANGED authVars
    /\ ~Runs("Producer") => UNCHANGED producerVars
    /\ ~Runs("Startup") => UNCHANGED startupVars
    /\ ~Runs("Pipeline") => UNCHANGED pipelineVars
    /\ ~Runs("Internal") => UNCHANGED internalVars
    /\ ~Runs("Tokens") => UNCHANGED tokensVars
    /\ ~Runs("Logistics") => UNCHANGED logisticsVars
    /\ ~Runs("Sms") => UNCHANGED smsVars
    /\ ~Runs("Recon") => UNCHANGED reconVars
    /\ ~Runs("Keys") => UNCHANGED keysVars
    /\ ~Runs("Rows") => UNCHANGED rowsVars

MCNext ==
    \/ Runs("Lock") /\ LockNext /\ OthersStay
    \/ Runs("Outbox") /\ Next /\ OthersStay
    \/ Runs("ServiceAuth") /\ AuthNext /\ OthersStay
    \/ Runs("Producer") /\ ProducerNext /\ OthersStay
    \/ Runs("Startup") /\ StartupNext /\ OthersStay
    \/ Runs("Pipeline") /\ PipelineNext /\ OthersStay
    \/ Runs("Internal") /\ InternalNext /\ OthersStay
    \/ Runs("Tokens") /\ TokensNext /\ OthersStay
    \/ Runs("Logistics") /\ LogisticsNext /\ OthersStay
    \/ Runs("Sms") /\ SmsNext /\ OthersStay
    \/ Runs("Recon") /\ ReconNext /\ OthersStay
    \/ Runs("Keys") /\ KeysNext /\ OthersStay
    \/ Runs("Rows") /\ RowsNext /\ OthersStay

MCSpec == MCInit /\ [][MCNext]_componentsVars
=============================================================================
