------------------------------ MODULE Startup ------------------------------
(***************************************************************************)
(* Start of a service (app/core/config.py, main.py of each service): the   *)
(* assertions S1-a to S1-e run before create_app(), and everything else of *)
(* the environment is read when a request first needs it.  A deployment is *)
(* a service and the environment it is started in; a supervisor starts a   *)
(* process again that has stopped.                                         *)
(***************************************************************************)

CONSTANTS
    Hosts,          \* places a service is deployed at
    Deployments     \* the deployments there may be, as records

\* A database is known by its name, and by what the assertions find in its
\* URL: the name of the production database, "test", any of the markers.
Databases == [name : STRING, shop : BOOLEAN, test : BOOLEAN, marked : BOOLEAN]

RequiredKeys == {"ARK_API_KEY", "FIELD_ENCRYPT_KEY", "FIELD_HMAC_KEY"}

JwtFiles == {"private", "public"}

\* "test" is one of the markers.
ASSUME StartupAssumption ==
    \A d \in Deployments :
        /\ d.service \in {"backend", "mock", "ai"}
        /\ d.env \in [name : STRING, exact : BOOLEAN]
        /\ d.url \in Databases /\ d.mockUrl \in Databases
        /\ d.url.test => d.url.marked
        /\ d.secret \in {"none", "default", "short", "strong"}
        /\ d.keys \subseteq RequiredKeys
        /\ d.jwt \subseteq JwtFiles
        /\ d.ttl \in {"none", "number", "junk"}
        /\ d.internal \in BOOLEAN

NoDatabase == [name |-> "", shop |-> FALSE, test |-> FALSE, marked |-> FALSE]

VARIABLES
    deployed,   \* deployed[h]: what is deployed at h
    stage,      \* stage[h]: "down", "refused" by an assertion, or "up"
    late        \* late[h]: what failed in a request for want of configuration

startupVars == <<deployed, stage, late>>

StartupInit ==
    /\ deployed \in [Hosts -> Deployments]
    /\ stage = [h \in Hosts |-> "down"]
    /\ late = [h \in Hosts |-> {}]

\* Mutation: APP_ENV as it is written.
GetEnv_Raw(d) == IF d.env.exact THEN d.env.name ELSE "unknown"

\* get_env(): blanks and capitals in APP_ENV do not count.
GetEnv(d) == d.env.name

DbNotTestEnvInProd(d) ==
    GetEnv(d) = "production" => d.url # NoDatabase /\ ~d.url.marked

DbIsIsolated(d) ==
    GetEnv(d) \in {"test", "development"} /\ d.url # NoDatabase =>
        ~(d.url.shop /\ ~d.url.test)

SecretKeyNotDefault(d) == GetEnv(d) = "production" => d.secret = "strong"

RequiredKeysPresent(d, required) == GetEnv(d) = "production" => required \subseteq d.keys

\* Mutation: S1-e looks for one of the files.
JwtKeysConfigured_PublicOnly(d) == GetEnv(d) = "production" => "public" \in d.jwt

JwtKeysConfigured(d) == GetEnv(d) = "production" => d.jwt = JwtFiles

\* run_startup_assertions() of the backend and of the mock channel, whose own
\* database is MOCK_DATABASE_URL, and run_ai_startup_assertions().
Assertions(d) ==
    IF d.service = "ai"
    THEN RequiredKeysPresent(d, {"ARK_API_KEY"})
    ELSE /\ DbNotTestEnvInProd(d)
         /\ DbIsIsolated(d)
         /\ SecretKeyNotDefault(d)
         /\ RequiredKeysPresent(d, RequiredKeys)
         /\ JwtKeysConfigured(d)

\* bootstrap()
Boot(h) ==
    /\ stage[h] = "down"
    /\ stage' = [stage EXCEPT ![h] = IF Assertions(deployed[h]) THEN "up" ELSE "refused"]
    /\ UNCHANGED <<deployed, late>>

OwnUrl(d) == IF d.service = "mock" THEN d.mockUrl ELSE d.url

\* get_engine(): the engine is made when a request first needs it.
HasEngine(d) == OwnUrl(d) # NoDatabase

\* JwtKeys.from_files(): without the public file it raises.
CanVerify(d) == "public" \in d.jwt

\* encode_token(): without the private one nothing can be signed.
CanSign(d) == d.jwt = JwtFiles

\* verify_credentials() refuses every request as long as the service lacks
\* the token or the secret between services.
KnowsServices(d) == d.internal

Present(d, what) ==
    \/ what = "database" /\ HasEngine(d)
    \/ what = "token" /\ CanVerify(d)
    \/ what = "signing" /\ CanSign(d)
    \/ what = "internal" /\ KnowsServices(d)

\* The parts requests to a service need.
Needs(d) ==
    CASE d.service = "backend" -> {"database", "token", "signing", "internal"}
      [] d.service = "mock" -> {"database"}
      [] d.service = "ai" -> {}

RequestFinds(h) ==
    /\ stage[h] = "up"
    /\ \E what \in Needs(deployed[h]) :
        late' = [late EXCEPT ![h] = IF Present(deployed[h], what) THEN @ ELSE @ \union {what}]
    /\ UNCHANGED <<deployed, stage>>

\* get_jwt_access_ttl() in refresh(): StartupAssertionError is a SystemExit,
\* and stops the process in the middle of the request.
RefreshReadsTtl(h) ==
    /\ stage[h] = "up"
    /\ deployed[h].service = "backend"
    /\ deployed[h].ttl = "junk"
    /\ late' = [late EXCEPT ![h] = @ \union {"ttl"}]
    /\ stage' = [stage EXCEPT ![h] = "down"]
    /\ UNCHANGED deployed

StartupNext == \E h \in Hosts : Boot(h) \/ RequestFinds(h) \/ RefreshReadsTtl(h)

StartupSpec == StartupInit /\ [][StartupNext]_startupVars

-----------------------------------------------------------------------------
(* Properties *)

Meant(h, names) == deployed[h].env.name \in names

\* S1-a and S1-d together: a production process and one of development or test
\* never work on the same main database if it bears the name of the production
\* database, however APP_ENV is written (config.py:70-184).  Neither assertion
\* says so alone, and staging is outside both.
DatabasesApart ==
    \A p, q \in Hosts :
        /\ stage[p] = "up" /\ Meant(p, {"production"}) /\ deployed[p].service = "backend"
        /\ stage[q] = "up" /\ Meant(q, {"test", "development"}) /\ deployed[q].service = "backend"
        /\ deployed[p].url = deployed[q].url
        => ~deployed[p].url.shop

\* "not when the first request comes" (main.py:11): what fails late in a
\* production process is only what no assertion looks at: the credentials
\* between services, the TTLs, and the database of the mock channel.
LateOnlyUnchecked ==
    \A h \in Hosts :
        Meant(h, {"production"}) =>
            /\ late[h] \subseteq {"internal", "ttl", "database"}
            /\ "database" \in late[h] => deployed[h].service = "mock"
=============================================================================
