------------------------------ MODULE Pipeline ------------------------------
(***************************************************************************)
(* The way of a request through a service: TraceIdMiddleware (trace.py),   *)
(* the exception handlers (handlers.py) and the log lines in between       *)
(* (logging.py).  Requests are tasks of one event loop and interleave at   *)
(* every await; a task has a context of its own.  The handler of Exception *)
(* is called by Starlette's ServerErrorMiddleware, which lies outside the  *)
(* middleware of the application.                                          *)
(***************************************************************************)
CONSTANTS
    Requests,
    Given,          \* well-formed X-Trace-Id headers; two requests may send one
    NoTrace,        \* no header, no traceId in a log line, or an empty context
    Malformed       \* a header that _VALID_TRACE does not match

ASSUME PipelineAssumption ==
    /\ NoTrace \notin Given \union Requests
    /\ Malformed \notin Given
    /\ Given \intersect Requests = {}

\* The outcomes of a route that are answered inside the middleware: an answer,
\* BusinessError, RequestValidationError or HTTPException.
Outcomes == {"ok", "business", "validation", "http"}

\* _handle_http_exception() alone writes no line.
LoggedOutcomes == {"business", "validation"}

VARIABLES
    phase,      \* phase[r]: "new", "running", "raised", "answered" or "done"
    traceId,    \* traceId[r]: trace_id of the middleware
    context,    \* context[r]: _trace_id in the context of the task of r
    answers,    \* responses: the request, where it was answered, the header
    logs        \* log lines: the request that wrote it, where, with what traceId

pipelineVars == <<phase, traceId, context, answers, logs>>

PipelineInit ==
    /\ phase = [r \in Requests |-> "new"]
    /\ traceId = [r \in Requests |-> NoTrace]
    /\ context = [r \in Requests |-> NoTrace]
    /\ answers = {}
    /\ logs = {}

\* Mutation: one variable of the process instead of a ContextVar.
Slot_Shared(r) == CHOOSE q \in Requests : TRUE

\* The place _trace_id stands for in the task of r.
Slot(r) == r

\* __call__() up to the application: the header is kept if it is well formed.
\* A new id is unique: it is the request itself.
Enter(r) ==
    /\ phase[r] = "new"
    /\ \E header \in Given \union {NoTrace, Malformed} :
        LET id == IF header \in Given THEN header ELSE r
        IN  /\ traceId' = [traceId EXCEPT ![r] = id]
            /\ context' = [context EXCEPT ![Slot(r)] = id]
    /\ phase' = [phase EXCEPT ![r] = "running"]
    /\ UNCHANGED <<answers, logs>>

\* JsonFormatter.format(): traceId is what the context holds now.
Log(r, where) == logs' = logs \union {[of |-> r, at |-> where, trace |-> context[Slot(r)]]}

\* A response, with the header X-Trace-Id or without one.
Reply(r, where, trace) == answers' = answers \union {[of |-> r, at |-> where, trace |-> trace]}

\* The route logs, then awaits something.
RouteLogs(r) ==
    /\ phase[r] = "running"
    /\ Log(r, "inside")
    /\ UNCHANGED <<phase, traceId, context, answers>>

\* The route returns or raises what a handler inside the middleware takes:
\* the handler may log, and send_with_header() adds the id to the response.
Answer(r) ==
    /\ phase[r] = "running"
    /\ \E outcome \in Outcomes :
        IF outcome \in LoggedOutcomes THEN Log(r, "inside") ELSE UNCHANGED logs
    /\ Reply(r, "inside", traceId[r])
    /\ phase' = [phase EXCEPT ![r] = "answered"]
    /\ UNCHANGED <<traceId, context>>

\* "finally": the token restores what the context held before.
ResetTrace(r) == context' = [context EXCEPT ![Slot(r)] = NoTrace]

Exit(r) ==
    /\ phase[r] = "answered"
    /\ ResetTrace(r)
    /\ phase' = [phase EXCEPT ![r] = "done"]
    /\ UNCHANGED <<traceId, answers, logs>>

\* The route raises anything else: the middleware resets and passes it on ...
Raise(r) ==
    /\ phase[r] = "running"
    /\ ResetTrace(r)
    /\ phase' = [phase EXCEPT ![r] = "raised"]
    /\ UNCHANGED <<traceId, answers, logs>>

\* ... and _handle_unhandled() logs, and answers past send_with_header().
HandleUnhandled(r) ==
    /\ phase[r] = "raised"
    /\ Log(r, "outside")
    /\ Reply(r, "outside", NoTrace)
    /\ phase' = [phase EXCEPT ![r] = "done"]
    /\ UNCHANGED <<traceId, context>>

PipelineNext ==
    \E r \in Requests : \/ Enter(r) \/ RouteLogs(r) \/ Answer(r) \/ Exit(r)
                        \/ Raise(r) \/ HandleUnhandled(r)

PipelineSpec == PipelineInit /\ [][PipelineNext]_pipelineVars

-----------------------------------------------------------------------------
(* Properties *)

\* However requests interleave, a log line and a response carry the id of
\* their own request, and never that of another.  What the handler outside the
\* middleware makes may lack it, which is what EveryAnswerIsTraced objects to.
TraceIsOwn ==
    \A x \in logs \union answers :
        x.trace \in IF x.at = "inside" THEN {traceId[x.of]} ELSE {traceId[x.of], NoTrace}

\* "X-Trace-Id: the trace id the server returns, which the front end carries
\* when it reports an error" (docs/API.md:50-55, trace.py:3-4): every response
\* carries the id of its request, that of a failed request too.
EveryAnswerIsTraced == \A a \in answers : a.trace = traceId[a.of]
=============================================================================
