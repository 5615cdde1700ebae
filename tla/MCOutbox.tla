------------------------------ MODULE MCOutbox ------------------------------
(***************************************************************************)
(* Small instances of Outbox.  Time is in units of BACKOFF_BASE_SECONDS.   *)
(***************************************************************************)
EXTENDS Outbox

CONSTANT BackoffMax     \* BACKOFF_MAX_SECONDS in units of the base

\* next_retry_delay() over the failure counts a message can have.
BackoffTable ==
    [n \in 0..(MaxRetry - 1) |-> IF 2^n < BackoffMax THEN 2^n ELSE BackoffMax]
=============================================================================
