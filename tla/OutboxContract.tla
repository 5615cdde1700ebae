--------------------------- MODULE OutboxContract ---------------------------
(***************************************************************************)
(* What the transactional outbox promises to the rest of the shop, with    *)
(* the relay, the database and the retry bookkeeping abstracted away.      *)
(*                                                                         *)
(* An event is owed to the broker from the instant the business            *)
(* transaction that produced it commits.  It reaches the broker zero, one  *)
(* or several times while it is owed, and is settled exactly once: as      *)
(* "delivered", which needs at least one arrival, or as "dead", which      *)
(* hands it to an operator.                                                *)
(***************************************************************************)
CONSTANT Events

VARIABLES
    fate,       \* fate[e]: "none", "pending", "delivered" or "dead"
    arrived     \* events of which the broker holds at least one copy

cvars == <<fate, arrived>>

Fates == {"none", "pending", "delivered", "dead"}

CInit ==
    /\ fate = [e \in Events |-> "none"]
    /\ arrived = {}

\* The business transaction that produced e commits.
Register(e) ==
    /\ fate[e] = "none"
    /\ fate' = [fate EXCEPT ![e] = "pending"]
    /\ UNCHANGED arrived

\* A copy of e reaches the broker; a repetition leaves the set unchanged.
Arrive(e) ==
    /\ fate[e] = "pending"
    /\ arrived' = arrived \union {e}
    /\ UNCHANGED fate

\* One commit of the relay settles every event of a batch.
Settle(done, lost) ==
    /\ \A e \in done \union lost : fate[e] = "pending"
    /\ done \subseteq arrived
    /\ fate' = [e \in Events |-> IF e \in done THEN "delivered"
                                 ELSE IF e \in lost THEN "dead" ELSE fate[e]]
    /\ UNCHANGED arrived

CNext ==
    \/ \E e \in Events : Register(e) \/ Arrive(e)
    \/ \E done, lost \in SUBSET Events : Settle(done, lost)

CSpec == CInit /\ [][CNext]_cvars
=============================================================================
