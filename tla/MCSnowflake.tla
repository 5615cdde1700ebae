---------------------------- MODULE MCSnowflake ----------------------------
(***************************************************************************)
(* Small instances of Snowflake: the threads t1 and t2 belong to p1, the   *)
(* others to p2.  The processes have worker ids of their own, or both the  *)
(* one that resolve_worker_id() derives from the host they share.          *)
(***************************************************************************)
EXTENDS Snowflake, TLC

CONSTANTS p1, p2, t1, t2

Placed == [t \in Threads |-> IF t \in {t1, t2} THEN p1 ELSE p2]
OwnWorker == [p \in Processes |-> IF p = p1 THEN 0 ELSE 1]
OfTheHost == [p \in Processes |-> 1]

Symmetry == Permutations({t1, t2})
=============================================================================
