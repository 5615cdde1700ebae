-------------------------------- MODULE Rows --------------------------------
(***************************************************************************)
(* The conditional updates of app/orm: update_with_version() on a row with *)
(* a version (optimistic.py), here the stock of a SKU, and                 *)
(* soft_delete_by_id() and restore_by_id() on a row with a deleted column  *)
(* (soft_delete.py).  Transactions read the snapshot of their first read;  *)
(* an UPDATE looks at the committed row, locks it, and tells the number of *)
(* rows that met its condition.                                            *)
(***************************************************************************)
EXTENDS Naturals

CONSTANTS
    Actors,         \* transactions under way; an actor has one at a time
    NoActor,
    Stock,          \* available_stock at the beginning
    MaxMarks        \* bound: deletions and restorations committed

ASSUME RowsAssumption ==
    /\ NoActor \notin Actors
    /\ Stock \in Nat
    /\ MaxMarks \in Nat

VARIABLES
    stock,      \* the committed row with a version
    removed,    \* the deleted column of the other row, 0 or 1, as committed
    actor,      \* actor[a]: what a has read and will commit
    lock,       \* lock[row]: who has updated the row and not committed
    sold,       \* committed updates of the stock whose caller was told 1
    marks       \* marks[v]: committed updates of deleted to v, told 1

rowsVars == <<stock, removed, actor, lock, sold, marks>>

Unused == [at |-> "idle"]

RowsInit ==
    /\ stock = [value |-> Stock, version |-> 0]
    /\ removed = 0
    /\ actor = [a \in Actors |-> Unused]
    /\ lock = [row \in {"stock", "master"} |-> NoActor]
    /\ sold = 0
    /\ marks = [v \in 0..1 |-> 0]

ReadStock(a) ==
    /\ actor[a] = Unused
    /\ stock.value > 0
    /\ actor' = [actor EXCEPT ![a] = [at |-> "read", seen |-> stock]]
    /\ UNCHANGED <<stock, removed, lock, sold, marks>>

\* Mutation: UPDATE ... WHERE id = ?
VersionMatches_Ignored(a) == TRUE

\* UPDATE ... WHERE id = ? AND version = ?
VersionMatches(a) == stock.version = actor[a].seen.version

\* update_with_version() takes one piece from what was read; rowcount is 1 ...
UpdateStock(a) ==
    /\ actor[a].at = "read"
    /\ lock["stock"] = NoActor
    /\ VersionMatches(a)
    /\ lock' = [lock EXCEPT !["stock"] = a]
    /\ actor' = [actor EXCEPT ![a] = [at |-> "updated", row |-> "stock",
            next |-> [value |-> actor[a].seen.value - 1, version |-> actor[a].seen.version + 1]]]
    /\ UNCHANGED <<stock, removed, sold, marks>>

\* ... or 0: the caller gives up or begins again, in a new transaction; in its
\* own it would read the same version once more.
VersionConflict(a) ==
    /\ actor[a].at = "read"
    /\ lock["stock"] = NoActor
    /\ ~VersionMatches(a)
    /\ actor' = [actor EXCEPT ![a] = Unused]
    /\ UNCHANGED <<stock, removed, lock, sold, marks>>

\* WHERE id = ? AND deleted = the other value
MarkMatches(v) == removed # v

\* soft_delete_by_id() and restore_by_id(), with rowcount 1.  A call that is
\* told 0 changes nothing.
MarkRow(a, v) ==
    /\ actor[a] = Unused
    /\ lock["master"] = NoActor
    /\ MarkMatches(v)
    /\ marks[0] + marks[1] < MaxMarks
    /\ lock' = [lock EXCEPT !["master"] = a]
    /\ actor' = [actor EXCEPT ![a] = [at |-> "updated", row |-> "master", next |-> v]]
    /\ UNCHANGED <<stock, removed, sold, marks>>

EndActor(a) ==
    /\ actor[a].at = "updated"
    /\ actor' = [actor EXCEPT ![a] = Unused]
    /\ lock' = [lock EXCEPT ![actor[a].row] = NoActor]

CommitRow(a) ==
    /\ EndActor(a)
    /\ IF actor[a].row = "stock"
       THEN /\ stock' = actor[a].next
            /\ sold' = sold + 1
            /\ UNCHANGED <<removed, marks>>
       ELSE /\ removed' = actor[a].next
            /\ marks' = [marks EXCEPT ![actor[a].next] = @ + 1]
            /\ UNCHANGED <<stock, sold>>

RollBackRow(a) ==
    /\ EndActor(a)
    /\ UNCHANGED <<stock, removed, sold, marks>>

RowsNext ==
    \E a \in Actors : \/ ReadStock(a) \/ UpdateStock(a) \/ VersionConflict(a)
                      \/ \E v \in 0..1 : MarkRow(a, v)
                      \/ CommitRow(a) \/ RollBackRow(a)

RowsSpec == RowsInit /\ [][RowsNext]_rowsVars

-----------------------------------------------------------------------------
(* Properties *)

\* Nobody is told that an update took effect when it did not: the stock has
\* lost a piece for each committed update that reported one row, and none is
\* oversold; and of callers that delete the same row at once one is told that
\* it did (optimistic.py:55-80, soft_delete.py:67-91).
RowCountsTellTheTruth ==
    /\ stock = [value |-> Stock - sold, version |-> sold]
    /\ sold <= Stock
    /\ marks[1] = marks[0] + removed
=============================================================================
