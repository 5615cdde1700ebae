----------------------------- MODULE MCPayment -----------------------------
(***************************************************************************)
(* Small instances of Payment: every refund is for the order Bought and    *)
(* for the same sum, so requests, dispatchers and refund numbers are       *)
(* interchangeable.                                                        *)
(***************************************************************************)
EXTENDS Payment, TLC

CONSTANTS Bought, RefundEach

AllOfBought == [n \in RefundNos |-> Bought]
EachTheSame == [n \in RefundNos |-> RefundEach]

Symmetry == Permutations(Requests) \union Permutations(Dispatchers)
                \union Permutations(RefundNos)
=============================================================================
