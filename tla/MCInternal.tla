----------------------------- MODULE MCInternal -----------------------------
(***************************************************************************)
(* The internal queries alone, with an order that is sent in two parcels.  *)
(***************************************************************************)
EXTENDS Internal
=============================================================================
