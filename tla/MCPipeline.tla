----------------------------- MODULE MCPipeline -----------------------------
(***************************************************************************)
(* A small instance of Pipeline; the constants are given in the .cfg file. *)
(***************************************************************************)
EXTENDS Pipeline
=============================================================================
