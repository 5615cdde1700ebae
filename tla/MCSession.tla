----------------------------- MODULE MCSession -----------------------------
(***************************************************************************)
(* A small instance of Session; the constants are given in the .cfg file.  *)
(***************************************************************************)
EXTENDS Session
=============================================================================
