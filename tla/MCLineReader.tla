----------------------------- MODULE MCLineReader -----------------------------
(***************************************************************************)
(* Bytes for the model checker.                                            *)
(***************************************************************************)
EXTENDS LineReader

CONSTANTS a, b
=============================================================================
