------------------------------ MODULE MCPollLoop ------------------------------
(***************************************************************************)
(* Descriptors for the model checker.                                      *)
(***************************************************************************)
EXTENDS PollLoop, TLC

CONSTANTS c1, c2
=============================================================================
