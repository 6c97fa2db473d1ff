---------------------------- MODULE MCFriendTree ----------------------------
(***************************************************************************)
(* Friends for the model checker. The values are chosen so that every      *)
(* adoption by another friend changes some value.                          *)
(***************************************************************************)
EXTENDS FriendTree, TLC

CONSTANTS a, b, c

Values == (a :> 10) @@ (b :> 13) @@ (c :> 25)
=============================================================================
