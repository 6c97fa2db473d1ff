--------------------------- MODULE FriendService ---------------------------
(***************************************************************************)
(* What hw2 promises Not_Tako: a tree of friends that the commands change, *)
(* each in one step, and what is printed for each command.                 *)
(*                                                                         *)
(* The processes, the pipes and the fifo of FriendTree do not appear here; *)
(* FriendTree is shown to implement this specification.                    *)
(***************************************************************************)
EXTENDS Integers, FiniteSets, SequencesExt

CONSTANTS
    Friends,        \* the names, without Not_Tako
    NotTako,        \* the root of the tree
    FirstValue      \* the value that a friend is met with

VARIABLES
    tree,           \* of each friend, its value and its children in order
    told            \* what the last command has printed

svars == <<tree, told>>

Known == DOMAIN tree
NoTree == [n \in {} |-> {}]

Init ==
    /\ tree = [n \in {NotTako} |-> [value |-> 100, kids |-> <<>>]]
    /\ told = <<>>

-----------------------------------------------------------------------------
(* The friends of a tree by level, and the subtree under one of them.      *)

NextRow(t, row) == FlattenSeq([i \in DOMAIN row |-> t[row[i]].kids])

Rows(t, x) ==
    LET row[i \in Nat] == IF i = 0 THEN <<x>> ELSE NextRow(t, row[i - 1])
        all == [i \in 1..Cardinality(DOMAIN t) |-> row[i - 1]]
    IN  SelectSeq(all, LAMBDA r : r # <<>>)

(* The least set of friends with x in it and, with a friend, its children. *)
Subtree(t, x) ==
    {n \in DOMAIN t :
        \A S \in SUBSET DOMAIN t :
            x \in S /\ (\A m \in S : ToSet(t[m].kids) \subseteq S) => n \in S}

(* What collect has to print of x: each level on a line of its own, from   *)
(* left to right.                                                          *)
Listing(t, x) ==
    LET Info(n) == [name |-> n, value |-> t[n].value]
    IN  [i \in DOMAIN Rows(t, x) |->
            [j \in DOMAIN Rows(t, x)[i] |-> Info(Rows(t, x)[i][j])]]

Without(t, x) ==
    [n \in DOMAIN t |->
        [t[n] EXCEPT !.kids = SelectSeq(@, LAMBDA k : k # x)]]

-----------------------------------------------------------------------------
Meet(p, c) ==
    IF p \in Known
    THEN /\ tree' = [n \in Known \cup {c} |->
                        CASE n = c -> [value |-> FirstValue[c], kids |-> <<>>]
                          [] n = p -> [tree[p] EXCEPT !.kids = Append(@, c)]
                          [] OTHER -> tree[n]]
         /\ told' = << <<"met", p, c>> >>
    ELSE /\ UNCHANGED tree
         /\ told' = << <<"does not know", p, c>> >>

Check(x) ==
    /\ UNCHANGED tree
    /\ told' = IF x \in Known THEN << <<"listing", Listing(tree, x)>> >>
                              ELSE << <<"doesn't know", x>> >>

(* A friend who graduates leaves with all of its subtree.                  *)
Graduate(x) ==
    LET gone == Subtree(tree, x)
    IN  CASE x \notin Known -> Check(x)
          [] x = NotTako ->
                /\ tree' = NoTree
                /\ told' = << <<"listing", Listing(tree, x)>>, <<"finished">> >>
          [] OTHER ->
                /\ tree' = [n \in Known \ gone |-> Without(tree, x)[n]]
                /\ told' = << <<"listing", Listing(tree, x)>> >>

(* The subtree of c becomes the last one of p, its values modulo the value *)
(* of p.                                                                   *)
Adopt(p, c) ==
    LET moved == Subtree(tree, c)
        rest == Without(tree, c)
    IN  IF p \notin Known \ moved
        THEN /\ UNCHANGED tree
             /\ told' = << <<"descendant", p, c>> >>
        ELSE /\ tree' = [n \in Known |->
                    CASE n = p -> [rest[p] EXCEPT !.kids = Append(@, c)]
                      [] n \in moved -> [rest[n] EXCEPT !.value = @ % tree[p].value]
                      [] OTHER -> rest[n]]
             /\ told' = << <<"adopted", p, c>> >>

(* The end of the commands.                                                *)
Stop ==
    /\ tree' = NoTree
    /\ UNCHANGED told

Next ==
    \/ NotTako \in Known /\
          \/ \E p \in Friends \cup {NotTako}, c \in Friends \ Known : Meet(p, c)
          \/ \E x \in Friends \cup {NotTako} : Check(x)
          \/ \E x \in Friends \cup {NotTako} : Graduate(x)
          \/ \E p \in Friends \cup {NotTako}, c \in Known :
                p # c /\ (p \in Known => tree[p].value # 0) /\ Adopt(p, c)
          \/ Stop

Spec == Init /\ [][Next]_svars
=============================================================================
