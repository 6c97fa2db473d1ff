---------------------------- MODULE MCThreadPool ----------------------------
(***************************************************************************)
(* Small instances of ThreadPool for TLC.                                  *)
(***************************************************************************)
EXTENDS ThreadPool, FiniteSetsExt, TLC

(* Matrices of side 2 with distinguishable entries, and products that      *)
(* change when an operand is transposed.                                   *)
Square(p, q, r, s) == 0 :> (0 :> p @@ 1 :> q) @@ 1 :> (0 :> r @@ 1 :> s)

TwoA == <<Square(1, 2, 3, 5), Square(0 - 1, 4, 2, 7)>>
TwoB == <<Square(2, 0, 1, 3), Square(6, 1, 0 - 2, 5)>>

(* Side 2, so 4 entries: 3 works of 2, 1 and 1 entries, and 2 works of 2.  *)
WorksThreeTwo == <<3, 2>>
(* More works than entries, which main.c lets through.                     *)
WorksSixTwo == <<6, 2>>

(* Product, which the properties use, is the matrix product by its         *)
(* textbook definition.                                                    *)
ASSUME ProductIsMatrixProduct ==
    \A r \in Requests : \A idx \in Entries :
        Product(r, idx) =
            MapThenSumSet(LAMBDA k : a[r][idx \div N][k] * b[r][k][idx % N], 0..N-1)
=============================================================================
