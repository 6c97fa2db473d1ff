----------------------------- MODULE MatrixWork -----------------------------
(***************************************************************************)
(* The arithmetic of hw4: how one matrix multiplication is cut into works, *)
(* how an entry index names a row and a column, and what one entry is.     *)
(*                                                                         *)
(* A matrix of side n is a function 0..n-1 -> (0..n-1 -> Int), as Matrix   *)
(* of tpool.h is; its entries are numbered row by row from 0 to n*n-1.     *)
(***************************************************************************)
EXTENDS Integers

(* frontend_thread_func: the number of entries, and how they are shared by *)
(* num_works works: every work gets base_size entries, and the first       *)
(* remaining_works of them one more.                                       *)
TotalEntries(n) == n * n
BaseSize(n, num) == TotalEntries(n) \div num
Remainder(n, num) == TotalEntries(n) % num
(* Mutant: the condition of the extra entry is off by one.                 *)
WorkSizeOffByOne(n, num, i) ==
    BaseSize(n, num) + (IF i <= Remainder(n, num) THEN 1 ELSE 0)

WorkSize(n, num, i) ==
    BaseSize(n, num) + (IF i < Remainder(n, num) THEN 1 ELSE 0)

(* The last entry of the i-th work, which starts at entry start; clipped,  *)
(* as the code does, to the last entry of the matrix.                      *)
WorkEnd(n, num, i, start) ==
    LET end == start + WorkSize(n, num, i) - 1
    IN  IF end >= TotalEntries(n) THEN TotalEntries(n) - 1 ELSE end

(* backend_thread_func: the coordinates of an entry.                       *)
RowOf(n, idx) == idx \div n
ColOf(n, idx) == idx % n

(* Mutant: b as it is.                                                     *)
NotTransposed(n, b) == [i \in 0..n-1 |-> [j \in 0..n-1 |-> b[i][j]]]

(* bt[i][j] = b[j][i].                                                     *)
Transposed(n, b) == [i \in 0..n-1 |-> [j \in 0..n-1 |-> b[j][i]]]

(* calculation of main.c: the inner product of two rows.                   *)
Calculation(n, u, v) ==
    LET res[i \in 0..n] == IF i = 0 THEN 0 ELSE res[i-1] + u[i-1] * v[i-1]
    IN  res[n]
=============================================================================
