------------------------------ MODULE Matrices ------------------------------
(***************************************************************************)
(* The three operations of the system on matrices stored row by row in one *)
(* array, as the workers compute them: struct Matrix of every C file is    *)
(* {rows, columns, arr}; here arr is the sequence m of its words, and      *)
(* arr[i] is m[i + 1].  The words are small integers (the clients fill     *)
(* their matrices with 1 .. 100), so no 32-bit sum overflows at the sizes  *)
(* the runs use.                                                           *)
(***************************************************************************)
EXTENDS Integers, Sequences, FiniteSetsExt

Smaller(a, b) == IF a <= b THEN a ELSE b

Magnitude(n) == IF n < 0 THEN -n ELSE n

\* What is left in a calloc'ed array of n words after a read() that brought
\* the words s: the words, and zeros.
Padded(s, n) == [i \in 1 .. n |-> IF i <= Len(s) THEN s[i] ELSE 0]

\* One cell of A * B, for A with cA columns and B with cB.
Cell(cA, cB, a, b, row, column) ==
  MapThenSumSet(LAMBDA k : a[row * cA + k] * b[(k - 1) * cB + column + 1], 1 .. cA)

\* A * B for A of rA x cA and B of cA x cB.  A dimension is negative only in a
\* session whose stream is out of step; the C division truncates towards 0.
Product(rA, cA, cB, a, b) ==
  [i \in 1 .. (rA * cB) |->
     Cell(cA, cB, a, b, (i - 1) \div Magnitude(cB), (i - 1) % Magnitude(cB))]

\* The word the transposition task stores at outputIndex = column * rows + row.
Transposed(r, c, m) ==
  [o \in 1 .. (r * c) |->
     LET column == (o - 1) \div Magnitude(r)
         row    == (o - 1) % Magnitude(r)
     IN  m[row * Magnitude(c) + column + 1]]

\* The average as it travels: the two words of a double.  The zero bytes of
\* 0.0 are two zero words; any other average stands as its sum and count.
Average(r, c, m) ==
  IF r * c = 0 THEN <<0, 0>>
  ELSE <<MapThenSumSet(LAMBDA i : m[i], 1 .. (r * c)), r * c>>

=============================================================================
