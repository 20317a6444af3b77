--------------------------- MODULE MCProcessPool ---------------------------
(***************************************************************************)
(* Small instances of ProcessPool.                                         *)
(***************************************************************************)
EXTENDS ProcessPool

\* A 2 x 3 matrix to multiply by a 3 x 3 one, with no cell 0 in the product, or to transpose.
SixWords == <<3, -1, 4, 1, -5, 9>>
NineWords == <<2, 7, 1, 8, -2, 8, 1, 8, 2>>

=============================================================================
