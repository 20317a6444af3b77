----------------------------- MODULE MCSession -----------------------------
(***************************************************************************)
(* Small instances of Session.  A shape is <<rowsA, columnsA, columnsB>>.  *)
(***************************************************************************)
EXTENDS Session

\* Not square, so that a swapped dimension or order shows; one that is empty.
SmallShapes == {<<2, 1, 2>>, <<2, 3, 1>>, <<0, 1, 1>>}

\* A of 9 words and B of 3: more than a segment, and with its dimensions more
\* than a FIFO, of the runs that use it.
WideShape == <<3, 3, 1>>
AllShapes == SmallShapes \cup {WideShape}

Working == {1, 2, 4, 6, 7}
Every == {1, 2, 3, 4, 5, 6, 7, -1}
Unserved == {2, 3, 4, 5}

=============================================================================
