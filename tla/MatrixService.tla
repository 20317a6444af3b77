--------------------------- MODULE MatrixService ---------------------------
(***************************************************************************)
(* What the client program promises the user at its menus, with no server, *)
(* connection or worker in sight: a user who filled the matrices asks for  *)
(* an operation and is shown its result, every time, unless the program is *)
(* left, or killed, before that.                                           *)
(***************************************************************************)
EXTENDS Matrices

CONSTANT Shapes

VARIABLES
  matrices, \* <<rowsA, columnsA, columnsB>> of the matrices filled last
  asked,    \* the operation being served (1, 2 or 4), or 0
  answer,   \* the answer shown last
  left      \* the user has left

state == <<matrices, asked, answer, left>>

ResultOf(o, s) ==
  LET a == [i \in 1 .. (s[1] * s[2]) |-> i]
      b == [i \in 1 .. (s[2] * s[3]) |-> s[1] * s[2] + i]
  IN  CASE o = 1 -> Product(s[1], s[2], s[3], a, b)
        [] o = 2 -> Transposed(s[1], s[2], a)
        [] o = 4 -> Average(s[1], s[2], a)

Init ==
  /\ matrices = <<0, 0, 0>> /\ asked = 0 /\ answer = << >> /\ left = FALSE

FillIn ==
  /\ asked = 0 /\ ~ left
  /\ matrices' \in Shapes
  /\ UNCHANGED <<asked, answer, left>>

Ask ==
  /\ asked = 0 /\ ~ left
  /\ \A i \in 1 .. 3 : matrices[i] # 0
  /\ asked' \in {1, 2, 4}
  /\ UNCHANGED <<matrices, answer, left>>

Answer ==
  /\ asked # 0 /\ ~ left
  /\ answer' = ResultOf(asked, matrices)
  /\ asked' = 0
  /\ UNCHANGED <<matrices, left>>

Leave ==
  /\ ~ left
  /\ left' = TRUE
  /\ asked' = 0
  /\ UNCHANGED <<matrices, answer>>

Next == FillIn \/ Ask \/ Answer \/ Leave

Spec == Init /\ [][Next]_state /\ WF_state(Answer)

=============================================================================
