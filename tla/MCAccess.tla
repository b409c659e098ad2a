------------------------------ MODULE MCAccess ------------------------------
(* Access on small instances. *)
EXTENDS Access, TLC

CONSTANTS x1, x2, h1, k1, m1, m2, i1, i2, s1
TwoSubjects == {x1, x2}
OneHandle == {h1}
OneConv == {k1}
TwoCms == {m1, m2}
TwoCalls == {i1, i2}
OneCall == {i1}
\* x1 holds the handle, x2 has none.
OneHolds == (m1 :> [subject |-> x1, handle |-> h1]) @@ (m2 :> [subject |-> x2, handle |-> None])
OneStream == {s1}
=============================================================================
