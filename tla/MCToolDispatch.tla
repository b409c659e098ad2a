--------------------------- MODULE MCToolDispatch ---------------------------
(* ToolDispatch on small instances. *)
EXTENDS ToolDispatch, TLC

CONSTANTS a, b, c, g1, g2
ThreeCalls == {a, b, c}
TwoCalls == {a, b}
TwoGrants == {g1, g2}
OneGrant == {g1}
Symmetric == Permutations(Calls) \cup Permutations(Grants)
=============================================================================
