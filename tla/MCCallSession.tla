---------------------------- MODULE MCCallSession ----------------------------
(* Instances of CallSession for TLC. *)
EXTENDS CallSession
CONSTANTS c1, c2, a1, a2
OneCall == {c1}
TwoCalls == {c1, c2}
OneAwaiter == {a1}
TwoAwaiters == {a1, a2}
OneFrame == [c \in Calls |-> 1]
FirstHasOne == [c \in Calls |-> IF c = c1 THEN 1 ELSE 0]
PodKinds == {"text", "image", "done", "canceled"}
OneOfEach == {<<c1, "toolset", TRUE>>, <<c1, "runtime", FALSE>>, <<c2, "turn", TRUE>>}
=============================================================================
