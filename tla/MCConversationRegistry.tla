----------------------- MODULE MCConversationRegistry -----------------------
(* ConversationRegistry on small instances. *)
EXTENDS ConversationRegistry, TLC

CONSTANTS c1, c2, r1, r2, r3, r4
OneId == {c1}
TwoIds == {c1, c2}
FourRequests == {r1, r2, r3, r4}
ThreeRequests == {r1, r2, r3}
Symmetric == Permutations(Ids) \cup Permutations(Requests)
=============================================================================
