---------------------------- MODULE MCAgentTurn ----------------------------
(* AgentTurn on small instances. *)
EXTENDS AgentTurn

CONSTANTS c1, c2
OneConversation == {c1}
TwoConversations == {c1, c2}
ToolOrTruncated == {"tool", "max"}
============================================================================
