-------------------------- MODULE MCServerRequests --------------------------
EXTENDS ServerRequests

CONSTANTS t1, t2, s1, s2, i1

TwoTurns   == {t1, t2}
TwoStreams == {s1, s2}
OneStream  == {s1}
OneId      == {i1}
ClientTools == {"toolset", "dispatch", "input", "notify"}
RendersAll == [s \in Streams |-> {"RequestToolApproval", "RequestUserInput", "RevealPath"}]
RendersOne ==
    [s \in Streams |-> IF s = s1 THEN {"RequestToolApproval"} ELSE {"RequestUserInput"}]
=============================================================================
