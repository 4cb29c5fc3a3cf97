------------------------- MODULE MC_MessageVerifier -------------------------
EXTENDS MessageVerifier

CONSTANTS p1, p2, bad, d1, d2, k1

MCPeerIDs == {p1, p2}
MCDatas == {d1, d2}
MCTopicDatas == {d1}        \* d2 is not a valid topic message
MCKeyValues == {k1}

=============================================================================
