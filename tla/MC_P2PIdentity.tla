---------------------------- MODULE MC_P2PIdentity ----------------------------
EXTENDS P2PIdentity

CONSTANTS k1, k2, k3

\* Three keys: enough for the node's own random key and two identities.
MCSecpKeys == {k1, k2, k3}

=============================================================================
