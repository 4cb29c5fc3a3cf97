---------------------------- MODULE MC_PeersRating ----------------------------
(* Instantiates PeersRating for TLC with three peers.                      *)
EXTENDS PeersRating, TLC

CONSTANTS a, b, c

MCPeers == {a, b, c}

\* The cfg syntax has no negative literals.
MCMinRating == -10

PeerSymmetry == Permutations(MCPeers)
=============================================================================
