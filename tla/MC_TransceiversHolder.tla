------------------------ MODULE MC_TransceiversHolder ------------------------
EXTENDS TransceiversHolder, TLC

CONSTANTS a1, a2, a3, a4, s1, s2, s3

MCAddrs == {a1, a2, a3, a4}
MCSenders == {s1, s2, s3}

\* Addresses are interchangeable: only equality of IDs matters.
AddrSymmetry == Permutations(MCAddrs) \cup Permutations(MCSenders)

=============================================================================
