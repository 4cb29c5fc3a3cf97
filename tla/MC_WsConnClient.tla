--------------------------- MODULE MC_WsConnClient ---------------------------
(* Instantiates WsConnClient for TLC: three goroutines share one wrapper.  *)
EXTENDS WsConnClient, TLC

CONSTANTS p1, p2, p3

MCProcs == {p1, p2, p3}

\* The goroutines are interchangeable.
ProcSymmetry == Permutations(MCProcs)
=============================================================================
