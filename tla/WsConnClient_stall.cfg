\* Three goroutines, one dial; the peer may stop reading.
CONSTANTS
    p1 = p1
    p2 = p2
    p3 = p3
    Procs <- MCProcs
    NoProc = NoProc
    MaxDials = 1
    CloseCanFail = FALSE
    PeerCanStall = TRUE
SPECIFICATION FairSpec
PROPERTY CloseReturns
