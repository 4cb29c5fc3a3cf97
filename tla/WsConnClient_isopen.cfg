\* IsOpen after a conn.Close() that returned an error.
CONSTANTS
    p1 = p1
    p2 = p2
    p3 = p3
    Procs <- MCProcs
    NoProc = NoProc
    MaxDials = 3
    CloseCanFail = TRUE
    PeerCanStall = FALSE
SYMMETRY ProcSymmetry
SPECIFICATION Spec
INVARIANT IsOpenOnlyWhenOpen
