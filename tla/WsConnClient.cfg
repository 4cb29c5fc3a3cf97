\* Three goroutines, three dials, conn.Close() may fail, a peer may stop reading.
CONSTANTS
    p1 = p1
    p2 = p2
    p3 = p3
    Procs <- MCProcs
    NoProc = NoProc
    MaxDials = 3
    CloseCanFail = TRUE
    PeerCanStall = TRUE
SYMMETRY ProcSymmetry
SPECIFICATION Spec
INVARIANT NoNilConnUse
INVARIANT WritersSerialized
INVARIANT InFlightOnCurrentConn
INVARIANT NoLeakedConnection
PROPERTY ImplementsAbstract
