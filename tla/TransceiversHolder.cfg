CONSTANTS
    a1 = a1
    a2 = a2
    a3 = a3
    a4 = a4
    s1 = s1
    s2 = s2
    s3 = s3
    Addrs <- MCAddrs
    Senders <- MCSenders
    NoID = NoID


SYMMETRY AddrSymmetry

SPECIFICATION Spec

INVARIANTS
    TypeOK
