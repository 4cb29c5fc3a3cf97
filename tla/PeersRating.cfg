\* Three peers; the rating range is scaled from [-100, 100] to [-10, 10]
\* with the steps of the tests (increase 2, decrease 1), so clamping at
\* both ends and both migrations are reached.
CONSTANTS
    a = a
    b = b
    c = c
    Peers <- MCPeers
    MinRating <- MCMinRating
    MaxRating = 10
    DefaultRating = 0
    IncreaseStep = 2
    DecreaseStep = 1
    MaxCount = 3
SYMMETRY PeerSymmetry
SPECIFICATION Spec
INVARIANT TypeOK
