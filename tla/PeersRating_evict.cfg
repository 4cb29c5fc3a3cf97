\* Spec section 3's "never left unset once touched" against cache eviction.
CONSTANTS
    a = a
    b = b
    c = c
    Peers <- MCPeers
    MinRating <- MCMinRating
    MaxRating = 10
    DefaultRating = 0
    IncreaseStep = 2
    DecreaseStep = 1
    MaxCount = 3
SYMMETRY PeerSymmetry
SPECIFICATION Spec
INVARIANT TouchedNeverUnset
