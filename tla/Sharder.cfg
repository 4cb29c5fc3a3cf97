CONSTANTS
    self = self
    v1 = v1
    v2 = v2
    v3 = v3
    o1 = o1
    u1 = u1
    Peers <- MCPeers
    Self = self
    Preferred = {v2}
    SeederAddrs = {v3, u1}
    PeerInfo <- MCPeerInfo
    SelfShard = 0
    Sharding <- MCSharding

SPECIFICATION Spec

INVARIANT TypeOK
