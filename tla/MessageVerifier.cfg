CONSTANTS
    p1 = p1
    p2 = p2
    bad = bad
    d1 = d1
    d2 = d2
    k1 = k1
    Nil = Nil
    Err = Err
    PeerIDs <- MCPeerIDs
    BadFrom = bad
    Datas <- MCDatas
    TopicDatas <- MCTopicDatas
    KeyValues <- MCKeyValues
    Marshaller = "proto"
    MaxBatch = 2

SPECIFICATION Spec

INVARIANTS
    NoNilDereference
    RoundTripPreserves
    CorruptBatchRejected
    VerifyMatchesPubsubSigning
