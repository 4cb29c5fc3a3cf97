----------------------------- MODULE MC_Sharder -----------------------------
EXTENDS Sharder

CONSTANTS self, v1, v2, v3, o1, u1

MCPeers == {v1, v2, v3, o1, u1}

\* v1, v2 validators of the node's shard, v3 of another shard, o1 an
\* observer of the node's shard, u1 unresolved.
MCPeerInfo ==
    [p \in MCPeers |->
        CASE p \in {v1, v2} -> [PeerType |-> "ValidatorPeer", ShardID |-> 0]
          [] p = v3         -> [PeerType |-> "ValidatorPeer", ShardID |-> 1]
          [] p = o1         -> [PeerType |-> "ObserverPeer", ShardID |-> 0]
          [] OTHER          -> [PeerType |-> "UnknownPeer", ShardID |-> 0]]

MCSharding ==
    [Type |-> "ListsSharder", TargetPeerCount |-> 4,
     MaxIntraShardValidators |-> 1, MaxCrossShardValidators |-> 1,
     MaxIntraShardObservers |-> 0, MaxCrossShardObservers |-> 0,
     MaxSeeders |-> 1]

=============================================================================
