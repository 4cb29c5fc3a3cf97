------------------------------- MODULE Sharder -------------------------------
(***************************************************************************)
(* The Sharder chosen by networksharding/factory/sharderFactory.go and the  *)
(* host's connection management around it (spec 4.1, 4.3 item 4, 5).      *)
(*                                                                         *)
(* NewSharder picks one of three variants from the configuration and hands *)
(* it its settings.  Peers connect; the connection manager, asynchronously,  *)
(* asks the Sharder for the peers to evict from the connected set and      *)
(* disconnects them.  Seeders can be replaced and the peer shard resolver  *)
(* swapped (the unknown resolver of unknownPeerShardResolver.go until the  *)
(* node sets the real one).  The variants' sources are not in the          *)
(* repository: ComputeEvictionList follows the spec, and lets the Sharder  *)
(* choose any eviction list the spec allows.                               *)
(***************************************************************************)
EXTENDS Integers, FiniteSets

CONSTANTS
    Peers,          \* peers that may connect
    Self,           \* the node's own peer ID
    Preferred,      \* the PreferredPeersHolder's peers
    SeederAddrs,    \* peers that SetSeeders may name
    PeerInfo,       \* the real resolver: peer -> [PeerType, ShardID]
    SelfShard,      \* the node's own shard
    Sharding        \* P2pConfig.Sharding: the quotas (every Type is explored)

ASSUME /\ Self \notin Peers
       /\ Preferred \subseteq Peers /\ SeederAddrs \subseteq Peers

-----------------------------------------------------------------------------
(* unknownPeerShardResolver.GetPeerInfo: every peer is unknown, shard 0.    *)
UnknownPeerInfo(p) == [PeerType |-> "UnknownPeer", ShardID |-> 0]

(* The factory.  A sharder is a record of its variant and the settings the *)
(* factory passes it; an error is a record holding the error.            *)

\* listSharder hands NewListsSharder the whole P2pConfig (after a Debug log).
listSharder(cfg) == [kind |-> "ListsSharder", config |-> cfg]

oneListSharder(cfg) ==
    [kind |-> "OneListSharder", target |-> cfg.TargetPeerCount]

nilListSharder == [kind |-> "NilListSharder"]

\* Mutant: the NilListSharder case is missing from the switch.
NewSharderNoNilCase(cfg, loggerOK) ==
    IF ~loggerOK THEN [err |-> "ErrNilLogger"]
    ELSE CASE cfg.Type = "ListsSharder"   -> listSharder(cfg)
           [] cfg.Type = "OneListSharder" -> oneListSharder(cfg)
           [] OTHER                       -> [err |-> "ErrInvalidValue"]

NewSharder(cfg, loggerOK) ==
    IF ~loggerOK THEN [err |-> "ErrNilLogger"]
    ELSE CASE cfg.Type = "ListsSharder"   -> listSharder(cfg)
           [] cfg.Type = "OneListSharder" -> oneListSharder(cfg)
           [] cfg.Type = "NilListSharder" -> nilListSharder
           [] OTHER                       -> [err |-> "ErrInvalidValue"]

SharderTypes == {"ListsSharder", "OneListSharder", "NilListSharder"}

-----------------------------------------------------------------------------
VARIABLES
    sharder,    \* the instance NewSharder returned
    resolver,   \* "unknown" or "real"
    seeders,    \* the seeder set
    connected   \* the host's connected peers

vars == <<sharder, resolver, seeders, connected>>

Info(p) == IF resolver = "unknown" THEN UnknownPeerInfo(p) ELSE PeerInfo[p]

\* The ListsSharder's six buckets.
Buckets == {"intraV", "crossV", "intraO", "crossO", "seeder", "unknown"}

BucketOf(p) ==
    LET i == Info(p) IN
    CASE p \in seeders                                             -> "seeder"
      [] i.PeerType = "ValidatorPeer" /\ i.ShardID = SelfShard      -> "intraV"
      [] i.PeerType = "ValidatorPeer"                               -> "crossV"
      [] i.PeerType = "ObserverPeer" /\ i.ShardID = SelfShard       -> "intraO"
      [] i.PeerType = "ObserverPeer"                                -> "crossO"
      [] OTHER                                                      -> "unknown"

Members(b, conn) == {p \in conn : BucketOf(p) = b}

\* Preferred peers and seeders are counted but never chosen.
Evictable(b, conn) == Members(b, conn) \ (Preferred \cup seeders)

Excess(n, quota) == IF n > quota THEN n - quota ELSE 0

Least(a, b) == IF a < b THEN a ELSE b

\* NewListsSharder's quota per bucket: the five configured maxima, and for
\* unknown peers what remains of TargetPeerCount.
ListsQuota(cfg) ==
    [intraV |-> cfg.MaxIntraShardValidators,
     crossV |-> cfg.MaxCrossShardValidators,
     intraO |-> cfg.MaxIntraShardObservers,
     crossO |-> cfg.MaxCrossShardObservers,
     seeder |-> cfg.MaxSeeders,
     unknown |-> cfg.TargetPeerCount
                 - cfg.MaxIntraShardValidators - cfg.MaxCrossShardValidators
                 - cfg.MaxIntraShardObservers - cfg.MaxCrossShardObservers
                 - cfg.MaxSeeders]

\* Every eviction list the variant may return for the connected snapshot.
ComputeEvictionList(conn) ==
    IF sharder.kind = "ListsSharder"
    THEN {E \in SUBSET conn :
            \A b \in Buckets :
               /\ E \cap Members(b, conn) \subseteq Evictable(b, conn)
               /\ Cardinality(E \cap Members(b, conn)) =
                    Least(Excess(Cardinality(Members(b, conn)),
                                 ListsQuota(sharder.config)[b]),
                          Cardinality(Evictable(b, conn)))}
    ELSE IF sharder.kind = "OneListSharder"
    THEN {E \in SUBSET (conn \ {Self}) :
            Cardinality(E) = Least(Excess(Cardinality(conn), sharder.target),
                                   Cardinality(conn \ {Self}))}
    ELSE {{}}       \* NilListSharder

-----------------------------------------------------------------------------
Init ==
    /\ \E t \in SharderTypes :
          sharder = NewSharder([Sharding EXCEPT !.Type = t], TRUE)
    /\ resolver = "unknown"
    /\ seeders = {}
    /\ connected = {}

\* The host accepts a connection.
Accept(p) ==
    /\ p \notin connected
    /\ connected' = connected \cup {p}
    /\ UNCHANGED <<sharder, resolver, seeders>>

\* The remote peer closes its connection.
PeerDisconnects(p) ==
    /\ p \in connected
    /\ connected' = connected \ {p}
    /\ UNCHANGED <<sharder, resolver, seeders>>

\* The connection manager computes the eviction list of the connected
\* snapshot and disconnects it, under the write lock.
EvictOverQuota ==
    /\ \E E \in ComputeEvictionList(connected) :
          /\ E # {}
          /\ connected' = connected \ E
    /\ UNCHANGED <<sharder, resolver, seeders>>

SetSeeders(s) ==
    /\ seeders' = s
    /\ UNCHANGED <<sharder, resolver, connected>>

\* The node installs the real resolver; SetPeerShardResolver(nil) fails for
\* the lists and one-list variants and changes nothing.
SetPeerShardResolver ==
    /\ resolver = "unknown"
    /\ resolver' = "real"
    /\ UNCHANGED <<sharder, seeders, connected>>

Next ==
    \/ \E p \in Peers : Accept(p) \/ PeerDisconnects(p)
    \/ EvictOverQuota
    \/ \E s \in SUBSET SeederAddrs : SetSeeders(s)
    \/ SetPeerShardResolver

\* The manager reacts to every accepted connection (spec 4.3 item 4).
Spec == Init /\ [][Next]_vars /\ WF_vars(EvictOverQuota)

-----------------------------------------------------------------------------
(* Properties                                                              *)

Sharders ==
    [kind : {"ListsSharder"}, config : {[Sharding EXCEPT !.Type = "ListsSharder"]}]
    \cup [kind : {"OneListSharder"}, target : Nat]
    \cup {nilListSharder}

TypeOK ==
    /\ sharder \in Sharders
    /\ resolver \in {"unknown", "real"}
    /\ seeders \subseteq SeederAddrs
    /\ connected \subseteq Peers

=============================================================================
