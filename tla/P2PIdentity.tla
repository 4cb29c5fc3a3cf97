----------------------------- MODULE P2PIdentity -----------------------------
(***************************************************************************)
(* The node's p2p identity: p2p/libp2p/crypto (identityGenerator.go,       *)
(* p2pKeyConverter.go, common.go).                                         *)
(*                                                                         *)
(* A node starts with the private key bytes of its configuration: none     *)
(* gives a fresh random secp256k1 key, anything else must decode as one.   *)
(* While it runs it creates random identities to sign on behalf of others *)
(* (CreateRandomP2PIdentity), and converts between peer IDs and the public *)
(* keys of the node's own secp256k1 key generator.  It may crash and be    *)
(* restarted, and while it is down its configuration may be set to the     *)
(* bytes of a key it created, as is done to give a seeder a fixed ID.      *)
(*                                                                         *)
(* Keys are model values.  Byte strings are tagged tuples: <<"sk", k>> the *)
(* 32 raw bytes of private key k, <<"pk", k>> the 33 of its public key.     *)
(***************************************************************************)
EXTENDS Naturals, FiniteSets

CONSTANTS
    SecpKeys,       \* secp256k1 private keys the random reader may produce
    Nil

Empty == <<>>               \* emptyPrivateKeyBytes, or a nil slice
Garbage == <<"garbage">>    \* bytes that are not a secp256k1 key

IsErr(r) == "err" \in DOMAIN r

-----------------------------------------------------------------------------
(* libp2p and andes-crypto, as these files use them                        *)

SkRaw(k) == <<"sk", k>>
PubRaw(k) == <<"pk", k>>

UnmarshalSecp256k1PrivateKey(b) ==
    IF b # Empty /\ b[1] = "sk" THEN [key |-> b[2]] ELSE [err |-> "malformed private key"]

UnmarshalSecp256k1PublicKey(b) ==
    IF b[1] = "pk" THEN [key |-> b[2]] ELSE [err |-> "malformed public key"]

\* peer.IDFromPublicKey: the protobuf-marshalled secp256k1 key is 37 bytes,
\* within the 42 that are inlined with the identity multihash.
IDFromPublicKey(k) == <<"identity", PubRaw(k)>>

IDFromBytes(b) ==
    IF b # Empty /\ b[1] \in {"identity", "sha256"} THEN [id |-> b]
    ELSE [err |-> "invalid multihash"]

ExtractPublicKey(pid) ==
    IF pid[1] = "identity" THEN UnmarshalSecp256k1PublicKey(pid[2])
    ELSE [err |-> "ErrNoPublicKey"]

\* The node's secp256k1 KeyGenerator: an andes public key is its bytes.
PublicKeyFromByteArray(b) ==
    IF b[1] = "pk" THEN [bytes |-> b] ELSE [err |-> "invalid public key"]

PrivateKeyFromByteArray(b) ==
    IF b # Empty /\ b[1] = "sk" THEN [bytes |-> b] ELSE [err |-> "invalid private key"]

GeneratePublic(sk) == [bytes |-> PubRaw(sk.bytes[2])]

-----------------------------------------------------------------------------
(* identityGenerator.go                                                    *)

NewIdentityGenerator(loggerOK) ==
    IF loggerOK THEN [log |-> TRUE] ELSE [err |-> "ErrNilLogger"]

\* Mutant: bytes that do not decode fall back to a random key.
CreateP2PPrivateKeyFallback(privateKeyBytes, random) ==
    IF privateKeyBytes = Empty \/ IsErr(UnmarshalSecp256k1PrivateKey(privateKeyBytes))
    THEN random
    ELSE UnmarshalSecp256k1PrivateKey(privateKeyBytes)

\* CreateP2PPrivateKey; random is what GenerateSecp256k1Key(rand.Reader)
\* returned, a key or an error.
CreateP2PPrivateKey(privateKeyBytes, random) ==
    IF privateKeyBytes = Empty THEN random
    ELSE UnmarshalSecp256k1PrivateKey(privateKeyBytes)

\* Mutant: the returned bytes are those of the public key.
CreateRandomP2PIdentityPubBytes(random) ==
    LET sk == CreateP2PPrivateKey(Empty, random) IN
    IF IsErr(sk) THEN sk
    ELSE [skBuff |-> PubRaw(sk.key), pid |-> IDFromPublicKey(sk.key)]

CreateRandomP2PIdentity(random) ==
    LET sk == CreateP2PPrivateKey(Empty, random) IN
    IF IsErr(sk) THEN sk
    ELSE [skBuff |-> SkRaw(sk.key), pid |-> IDFromPublicKey(sk.key)]

-----------------------------------------------------------------------------
(* p2pKeyConverter.go and common.go                                        *)

ConvertPeerIDToPublicKey(pid) ==
    LET id == IDFromBytes(pid) IN
    IF IsErr(id) THEN id
    ELSE LET pubk == ExtractPublicKey(id.id) IN
         IF IsErr(pubk) THEN [err |-> "cannot extract signing key"]
         ELSE PublicKeyFromByteArray(PubRaw(pubk.key))

ConvertPublicKeyToPeerID(pk) ==
    IF pk = Nil THEN [err |-> "ErrNilPublicKey"]
    ELSE LET libp2pPk == UnmarshalSecp256k1PublicKey(pk.bytes) IN
         IF IsErr(libp2pPk) THEN libp2pPk
         ELSE [pid |-> IDFromPublicKey(libp2pPk.key)]

ConvertPrivateKeyToLibp2pPrivateKey(privateKey) ==
    IF privateKey = Nil THEN [err |-> "ErrNilPrivateKey"]
    ELSE UnmarshalSecp256k1PrivateKey(privateKey.bytes)

-----------------------------------------------------------------------------
VARIABLES
    config,     \* the private key bytes the node is configured with
    running,    \* whether the node runs
    bootError,  \* whether the last start failed in CreateP2PPrivateKey
    nodeKey,    \* the node's secp256k1 key while it runs, or Nil
    nodePid,    \* its peer ID, or Nil
    identities, \* the identities CreateRandomP2PIdentity returned
    drawn       \* keys the random reader has produced

vars == <<config, running, bootError, nodeKey, nodePid, identities, drawn>>

\* GenerateSecp256k1Key(rand.Reader): a key not produced before, or an error.
Randoms == {[key |-> k] : k \in SecpKeys \ drawn} \cup {[err |-> "rand"]}

Drawn(r) == IF IsErr(r) THEN drawn ELSE drawn \cup {r.key}

Init ==
    /\ config \in {Empty, Garbage}
    /\ running = FALSE /\ bootError = FALSE
    /\ nodeKey = Nil /\ nodePid = Nil
    /\ identities = {} /\ drawn = {}

\* The node starts: NewIdentityGenerator, then CreateP2PPrivateKey of its
\* configured bytes; an error stops the start.
Start ==
    /\ ~running
    /\ ~IsErr(NewIdentityGenerator(TRUE))
    /\ \E r \in Randoms :
          LET sk == CreateP2PPrivateKey(config, r) IN
          /\ drawn' = IF config = Empty THEN Drawn(r) ELSE drawn
          /\ IF IsErr(sk)
             THEN /\ bootError' = TRUE
                  /\ UNCHANGED <<running, nodeKey, nodePid>>
             ELSE /\ running' = TRUE /\ bootError' = FALSE
                  /\ nodeKey' = sk.key
                  /\ nodePid' = IDFromPublicKey(sk.key)
    /\ UNCHANGED <<config, identities>>

\* The process stops; only its configuration and the key bytes handed out
\* survive.
Crash ==
    /\ running
    /\ running' = FALSE /\ nodeKey' = Nil /\ nodePid' = Nil
    /\ UNCHANGED <<config, bootError, identities, drawn>>

\* CreateRandomP2PIdentity, to sign on behalf of another identity; the
\* caller keeps the key bytes and the peer ID.
NewIdentity ==
    /\ running
    /\ \E r \in Randoms :
          LET res == CreateRandomP2PIdentity(r) IN
          /\ drawn' = Drawn(r)
          /\ identities' = IF IsErr(res) THEN identities ELSE identities \cup {res}
    /\ UNCHANGED <<config, running, bootError, nodeKey, nodePid>>

\* While the node is down its configuration is changed: cleared, set to
\* bytes that are not a key, or to the key bytes of an identity it created.
Configure ==
    /\ ~running
    /\ \E b \in {Empty, Garbage} \cup {i.skBuff : i \in identities} :
          /\ b # config
          /\ config' = b
    /\ UNCHANGED <<running, bootError, nodeKey, nodePid, identities, drawn>>

Next == Start \/ Crash \/ NewIdentity \/ Configure

Spec == Init /\ [][Next]_vars

-----------------------------------------------------------------------------
(* Properties                                                              *)

TypeOK ==
    /\ running \in BOOLEAN /\ bootError \in BOOLEAN
    /\ nodeKey \in SecpKeys \cup {Nil}
    /\ drawn \subseteq SecpKeys
    /\ running <=> nodeKey # Nil
    /\ identities \subseteq [skBuff : {SkRaw(k) : k \in SecpKeys},
                             pid : {<<"identity", PubRaw(k)>> : k \in SecpKeys}]

\* A running node's identity is the one its configuration encodes: bytes
\* that are not a secp256k1 key never start the node, and a node restarted
\* with the key bytes of an identity it created runs under that identity's
\* peer ID, however often it crashes and is reconfigured.
IdentityFollowsConfig ==
    running =>
        /\ config = Empty \/ \E k \in SecpKeys : config = SkRaw(k)
        /\ \A i \in identities : config = i.skBuff => nodePid = i.pid

\* The conversions agree on every identity the node created and on its own:
\* the key bytes load with the node's key generator, its public key converts
\* to the peer ID that came with them, the peer ID converts back to that
\* public key, and common.go's conversion gives the libp2p key of that ID.
RoundTrip(skBuff, pid) ==
    LET sk == PrivateKeyFromByteArray(skBuff) IN
    /\ ~IsErr(sk)
    /\ LET toPid == ConvertPublicKeyToPeerID(GeneratePublic(sk))
           toPk == ConvertPeerIDToPublicKey(pid)
           libp2pSk == ConvertPrivateKeyToLibp2pPrivateKey(sk)
       IN /\ ~IsErr(toPid) /\ toPid.pid = pid
          /\ toPk = GeneratePublic(sk)
          /\ ~IsErr(libp2pSk) /\ IDFromPublicKey(libp2pSk.key) = pid

ConversionsAgree ==
    /\ \A i \in identities : RoundTrip(i.skBuff, i.pid)
    /\ running => RoundTrip(SkRaw(nodeKey), nodePid)

=============================================================================
