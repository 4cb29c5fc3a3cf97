--------------------------- MODULE MessageVerifier ---------------------------
(***************************************************************************)
(* p2p/messageCheck/messageVerifier.go: the signature check of a p2p       *)
(* message and the batch serialization used to forward messages to        *)
(* another node, which deserializes and verifies them.                     *)
(*                                                                         *)
(* A p2p message is a record of the fields the verifier reads.  Byte       *)
(* encodings are modelled by what they carry: the protobuf encoding of a   *)
(* pubsub message is a tagged record, a batch is a tagged sequence, and    *)
(* "no bytes" is the empty sequence.  The network between the two nodes   *)
(* may corrupt one element of a batch or alter a message's data.           *)
(***************************************************************************)
EXTENDS Integers, Sequences, SequencesExt

CONSTANTS
    PeerIDs,        \* From values that decode to a peer ID
    BadFrom,        \* a From value that does not decode to a peer ID
    Datas,          \* values of the pubsub Data field (msg.Payload())
    TopicDatas,     \* those that unmarshal into a current-version
                    \* TopicMessage without Pk and Sig fields
    KeyValues,      \* non-nil values of the Key field
    Nil,            \* a nil field or a nil message
    Err,            \* the error Deserialize returns (with a nil list)
    Marshaller,     \* "proto" (gogo protobuf) or "json"
    MaxBatch        \* longest batch serialized

ASSUME /\ BadFrom \notin PeerIDs
       /\ TopicDatas \subseteq Datas
       /\ Marshaller \in {"proto", "json"}
       /\ MaxBatch \in Nat

SignPrefix == "libp2p-pubsub:"
SeqNo == "seqno"        \* one sequence number and one topic suffice:
Topic == "topic"        \* they are copied like Data

-----------------------------------------------------------------------------
(* The constructor                                                         *)

\* ArgsMessageVerifier: each dependency is an implementation or Nil (a nil
\* interface or one whose IsInterfaceNil is true, as check.IfNil tests).
ArgsMessageVerifier ==
    [Marshaller : {"marshaller", Nil}, P2PSigner : {"signer", Nil},
     Logger : {"logger", Nil}]

\* Mutant: the logger is not checked.
checkArgsNoLogger(args) ==
    IF args.Marshaller = Nil THEN "ErrNilMarshaller"
    ELSE IF args.P2PSigner = Nil THEN "ErrNilP2PSigner"
    ELSE "none"

\* checkArgs: the first nil dependency, in the order the code tests them.
checkArgs(args) ==
    IF args.Marshaller = Nil THEN "ErrNilMarshaller"
    ELSE IF args.P2PSigner = Nil THEN "ErrNilP2PSigner"
    ELSE IF args.Logger = Nil THEN "ErrNilLogger"
    ELSE "none"

\* NewMessageVerifier: the error, or a verifier holding the three
\* dependencies.
NewMessageVerifier(args) ==
    IF checkArgs(args) # "none" THEN [err |-> checkArgs(args)]
    ELSE [marshaller |-> args.Marshaller, p2pSigner |-> args.P2PSigner,
          log |-> args.Logger]

-----------------------------------------------------------------------------
(* Encodings                                                               *)

\* pubsubPb.Message.Marshal(): an injective encoding of all six fields.
PbMarshal(pm) == <<"pb", pm>>
PbBytes == "garbage"    \* bytes that pubsubMsg.Unmarshal rejects

\* marshaller.Marshal(&batch.Batch{Data: ...}).
BatchMarshal(elems) == <<"batch", elems>>

\* The signature the p2p signer produces and checks: unforgeable, bound to
\* the signing peer and the signed bytes.
Sig(pid, bytes) == [signer |-> pid, over |-> bytes]

-----------------------------------------------------------------------------
(* The verifier's conversions                                              *)

\* Mutant: the Key field is not copied.
convertP2PMessagetoPubSubMessageNoKey(m) ==
    [From |-> m.from, Data |-> m.data, Seqno |-> SeqNo, Topic |-> Topic,
     Signature |-> m.sig, Key |-> Nil]

\* convertP2PMessagetoPubSubMessage (msg non-nil here).
convertP2PMessagetoPubSubMessage(m) ==
    [From |-> m.from, Data |-> m.data, Seqno |-> SeqNo, Topic |-> Topic,
     Signature |-> m.sig, Key |-> m.key]

withSignPrefix(bytes) == <<SignPrefix, bytes>>

\* Mutant: the Key field is left in the signed payload.
preparePubSubMessagePayloadKeepKey(m) ==
    LET xm == [convertP2PMessagetoPubSubMessage(m) EXCEPT !.Signature = Nil]
    IN withSignPrefix(PbMarshal(xm))

\* The bytes a pubsub signature covers: the message without Signature and Key.
preparePubSubMessagePayload(m) ==
    LET xm == [convertP2PMessagetoPubSubMessage(m) EXCEPT !.Signature = Nil,
                                                          !.Key = Nil]
    IN withSignPrefix(PbMarshal(xm))

\* Verify: ErrNilMessage for nil; otherwise the signer checks the signature
\* against msg.Peer() over the prepared payload.
Verify(m) ==
    /\ m # Nil
    /\ m.sig = Sig(m.peer, preparePubSubMessagePayload(m))

\* libp2p.NewMessage, called by convertPubSubMessagestoP2PMessage: fails when
\* From does not decode to a peer ID or Data is not a current-version topic
\* message without Pk and Sig; Peer() is the decoded From.
NewMessageOK(pm) == pm.From \in PeerIDs /\ pm.Data \in TopicDatas

convertPubSubMessagestoP2PMessage(pm) ==
    [from |-> pm.From, data |-> pm.Data, sig |-> pm.Signature,
     key |-> pm.Key, peer |-> pm.From]

-----------------------------------------------------------------------------
(* Serialize and Deserialize                                               *)

\* The loop of Serialize: a nil message fails conversion and is skipped.
RECURSIVE SerializeLoop(_)
SerializeLoop(ms) ==
    IF ms = <<>> THEN <<>>
    ELSE IF Head(ms) = Nil THEN SerializeLoop(Tail(ms))
    ELSE <<PbMarshal(convertP2PMessagetoPubSubMessage(Head(ms)))>>
             \o SerializeLoop(Tail(ms))

\* No element: zero bytes rather than an encoded empty batch.
Serialize(ms) ==
    LET elems == SerializeLoop(ms)
    IN IF elems = <<>> THEN <<>> ELSE BatchMarshal(elems)

\* marshaller.Unmarshal of a batch: JSON rejects zero bytes, protobuf reads
\* them as an empty batch.
UnmarshalBatch(bytes) ==
    IF bytes = <<>>
        THEN IF Marshaller = "json" THEN Err ELSE <<>>
        ELSE bytes[2]

\* The loop of Deserialize: an element pubsubMsg.Unmarshal rejects aborts
\* the whole call; a message NewMessage rejects is skipped.
RECURSIVE DeserializeLoop(_)
DeserializeLoop(elems) ==
    IF elems = <<>> THEN <<>>
    ELSE LET rest == DeserializeLoop(Tail(elems))
             e == Head(elems)
         IN IF e = PbBytes \/ rest = Err THEN Err
            ELSE IF NewMessageOK(e[2])
                 THEN <<convertPubSubMessagestoP2PMessage(e[2])>> \o rest
                 ELSE rest

\* Mutant: a corrupted element is skipped like an unconvertible message.
DeserializeSkipCorrupt(bytes) ==
    LET elems == UnmarshalBatch(bytes)
        Clean == SelectSeq(elems, LAMBDA e : e # PbBytes)
    IN IF elems = Err THEN Err ELSE DeserializeLoop(Clean)

Deserialize(bytes) ==
    LET elems == UnmarshalBatch(bytes)
    IN IF elems = Err THEN Err ELSE DeserializeLoop(elems)

\* The verifier's fields a call dereferences.  Serialize traces through
\* m.log for each nil message it skips and calls m.marshaller once some
\* element is left; Deserialize always calls m.marshaller, and traces
\* through m.log for a message NewMessage rejects before any element that
\* fails to unmarshal.
SerializeUses(ms) ==
    {"log" : i \in {i \in DOMAIN ms : ms[i] = Nil}}
    \cup (IF SerializeLoop(ms) = <<>> THEN {} ELSE {"marshaller"})

DeserializeUses(bytes) ==
    LET elems == UnmarshalBatch(bytes)
        Rejected(i) == /\ \A j \in 1..i : elems[j] # PbBytes
                       /\ ~NewMessageOK(elems[i][2])
    IN {"marshaller"}
       \cup (IF elems # Err /\ \E i \in DOMAIN elems : Rejected(i)
             THEN {"log"} ELSE {})

-----------------------------------------------------------------------------
(* A node serializes a list of messages it received (each with Peer() =    *)
(* From); the batch crosses the network; another node deserializes it and  *)
(* verifies every message.                                                 *)

\* Each received message carries a signature made by its From peer as
\* pubsub signs (Signature and Key cleared), by another peer, or none.
PubsubSignature(pid, from, data, key) ==
    Sig(pid, withSignPrefix(PbMarshal(
        [From |-> from, Data |-> data, Seqno |-> SeqNo, Topic |-> Topic,
         Signature |-> Nil, Key |-> Nil])))

Froms == PeerIDs \cup {BadFrom}

Messages ==
    UNION {{[from |-> f, data |-> d, key |-> k, peer |-> f, sig |-> s] :
             s \in {PubsubSignature(q, f, d, k) : q \in Froms} \cup {Nil}} :
           f \in Froms, d \in Datas, k \in KeyValues \cup {Nil}}

Batches == BoundedSeq(Messages \cup {Nil}, MaxBatch)

VARIABLES
    verifier,   \* NewMessageVerifier's result, Nil before the call
    nilDeref,   \* the nil fields of the verifier a call has dereferenced
    phase,      \* "new", "pick", "sent", "received"
    input,      \* the list handed to Serialize
    wire,       \* the bytes on the network
    tampered,   \* how the network altered them: "none", "corrupt", "data"
    output      \* Deserialize's result

vars == <<verifier, nilDeref, phase, input, wire, tampered, output>>

msgVars == <<input, wire, tampered, output>>

Init ==
    /\ verifier = Nil
    /\ nilDeref = {}
    /\ phase = "new"
    /\ input = <<>>
    /\ wire = <<>>
    /\ tampered = "none"
    /\ output = <<>>

\* The node builds its verifier; on an error it has none and may try again.
Construct ==
    /\ phase = "new"
    /\ \E args \in ArgsMessageVerifier :
          /\ verifier' = NewMessageVerifier(args)
          /\ phase' = IF "err" \in DOMAIN verifier' THEN "new" ELSE "pick"
    /\ UNCHANGED <<nilDeref, msgVars>>

\* The fields in fs the verifier holds as Nil.
NilFields(fs) == {f \in fs : verifier[f] = Nil}

SerializeBatch ==
    /\ phase = "pick"
    /\ \E ms \in Batches :
          /\ input' = ms
          /\ wire' = Serialize(ms)
          /\ nilDeref' = nilDeref \cup NilFields(SerializeUses(ms))
    /\ phase' = "sent"
    /\ UNCHANGED <<verifier, tampered, output>>

\* One element of a non-empty batch becomes undecodable.
CorruptElement ==
    /\ phase = "sent" /\ tampered = "none" /\ wire # <<>>
    /\ \E i \in DOMAIN wire[2] :
          wire' = BatchMarshal([wire[2] EXCEPT ![i] = PbBytes])
    /\ tampered' = "corrupt"
    /\ UNCHANGED <<verifier, nilDeref, phase, input, output>>

\* One element keeps decoding but carries other data.
AlterData ==
    /\ phase = "sent" /\ tampered = "none" /\ wire # <<>>
    /\ \E i \in DOMAIN wire[2], d \in Datas :
          /\ d # wire[2][i][2].Data
          /\ wire' = BatchMarshal([wire[2] EXCEPT ![i][2].Data = d])
    /\ tampered' = "data"
    /\ UNCHANGED <<verifier, nilDeref, phase, input, output>>

DeserializeBatch ==
    /\ phase = "sent"
    /\ output' = Deserialize(wire)
    /\ nilDeref' = nilDeref \cup NilFields(DeserializeUses(wire))
    /\ phase' = "received"
    /\ UNCHANGED <<verifier, input, wire, tampered>>

\* The next batch.
Reset ==
    /\ phase = "received"
    /\ phase' = "pick"
    /\ input' = <<>>
    /\ wire' = <<>>
    /\ tampered' = "none"
    /\ output' = <<>>
    /\ UNCHANGED <<verifier, nilDeref>>

Next == Construct \/ SerializeBatch \/ CorruptElement \/ AlterData \/ DeserializeBatch \/ Reset

Spec == Init /\ [][Next]_vars

-----------------------------------------------------------------------------
(* Properties                                                              *)

TypeOK ==
    /\ verifier \in {Nil} \cup [err : {"ErrNilMarshaller", "ErrNilP2PSigner",
                                        "ErrNilLogger"}]
                   \cup [marshaller : {"marshaller", Nil},
                        p2pSigner : {"signer", Nil}, log : {"logger", Nil}]
    /\ nilDeref \subseteq {"marshaller", "log"}
    /\ phase \in {"new", "pick", "sent", "received"}
    /\ input \in Batches
    /\ tampered \in {"none", "corrupt", "data"}
    /\ output = Err \/ output \in Seq([from : Froms, data : Datas,
                                        key : KeyValues \cup {Nil},
                                        sig : {s.sig : s \in Messages},
                                        peer : Froms])

\* No Serialize or Deserialize call on a constructed verifier dereferences
\* a nil marshaller or logger: checkArgs rejects every nil dependency, also
\* the logger that only the skip paths for a nil message or a message
\* NewMessage rejects use.
NoNilDereference == nilDeref = {}

\* The p2p message NewMessage rebuilds from a message the node received.
Convertible(m) == m # Nil /\ m.from \in PeerIDs /\ m.data \in TopicDatas

\* An untouched batch comes back as exactly the non-nil messages whose From
\* decodes, in their order, with every field and the verdict of Verify kept.
RoundTripPreserves ==
    (phase = "received" /\ tampered = "none")
        => output = SelectSeq(input, Convertible)

\* A batch with one undecodable element is rejected as a whole: Deserialize
\* never hands out part of a corrupted batch.
CorruptBatchRejected ==
    (phase = "received" /\ tampered = "corrupt") => output = Err

\* A deserialized message passes Verify exactly when it carries the
\* signature its From peer made as pubsub signs, whatever its Key and
\* whatever the network did to the batch.
VerifyMatchesPubsubSigning ==
    phase = "received" /\ output # Err =>
        \A i \in DOMAIN output :
            Verify(output[i]) <=>
                output[i].sig = PubsubSignature(output[i].from, output[i].from,
                                                output[i].data, output[i].key)

=============================================================================
