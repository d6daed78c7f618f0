------------------------------ MODULE Messages ------------------------------
(***************************************************************************)
(* The requests and responses of proto/messages.go: for each the layout    *)
(* that its Bytes method writes and the one its Read function expects.     *)
(***************************************************************************)
EXTENDS Wire

ProduceReqKind == 0
FetchReqKind == 1
OffsetReqKind == 2
MetadataReqKind == 3
OffsetCommitReqKind == 8
OffsetFetchReqKind == 9
GroupCoordinatorReqKind == 10

Kinds == {ProduceReqKind, FetchReqKind, OffsetReqKind, MetadataReqKind,
          OffsetCommitReqKind, OffsetFetchReqKind, GroupCoordinatorReqKind}

(* What every request and every response starts with, after its size.  The *)
(* key and the version are read as one int32 where neither is used.        *)
WriteReqHead(kind, version) ==
    <<Const("int16", kind), Const("int16", version),
      Field("int32", "CorrelationID"), Field("string", "ClientID")>>
ReadReqHead ==
    <<Skip("int32"), Skip("int16"), Skip("int16"),
      Field("int32", "CorrelationID"), Field("string", "ClientID")>>
WriteRespHead == <<Field("int32", "CorrelationID")>>
ReadRespHead == <<Skip("int32"), Field("int32", "CorrelationID")>>

-----------------------------------------------------------------------------
MetadataReqBytes ==
    WriteReqHead(MetadataReqKind, 0) \o <<Array("Topics", <<Item("string")>>)>>
ReadMetadataReq ==
    ReadReqHead \o <<Array("Topics", <<Item("string")>>)>>

MetadataRespBytes ==
    WriteRespHead \o
    <<Array("Brokers", <<Field("int32", "NodeID"), Field("string", "Host"),
                         Field("int32", "Port")>>),
      Array("Topics",
            <<Field("error", "Err"), Field("string", "Name"),
              Array("Partitions",
                    <<Field("error", "Err"), Field("int32", "ID"),
                      Field("int32", "Leader"), Array("Replicas", <<Item("int32")>>),
                      Array("Isrs", <<Item("int32")>>)>>)>>)>>
ReadMetadataResp ==
    ReadRespHead \o
    <<Array("Brokers", <<Field("int32", "NodeID"), Field("string", "Host"),
                         Field("int32", "Port")>>),
      Array("Topics",
            <<Field("error", "Err"), Field("string", "Name"),
              Array("Partitions",
                    <<Field("error", "Err"), Field("int32", "ID"),
                      Field("int32", "Leader"), Array("Replicas", <<Item("int32")>>),
                      Array("Isrs", <<Item("int32")>>)>>)>>)>>

FetchReqBytes ==
    WriteReqHead(FetchReqKind, 0) \o
    <<Const("int32", -1), Field("ms", "MaxWaitTime"), Field("int32", "MinBytes")>> \o
    Topics(<<Field("int32", "ID"), Field("int64", "FetchOffset"),
             Field("int32", "MaxBytes")>>)
ReadFetchReq ==
    ReadReqHead \o
    <<Skip("int32"), Field("ms", "MaxWaitTime"), Field("int32", "MinBytes")>> \o
    Topics(<<Field("int32", "ID"), Field("int64", "FetchOffset"),
             Field("int32", "MaxBytes")>>)

FetchRespBytes ==
    WriteRespHead \o
    Topics(<<Field("int32", "ID"), Field("error", "Err"),
             Field("int64", "TipOffset"), Set("Messages")>>)
ReadFetchResp ==
    ReadRespHead \o
    Topics(<<Field("int32", "ID"), Field("error", "Err"),
             Field("int64", "TipOffset"), Set("Messages")>>)

GroupCoordinatorReqBytes ==
    WriteReqHead(GroupCoordinatorReqKind, 0) \o <<Field("string", "ConsumerGroup")>>
ReadGroupCoordinatorReq ==
    ReadReqHead \o <<Field("string", "ConsumerGroup")>>

GroupCoordinatorRespBytes ==
    WriteRespHead \o
    <<Field("error", "Err"), Field("int32", "CoordinatorID"),
      Field("string", "CoordinatorHost"), Field("int32", "CoordinatorPort")>>
ReadGroupCoordinatorResp ==
    ReadRespHead \o
    <<Field("error", "Err"), Field("int32", "CoordinatorID"),
      Field("string", "CoordinatorHost"), Field("int32", "CoordinatorPort")>>

(* The generation -1, the consumer ID "" and the time -1, "use current     *)
(* time", are constants of version 1.                                      *)
OffsetCommitReqBytes ==
    WriteReqHead(OffsetCommitReqKind, 1) \o
    <<Field("string", "ConsumerGroup"), Const("int32", -1), Const("string", "")>> \o
    Topics(<<Field("int32", "ID"), Field("int64", "Offset"), Const("int64", -1),
             Field("string", "Metadata")>>)

(* Mutant: the fields of version 1 are not expected.                       *)
Version0(version) == <<>>
Version1(version) == IF version = 1 THEN <<Skip("int32"), Skip("string")>> ELSE <<>>

ReadOffsetCommitReq(version) ==
    ReadReqHead \o <<Field("string", "ConsumerGroup")>> \o Version1(version) \o
    Topics(<<Field("int32", "ID"), Field("int64", "Offset"), Skip("int64"),
             Field("string", "Metadata")>>)

OffsetCommitRespBytes ==
    WriteRespHead \o Topics(<<Field("int32", "ID"), Field("error", "Err")>>)
ReadOffsetCommitResp ==
    ReadRespHead \o Topics(<<Field("int32", "ID"), Field("error", "Err")>>)

OffsetFetchReqBytes ==
    WriteReqHead(OffsetFetchReqKind, 1) \o <<Field("string", "ConsumerGroup")>> \o
    Topics(<<Item("int32")>>)
ReadOffsetFetchReq ==
    ReadReqHead \o <<Field("string", "ConsumerGroup")>> \o Topics(<<Item("int32")>>)

OffsetFetchRespBytes ==
    WriteRespHead \o
    Topics(<<Field("int32", "ID"), Field("int64", "Offset"),
             Field("string", "Metadata"), Field("error", "Err")>>)

(* Mutant: the error is expected before the offset, as in other responses. *)
ErrorSecond ==
    ReadRespHead \o
    Topics(<<Field("int32", "ID"), Field("error", "Err"), Field("int64", "Offset"),
             Field("string", "Metadata")>>)
ReadOffsetFetchResp ==
    ReadRespHead \o
    Topics(<<Field("int32", "ID"), Field("int64", "Offset"),
             Field("string", "Metadata"), Field("error", "Err")>>)

ProduceReqBytes ==
    WriteReqHead(ProduceReqKind, 0) \o
    <<Field("int16", "RequiredAcks"), Field("ms", "Timeout")>> \o
    Topics(<<Field("int32", "ID"), Set("Messages")>>)
ReadProduceReq ==
    ReadReqHead \o
    <<Field("int16", "RequiredAcks"), Field("ms", "Timeout")>> \o
    Topics(<<Field("int32", "ID"), Set("Messages")>>)

ProduceRespBytes ==
    WriteRespHead \o
    Topics(<<Field("int32", "ID"), Field("error", "Err"), Field("int64", "Offset")>>)
ReadProduceResp ==
    ReadRespHead \o
    Topics(<<Field("int32", "ID"), Field("error", "Err"), Field("int64", "Offset")>>)

OffsetReqBytes ==
    WriteReqHead(OffsetReqKind, 0) \o <<Field("int32", "ReplicaID")>> \o
    Topics(<<Field("int32", "ID"), Field("int64", "TimeMs"),
             Field("int32", "MaxOffsets")>>)
ReadOffsetReq ==
    ReadReqHead \o <<Field("int32", "ReplicaID")>> \o
    Topics(<<Field("int32", "ID"), Field("int64", "TimeMs"),
             Field("int32", "MaxOffsets")>>)

OffsetRespBytes ==
    WriteRespHead \o
    Topics(<<Field("int32", "ID"), Field("error", "Err"),
             Array("Offsets", <<Item("int64")>>)>>)
ReadOffsetResp ==
    ReadRespHead \o
    Topics(<<Field("int32", "ID"), Field("error", "Err"),
             Array("Offsets", <<Item("int64")>>)>>)

-----------------------------------------------------------------------------
(* By the kind of request.                                                 *)
ReqBytes(kind) ==
    CASE kind = ProduceReqKind          -> ProduceReqBytes
      [] kind = FetchReqKind            -> FetchReqBytes
      [] kind = OffsetReqKind           -> OffsetReqBytes
      [] kind = MetadataReqKind         -> MetadataReqBytes
      [] kind = OffsetCommitReqKind     -> OffsetCommitReqBytes
      [] kind = OffsetFetchReqKind      -> OffsetFetchReqBytes
      [] kind = GroupCoordinatorReqKind -> GroupCoordinatorReqBytes

ReadReq(kind, version) ==
    CASE kind = ProduceReqKind          -> ReadProduceReq
      [] kind = FetchReqKind            -> ReadFetchReq
      [] kind = OffsetReqKind           -> ReadOffsetReq
      [] kind = MetadataReqKind         -> ReadMetadataReq
      [] kind = OffsetCommitReqKind     -> ReadOffsetCommitReq(version)
      [] kind = OffsetFetchReqKind      -> ReadOffsetFetchReq
      [] kind = GroupCoordinatorReqKind -> ReadGroupCoordinatorReq

RespBytes(kind) ==
    CASE kind = ProduceReqKind          -> ProduceRespBytes
      [] kind = FetchReqKind            -> FetchRespBytes
      [] kind = OffsetReqKind           -> OffsetRespBytes
      [] kind = MetadataReqKind         -> MetadataRespBytes
      [] kind = OffsetCommitReqKind     -> OffsetCommitRespBytes
      [] kind = OffsetFetchReqKind      -> OffsetFetchRespBytes
      [] kind = GroupCoordinatorReqKind -> GroupCoordinatorRespBytes

ReadResp(kind) ==
    CASE kind = ProduceReqKind          -> ReadProduceResp
      [] kind = FetchReqKind            -> ReadFetchResp
      [] kind = OffsetReqKind           -> ReadOffsetResp
      [] kind = MetadataReqKind         -> ReadMetadataResp
      [] kind = OffsetCommitReqKind     -> ReadOffsetCommitResp
      [] kind = OffsetFetchReqKind      -> ReadOffsetFetchResp
      [] kind = GroupCoordinatorReqKind -> ReadGroupCoordinatorResp
=============================================================================
