------------------------------- MODULE Server -------------------------------
(***************************************************************************)
(* The server that the tests run against (kafkatest/server.go), and one    *)
(* client's connection to it: each request as the client builds it, on the *)
(* wire, read, handled, answered, on the wire again and read.  Or the peer *)
(* is Kafka, which refuses a commit, or answers a fetch with compressed    *)
(* batches and a message set that is cut off, or damaged on the disk; the  *)
(* rest it does as the server does.                                        *)
(*                                                                         *)
(* The client sends one topic with one partition, and Produce, Fetch and   *)
(* Offset only for a partition of its metadata.  Middleware is left out.   *)
(***************************************************************************)
EXTENDS Messages, FiniteSets, TLC

CONSTANTS
    TopicNames,
    MaxPartition,    \* partitions are 0..MaxPartition
    Strings,         \* metadata of a commit
    Productions,     \* what is produced, or added, at a time
    Compressions,    \* the producer's
    Refusals,        \* errors of Kafka
    MaxLog           \* bound: messages in a partition

Partitions == 0..MaxPartition
Offsets == 0..MaxLog
NodeID == 100

ASSUME ServerAssumption ==
    /\ MaxPartition \in Nat
    /\ MaxLog \in Nat
    /\ LongStrings \subseteq Strings
    /\ Compressions \subseteq 0..2
    /\ KnownErrors \cup Refusals \subseteq Int \ {0}
    /\ UnknownError \notin KnownErrors \cup {0}

VARIABLES
    peer,      \* whom the client is connected to
    \* Server
    topics,    \* [TopicNames -> the partitions there are -> messages]
    offsets,   \* [TopicNames \X Partitions -> offset and metadata committed]
    stopped, wasReset,  \* Close, Reset was called
    \* the client
    known,     \* partitions in its metadata
    \* the connection
    pc,        \* whose turn it is
    request,   \* the client's request and its compression
    arrived,   \* what the server reads, <<>> if it cannot
    wire,      \* the frame under way
    response,  \* the response, <<>> if the connection is closed instead
    batch,     \* how Kafka has packed the messages, if it is Kafka's
    cut,       \* the connection broke while a frame was under way
    answer     \* what the client reads

serverVars == <<peer, topics, offsets, stopped, wasReset>>
clientVars == <<pc, request, arrived, wire, response, batch, cut, answer>>
vars == <<serverVars, known, clientVars>>

NoRequest == [kind |-> -1]
NoBatch == [size |-> 0]
NoParts == [p \in {} |-> <<>>]
topicOffset == [offset |-> 0, metadata |-> ""]

Init ==
    /\ peer \in {"kafkatest", "Kafka"}
    /\ topics = [t \in TopicNames |-> NoParts]
    /\ offsets = [tp \in TopicNames \X Partitions |-> topicOffset]
    /\ stopped = FALSE
    /\ wasReset = FALSE
    /\ known = {}
    /\ pc = "idle"
    /\ request = NoRequest
    /\ arrived = <<>>
    /\ wire = <<>>
    /\ response = <<>>
    /\ batch = NoBatch
    /\ cut = FALSE
    /\ answer = <<>>

-----------------------------------------------------------------------------
(* The log after ms, at the offsets that come next.                        *)
Appended(log, ms) ==
    log \o [i \in DOMAIN ms |-> [ms[i] EXCEPT !.Offset = Len(log) + i - 1]]

Log(t, p) == IF p \in DOMAIN topics[t] THEN topics[t][p] ELSE <<>>

(* What a test does, before or after a request is handled (a response,     *)
(* once made, stays what it is).                                           *)
TestRuns == peer = "kafkatest" /\ pc \in {"idle", "request"}

(* There is room for more messages.                                        *)
Room(n) ==
    \A t \in TopicNames :
        n + Len(FlattenSeq([i \in 1..(MaxPartition + 1) |-> Log(t, i - 1)])) <= MaxLog

(* AddMessages makes the partitions up to the one it adds to.  Mutant:     *)
(* only that one.                                                          *)
OnlyThis(p) == {p}
UpTo(p) == 0..p

AddMessages(t, p, ms) ==
    /\ TestRuns
    /\ Room(Len(ms))
    /\ topics' = [topics EXCEPT ![t] =
                    [q \in DOMAIN @ \cup UpTo(p) |->
                        IF q = p THEN Appended(Log(t, p), ms) ELSE Log(t, q)]]
    /\ UNCHANGED <<peer, offsets, stopped, wasReset, known, clientVars>>

Reset ==
    /\ TestRuns
    /\ topics' = [t \in TopicNames |-> NoParts]
    /\ offsets' = [tp \in TopicNames \X Partitions |-> topicOffset]
    /\ wasReset' = TRUE
    /\ UNCHANGED <<peer, stopped, known, clientVars>>

ResetTopic(t) ==
    /\ TestRuns
    /\ topics' = [topics EXCEPT ![t] = [p \in DOMAIN @ |-> <<>>]]
    /\ offsets' = [tp \in TopicNames \X Partitions |->
                      IF tp[1] = t THEN topicOffset ELSE offsets[tp]]
    /\ UNCHANGED <<peer, stopped, wasReset, known, clientVars>>

(* The listener is closed; the connections there are stay.                 *)
Close ==
    /\ TestRuns
    /\ ~stopped
    /\ stopped' = TRUE
    /\ UNCHANGED <<peer, topics, offsets, wasReset, known, clientVars>>

-----------------------------------------------------------------------------
(* The requests of the client.                                             *)
One(t, part) == <<[Name |-> t, Partitions |-> <<part>>]>>
Request(kind, m, compression) == [kind |-> kind, m |-> m, compression |-> compression]
Plain(kind, m) ==
    Request(kind, [CorrelationID |-> 1, ClientID |-> "client"] @@ m, 0)

MetadataReq(ts) == Plain(MetadataReqKind, [Topics |-> ts])
ProduceReq(t, p, ms, compression) ==
    [Plain(ProduceReqKind, [RequiredAcks |-> 1, Timeout |-> 3,
                            Topics |-> One(t, [ID |-> p, Messages |-> ms])])
     EXCEPT !.compression = compression]
FetchReq(t, p, o) ==
    Plain(FetchReqKind, [MaxWaitTime |-> 5, MinBytes |-> 1,
                         Topics |-> One(t, [ID |-> p, FetchOffset |-> o, MaxBytes |-> 2])])
OffsetReq(t, p, time) ==
    Plain(OffsetReqKind, [ReplicaID |-> -1,
                          Topics |-> One(t, [ID |-> p, TimeMs |-> time, MaxOffsets |-> 2])])
GroupCoordinatorReq == Plain(GroupCoordinatorReqKind, [ConsumerGroup |-> "group"])
OffsetCommitReq(t, p, o, s) ==
    Plain(OffsetCommitReqKind,
          [ConsumerGroup |-> "group",
           Topics |-> One(t, [ID |-> p, Offset |-> o, Metadata |-> s])])
OffsetFetchReq(t, p) ==
    Request(OffsetFetchReqKind,
            [CorrelationID |-> 1, ClientID |-> "", ConsumerGroup |-> "group",
             Topics |-> One(t, p)], 0)

WriteTo(r) == Bytes(ReqBytes(r.kind), r.m, r.compression)

Send(r) ==
    /\ pc = "idle"
    /\ pc' = "request"
    /\ request' = r
    /\ wire' = WriteTo(r)
    /\ UNCHANGED <<serverVars, known, arrived, response, batch, cut, answer>>

ToPartition(t, p) ==
    \/ \E ms \in Productions, c \in Compressions : Send(ProduceReq(t, p, ms, c))
    \/ \E o \in Offsets : Send(FetchReq(t, p, o))
    \/ \E time \in {-1, -2} : Send(OffsetReq(t, p, time))

ToCoordinator(t, p) ==
    \/ \E s \in Strings : Send(OffsetCommitReq(t, p, MaxLog, s))
    \/ Send(OffsetFetchReq(t, p))

-----------------------------------------------------------------------------
(* handleClient reads a request of the given kind, or as much of it as     *)
(* comes before the client gives the connection up, ...                    *)
Reads(kind) ==
    /\ pc = "request"
    /\ wire[2].val = kind
    /\ \E n \in 0..Len(wire) :
          /\ arrived' = ReadFrame(ReadReq(kind, wire[3].val), SubSeq(wire, 1, n))
          /\ cut' = (n < Len(wire))

(* ... closes the connection if it cannot be read or parsed ...            *)
CannotParse(kind) ==
    /\ Reads(kind)
    /\ arrived' = <<>>
    /\ pc' = "done"
    /\ wire' = <<>>
    /\ UNCHANGED <<serverVars, known, request, response, batch, answer>>

(* ... and otherwise writes the handler's response.                        *)
Answers(kind, m) ==
    /\ response' = <<[CorrelationID |-> arrived'[1].CorrelationID] @@ m>>
    /\ wire' = Bytes(RespBytes(kind), response'[1], 0)
    /\ pc' = "response"
    /\ UNCHANGED <<peer, stopped, wasReset, known, request, batch, answer>>

Parses(kind) == Reads(kind) /\ arrived' # <<>>
Topic == arrived'[1].Topics[1].Name
Part == arrived'[1].Topics[1].Partitions[1]

(* A panic ends the process.                                               *)
Panics ==
    /\ pc' = "crashed"
    /\ UNCHANGED <<serverVars, known, request, wire, response, batch, answer>>

(* Produce makes the partition it is asked for, and no other; the offset   *)
(* it answers with is that of the last message.                            *)
handleProduceRequest ==
    /\ Parses(ProduceReqKind)
    /\ Room(Len(Part.Messages))
    /\ topics' = [topics EXCEPT ![Topic] =
                    [q \in DOMAIN @ \cup {Part.ID} |->
                        IF q = Part.ID THEN Appended(Log(Topic, q), Part.Messages)
                        ELSE Log(Topic, q)]]
    /\ UNCHANGED offsets
    /\ Answers(ProduceReqKind,
               [Topics |-> One(Topic, [ID |-> Part.ID, Err |-> 0,
                                       Offset |-> Len(topics'[Topic][Part.ID]) - 1])])

ErrOffsetOutOfRange == 1
ErrUnknownTopicOrPartition == 3

FetchPart(id, err, tip, ms) ==
    [ID |-> id, Err |-> err, TipOffset |-> tip, Messages |-> ms]

handleFetchRequest ==
    /\ Parses(FetchReqKind)
    /\ UNCHANGED <<topics, offsets>>
    /\ LET log == Log(Topic, Part.ID) IN
       Answers(FetchReqKind,
         [Topics |-> One(Topic,
            IF Part.ID \notin DOMAIN topics[Topic]
            THEN FetchPart(Part.ID, ErrUnknownTopicOrPartition, 0, <<>>)
            ELSE IF Part.FetchOffset > Len(log)
            THEN FetchPart(Part.ID, ErrOffsetOutOfRange, 0, <<>>)
            ELSE FetchPart(Part.ID, 0, Len(log), SubSeq(log, Part.FetchOffset + 1, Len(log))))])

handleOffsetRequest ==
    /\ Parses(OffsetReqKind)
    /\ UNCHANGED <<topics, offsets>>
    /\ LET latest == <<Len(Log(Topic, Part.ID)), 0>> IN
       Answers(OffsetReqKind,
         [Topics |-> One(Topic, [ID |-> Part.ID, Err |-> 0,
            Offsets |-> SubSeq(IF Part.TimeMs = -1 THEN latest ELSE <<0, 0>>,
                               1, Part.MaxOffsets)])])

(* Addr panics once the server is closed.                                  *)
handleGroupCoordinatorRequest ==
    /\ Parses(GroupCoordinatorReqKind)
    /\ \/ stopped /\ Panics
       \/ /\ ~stopped
          /\ UNCHANGED <<topics, offsets>>
          /\ Answers(GroupCoordinatorReqKind,
                     [Err |-> 0, CoordinatorID |-> 0, CoordinatorHost |-> "host",
                      CoordinatorPort |-> 1])

handleOffsetFetchRequest ==
    /\ Parses(OffsetFetchReqKind)
    /\ UNCHANGED <<topics, offsets>>
    /\ LET o == offsets[<<Topic, Part>>] IN
       Answers(OffsetFetchReqKind,
               [Topics |-> One(Topic, [ID |-> Part, Offset |-> o.offset,
                                       Metadata |-> o.metadata, Err |-> 0])])

handleOffsetCommitRequest ==
    /\ Parses(OffsetCommitReqKind)
    /\ offsets' = [offsets EXCEPT ![<<Topic, Part.ID>>] =
                      [offset |-> Part.Offset, metadata |-> Part.Metadata]]
    /\ UNCHANGED topics
    /\ Answers(OffsetCommitReqKind, [Topics |-> One(Topic, [ID |-> Part.ID, Err |-> 0])])

(* The entry of a topic has one element for each partition, which is put   *)
(* at the index of its ID.                                                 *)
MetadataPart(p) ==
    [ID |-> p, Err |-> 0, Leader |-> NodeID, Replicas |-> <<NodeID>>, Isrs |-> <<NodeID>>]

Fits(t) == \A p \in DOMAIN topics'[t] : p < Cardinality(DOMAIN topics'[t])

MetadataTopic(t) ==
    [Name |-> t, Err |-> 0,
     Partitions |-> [i \in 1..Cardinality(DOMAIN topics'[t]) |-> MetadataPart(i - 1)]]

(* A topic that is asked for is made if it does not exist, with one        *)
(* partition; without one, all topics are meant.                           *)
handleMetadataRequest ==
    /\ Parses(MetadataReqKind)
    /\ LET asked == ToSet(arrived'[1].Topics)
           made == [topics EXCEPT ![CHOOSE t \in asked : TRUE] = [p \in {0} |-> <<>>]]
       IN topics' = IF \E t \in asked : topics[t] = NoParts THEN made ELSE topics
    /\ LET names == IF arrived'[1].Topics # <<>> THEN arrived'[1].Topics
                    ELSE SetToSeq({t \in TopicNames : topics'[t] # NoParts})
       IN \/ /\ \E t \in ToSet(names) : ~Fits(t)
             /\ Panics
          \/ /\ \A t \in ToSet(names) : Fits(t)
             /\ UNCHANGED offsets
             /\ Answers(MetadataReqKind,
                  [Brokers |-> <<[NodeID |-> NodeID, Host |-> "host", Port |-> 1]>>,
                   Topics |-> [i \in DOMAIN names |-> MetadataTopic(names[i])]])

-----------------------------------------------------------------------------
(* Kafka may refuse a commit, with an error that this client knows or with *)
(* another, ...                                                            *)
KafkaRefuses(e) ==
    /\ peer = "Kafka"
    /\ Parses(OffsetCommitReqKind)
    /\ UNCHANGED <<topics, offsets>>
    /\ Answers(OffsetCommitReqKind, [Topics |-> One(Topic, [ID |-> Part.ID, Err |-> e])])

(* ... and it answers a fetch with a message set as it has it on the disk, *)
(* from the start of the batch with the offset asked for, cut off where    *)
(* the client's limit is.                                                  *)
Batches == [start : Offsets, size : 1..MaxLog, codec : 0..3, in : Offsets, out : Offsets]

From(b, log) == SubSeq(log, b.start + 1, Len(log))

IsBatch(b, log, offset) ==
    /\ b.start <= offset
    /\ offset < b.start + b.size
    /\ b.start + b.size <= Len(log)
    /\ b.codec = 0 => b.in = 0 /\ b.size = 1 /\ b.start = offset
    /\ b.in <= b.size
    /\ b.out <= TopLevel(From(b, log), b)

KafkaFetch(b) ==
    /\ peer = "Kafka"
    /\ Parses(FetchReqKind)
    /\ LET log == Log(Topic, Part.ID)
           set == KafkaSet(From(b, log), b)
           resp(ms) == [Topics |-> One(Topic, FetchPart(Part.ID, 0, Len(log), ms)),
                        CorrelationID |-> arrived'[1].CorrelationID]
           frame == Bytes(RespBytes(FetchReqKind), resp(<<>>), 0)
       IN /\ IsBatch(b, log, Part.FetchOffset)
          /\ \E n \in 0..Len(set) :
                /\ batch' = [b |-> b, size |-> n]
                /\ wire' = <<Cell("int32", frame[1].val + n)>>
                             \o SubSeq(frame, 2, Len(frame) - 1)
                             \o <<Cell("int32", n)>> \o SubSeq(set, 1, n)
          /\ response' = <<resp(From(b, log))>>
    /\ pc' = "response"
    /\ UNCHANGED <<serverVars, known, request, answer>>

-----------------------------------------------------------------------------
(* The client reads as much of the response as comes before the connection *)
(* breaks, if it does.  Of the metadata, only a response for all topics is *)
(* cached.                                                                 *)
Receive(n) ==
    /\ pc = "response"
    /\ answer' = ReadFrame(ReadResp(request.kind), SubSeq(wire, 1, n))
    /\ cut' = (n < Len(wire))
    /\ known' = IF answer' # <<>> /\ request.kind = MetadataReqKind /\ request.m.Topics = <<>>
                THEN UNION {{<<t.Name, p.ID>> : p \in ToSet(t.Partitions)} :
                              t \in ToSet(answer'[1].Topics)}
                ELSE known
    /\ pc' = "done"
    /\ wire' = <<>>
    /\ UNCHANGED <<serverVars, request, arrived, response, batch>>

(* The next request.                                                       *)
Return ==
    /\ pc = "done"
    /\ pc' = "idle"
    /\ request' = NoRequest
    /\ arrived' = <<>>
    /\ response' = <<>>
    /\ batch' = NoBatch
    /\ cut' = FALSE
    /\ answer' = <<>>
    /\ UNCHANGED <<serverVars, known, wire>>

-----------------------------------------------------------------------------
TestNext ==
    \/ \E t \in TopicNames, p \in Partitions, ms \in Productions \cup {<<>>} :
          AddMessages(t, p, ms)
    \/ \E t \in TopicNames : ResetTopic(t)
    \/ Reset
    \/ Close

ClientNext ==
    \/ \E ts \in {<<>>} \cup {<<t>> : t \in TopicNames} : Send(MetadataReq(ts))
    \/ \E tp \in known : ToPartition(tp[1], tp[2])
    \/ \E t \in TopicNames : ToCoordinator(t, MaxPartition)
    \/ Send(GroupCoordinatorReq)
    \/ \E n \in 0..Len(wire) : Receive(n)
    \/ Return

ServerNext ==
    \/ \E kind \in Kinds : CannotParse(kind)
    \/ handleProduceRequest \/ handleFetchRequest \/ handleOffsetRequest
    \/ handleGroupCoordinatorRequest \/ handleOffsetFetchRequest
    \/ handleOffsetCommitRequest \/ handleMetadataRequest

KafkaNext ==
    \/ \E e \in Refusals : KafkaRefuses(e)
    \/ \E b \in Batches : KafkaFetch(b)

Next == TestNext \/ ClientNext \/ ServerNext \/ KafkaNext

Spec == Init /\ [][Next]_vars

-----------------------------------------------------------------------------
(* What is lost on the way: a duration keeps its milliseconds, a []byte of *)
(* length 0 becomes nil, an error that is not in the table loses its       *)
(* number, and a string of 2^15 to 2^16 - 1 bytes becomes "", which the    *)
(* encoder does not refuse.                                                *)
Rounded(d) == 2 * (d \div 2)

RequestAsRead(r) ==
    CASE r.kind = ProduceReqKind ->
            [r.m EXCEPT !.Timeout = Rounded(@),
                        !.Topics[1].Partitions[1].Messages = AsRead(@)]
      [] r.kind = FetchReqKind -> [r.m EXCEPT !.MaxWaitTime = Rounded(@)]
      [] r.kind = OffsetCommitReqKind ->
            [r.m EXCEPT !.Topics[1].Partitions[1].Metadata =
                IF @ \in LongStrings THEN "" ELSE @]
      [] OTHER -> r.m

(* The server reads the request that the client wrote, compressed or not,  *)
(* or nothing if it did not come as a whole: a request that was given up   *)
(* is never handled in part.                                               *)
RequestIntact ==
    pc \in {"response", "done", "crashed"} =>
        \/ arrived = <<RequestAsRead(request)>>
        \/ arrived = <<>> /\ cut

ResponseAsRead ==
    CASE request.kind = FetchReqKind ->
            [response[1] EXCEPT !.Topics[1].Partitions[1].Messages = AsRead(@)]
      [] request.kind = OffsetCommitReqKind ->
            [response[1] EXCEPT !.Topics[1].Partitions[1].Err =
                IF @ \in KnownErrors \cup {0} THEN @ ELSE UnknownError]
      [] OTHER -> response[1]

(* The client reads the response that was written, with the correlation ID *)
(* of its request, or an error if it did not come as a whole: never part   *)
(* of a response, nor the success of what was refused.                     *)
AnswerIntact ==
    pc = "done" /\ batch = NoBatch =>
        answer = IF cut \/ response = <<>> THEN <<>> ELSE <<ResponseAsRead>>

(* Of the messages Kafka sends the client gets, in order, all those before *)
(* the place where the set is cut off or damaged, and none after it: there *)
(* is no gap that the consumer's offset would pass over.  It is an error   *)
(* if they are compressed by another method.  (Damage inside a compressed  *)
(* set is not covered: only the rest of that set is lost.)                 *)
FetchedInOrder ==
    pc = "done" /\ batch # NoBatch /\ ~cut /\ batch.b.in = 0 =>
        LET b == batch.b IN
        IF b.codec = 3 /\ Whole(b, batch.size) > 0 THEN answer = <<>>
        ELSE answer[1].Topics[1].Partitions[1].Messages =
                SubSeq(response[1].Topics[1].Partitions[1].Messages, 1, Whole(b, batch.size))

(* No request makes the server panic, unless a test has called Reset while *)
(* a client knew of the partitions (it then produces to a partition whose  *)
(* predecessors are gone), or Close while one was connected.               *)
NeverPanics ==
    pc = "crashed" =>
        \/ request.kind = MetadataReqKind /\ wasReset
        \/ request.kind = GroupCoordinatorReqKind /\ stopped
=============================================================================
