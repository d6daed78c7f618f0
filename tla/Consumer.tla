------------------------------ MODULE Consumer ------------------------------
(***************************************************************************)
(* A consumer of one partition (broker.go): Consume or ConsumeBatch,       *)
(* SeekToLatest, and the loops of consume and fetch under them, with the   *)
(* trimming of connection.Fetch.  The calls exclude each other (consumer   *)
(* .mu), so there is one call in progress at a time.                       *)
(*                                                                         *)
(* The partition is external: producers append batches, retention and      *)
(* compaction remove messages, and a fetch returns what fits: messages     *)
(* from the one asked for, or, compressed, from the start of its batch.    *)
(* A message is its offset.                                                *)
(***************************************************************************)
EXTENDS Integers, Sequences, FiniteSets, Functions

CONSTANTS
    RetryLimit,     \* fetches that may come back empty, -1 for no limit
    RetryErrLimit,  \* attempts of a fetch
    MaxOffset       \* bound: messages ever appended

Offsets == 0..(MaxOffset - 1)

ASSUME ConsumerAssumption ==
    /\ RetryLimit \in Nat \cup {-1}
    /\ RetryErrLimit \in Nat
    /\ MaxOffset \in Nat

VARIABLES
    \* the partition
    end,        \* offset of the next message
    stored,     \* the messages that are still there
    heads,      \* offsets at which a batch starts
    \* consumer
    mode,       \* the interface it is used through: "single" or "batch"
    offset,     \* offset of next NOT consumed message
    msgbuf,     \* messages fetched and not yet returned
    \* the call in progress
    pc,         \* "idle", or "fetch" in the loops of consume and fetch
    retry,      \* empty fetches so far, up to RetryLimit
    try,        \* attempts of this fetch
    resErr,     \* whether fetch would return an error
    \* history
    from,       \* offset at creation or after the last SeekToLatest
    seen,       \* messages returned since then, in turn
    failed      \* failed attempts since the last response, 0..RetryErrLimit + 1

logVars == <<end, stored, heads>>
consumerVars == <<mode, offset, msgbuf>>
callVars == <<pc, retry, try, resErr, failed>>
vars == <<logVars, consumerVars, callVars, from, seen>>

SetMax(S) == CHOOSE x \in S : \A y \in S : y <= x

(* The consumer is made with a start offset of its user's choice, or that  *)
(* of the oldest or the newest message.                                    *)
Init ==
    /\ end \in 0..MaxOffset
    /\ stored = 0..(end - 1)
    /\ heads = {0, end}
    /\ mode \in {"single", "batch"}
    /\ offset \in 0..MaxOffset
    /\ msgbuf = <<>>
    /\ pc = "idle"
    /\ retry = 0
    /\ try = 0
    /\ resErr = FALSE
    /\ from = offset
    /\ seen = <<>>
    /\ failed = 0

-----------------------------------------------------------------------------
(* The partition: a batch of n messages is appended, one is removed.       *)
AppendBatch(n) ==
    /\ end + n <= MaxOffset
    /\ end' = end + n
    /\ stored' = stored \cup end..(end + n - 1)
    /\ heads' = heads \cup {end + n}
    /\ UNCHANGED <<consumerVars, callVars, from, seen>>

RemoveMessage(m) ==
    /\ m \in stored
    /\ stored' = stored \ {m}
    /\ UNCHANGED <<end, heads, consumerVars, callVars, from, seen>>

(* What may be read of a fetch at offset o: the messages from o, or from   *)
(* the start of the batch that o is in, up to where the response was cut   *)
(* or a message is damaged.  That readMessageSet gives no more and no less *)
(* is proved (FetchIsFetchable), except of a response with damage inside a *)
(* compressed batch, which is not among these: there readMessageSet passes *)
(* over the rest of the batch (LostInBatch), and the consumer with it.     *)
Ascending(S) ==
    CHOOSE s \in [1..Cardinality(S) -> S] :
        \A i, j \in 1..Cardinality(S) : i < j => s[i] < s[j]

Fetchable(o) ==
    LET first == SetMax({h \in heads : h <= o}) IN
    {Ascending({m \in stored : b <= m /\ m < cut}) :
        b \in {first, o}, cut \in 0..end}

-----------------------------------------------------------------------------
(* The offset after message m.  Mutant: one too far.                       *)
OffsetPast(m) == m + 2
OffsetAfter(m) == m + 1

(* Consume, a message being buffered.                                      *)
ConsumeBuffered ==
    LET msg == Head(msgbuf) IN
    /\ mode = "single"
    /\ pc = "idle"
    /\ msgbuf # <<>>
    /\ msgbuf' = Tail(msgbuf)
    /\ offset' = OffsetAfter(msg)
    /\ seen' = Append(seen, msg)
    /\ UNCHANGED <<logVars, mode, callVars, from>>

(* Consume with an empty buffer, or ConsumeBatch.                          *)
CallConsume ==
    /\ pc = "idle"
    /\ mode = "single" => msgbuf = <<>>
    /\ pc' = "fetch"
    /\ retry' = 0
    /\ try' = 0
    /\ resErr' = FALSE
    /\ failed' = 0
    /\ UNCHANGED <<logVars, consumerVars, from, seen>>

(* An attempt of fetch fails: no connection to the leader, or the request  *)
(* on it does.                                                             *)
Attempt(err) ==
    /\ pc = "fetch"
    /\ try < RetryErrLimit
    /\ try' = try + 1
    /\ resErr' = err
    /\ failed' = IF failed > RetryErrLimit THEN failed ELSE failed + 1
    /\ UNCHANGED <<logVars, consumerVars, pc, retry, from, seen>>

AttemptFails == Attempt(TRUE)

(* The response says that the leader is another broker or not available:   *)
(* the metadata is refreshed, and the error of the attempt is that of the  *)
(* request, nil.                                                           *)
AttemptNotLeader == Attempt(FALSE)

(* consume returns an error, and Consume with it (its buffer was empty).   *)
ReturnError ==
    /\ pc' = "idle"
    /\ UNCHANGED <<logVars, consumerVars, retry, try, resErr, failed, from, seen>>

(* Any other error in the response, or one without the partition, ends the *)
(* call: offset out of range, say.                                         *)
ResponseError ==
    /\ pc = "fetch"
    /\ try < RetryErrLimit
    /\ ReturnError

FetchError ==
    /\ pc = "fetch"
    /\ try = RetryErrLimit
    /\ resErr
    /\ ReturnError

(* An empty fetch is one retry more.  Mutants: the limit is off by one;    *)
(* retries are not counted.                                                *)
OutOfRetriesLate == RetryLimit # -1 /\ retry > RetryLimit
OutOfRetries == RetryLimit # -1 /\ retry + 1 > RetryLimit
NotCounted == UNCHANGED retry
OneMore == retry' = IF RetryLimit = -1 THEN 0 ELSE retry + 1

(* fetch returned no messages and no error, which is also how it ends when *)
(* its last attempt was answered by a broker that is not the leader.       *)
Empty ==
    \/ /\ try < RetryErrLimit
       /\ offset \in 0..end
       /\ failed' = 0
    \/ /\ try = RetryErrLimit
       /\ ~resErr
       /\ UNCHANGED failed

FetchEmpty ==
    /\ pc = "fetch"
    /\ ~OutOfRetries
    /\ Empty
    /\ OneMore
    /\ try' = 0
    /\ resErr' = FALSE
    /\ UNCHANGED <<logVars, consumerVars, pc, from, seen>>

(* ErrNoData.                                                              *)
NoData ==
    /\ pc = "fetch"
    /\ OutOfRetries
    /\ Empty
    /\ pc' = "idle"
    /\ UNCHANGED <<logVars, consumerVars, retry, try, resErr, from, seen>>

(* connection.Fetch drops the leading messages below the offset that was   *)
(* asked for.  Mutant: it does not.                                        *)
Untrimmed(msgs, o) == msgs
Trimmed(msgs, o) ==
    LET below == {i \in DOMAIN msgs : \A j \in 1..i : msgs[j] < o}
    IN  SubSeq(msgs, Cardinality(below) + 1, Len(msgs))

(* Messages: Consume keeps them and returns the first, ConsumeBatch        *)
(* returns them all.                                                       *)
FetchMessages ==
    /\ pc = "fetch"
    /\ try < RetryErrLimit
    /\ offset <= end
    /\ \E fetched \in Fetchable(offset) :
          LET msgs == Trimmed(fetched, offset) IN
          /\ msgs # <<>>
          /\ \/ /\ mode = "single"
                /\ msgbuf' = Tail(msgs)
                /\ offset' = OffsetAfter(Head(msgs))
                /\ seen' = Append(seen, Head(msgs))
             \/ /\ mode = "batch"
                /\ offset' = OffsetAfter(msgs[Len(msgs)])
                /\ seen' = seen \o msgs
                /\ UNCHANGED msgbuf
    /\ pc' = "idle"
    /\ failed' = 0
    /\ UNCHANGED <<logVars, mode, retry, try, resErr, from>>

(* SeekToLatest asks for the newest offset and, if it gets it, drops the   *)
(* buffer.                                                                 *)
SeekToLatest ==
    /\ mode = "single"
    /\ pc = "idle"
    /\ offset' = end
    /\ msgbuf' = <<>>
    /\ from' = end
    /\ seen' = <<>>
    /\ UNCHANGED <<logVars, mode, callVars>>

-----------------------------------------------------------------------------
PartitionNext ==
    \/ \E n \in 1..MaxOffset : AppendBatch(n)
    \/ \E m \in Offsets : RemoveMessage(m)

FetchNext ==
    \/ AttemptFails \/ AttemptNotLeader \/ ResponseError
    \/ FetchError \/ FetchEmpty \/ NoData \/ FetchMessages

Next ==
    \/ PartitionNext
    \/ ConsumeBuffered \/ CallConsume \/ FetchNext \/ SeekToLatest

Spec == Init /\ [][Next]_vars

(* Fairness: dials and requests time out, sleeps end.                      *)
Fairness == WF_vars(FetchNext)

FairSpec == Spec /\ Fairness

-----------------------------------------------------------------------------
(* The type invariant.                                                     *)
TypeOK ==
    /\ end \in 0..MaxOffset
    /\ stored \subseteq Offsets
    /\ heads \subseteq 0..MaxOffset
    /\ mode \in {"single", "batch"}
    /\ offset \in 0..MaxOffset
    /\ msgbuf \in Seq(Offsets)
    /\ pc \in {"idle", "fetch"}
    /\ retry \in 0..(IF RetryLimit = -1 THEN 0 ELSE RetryLimit)
    /\ try \in 0..RetryErrLimit
    /\ resErr \in BOOLEAN
    /\ from \in 0..MaxOffset
    /\ seen \in Seq(Offsets)
    /\ failed \in 0..(RetryErrLimit + 1)

(* At least once: the offset never passes a message that is in the         *)
(* partition and was not returned, unless by SeekToLatest (or by damage    *)
(* inside a compressed batch, which Fetchable leaves out).                 *)
NoLoss == \A m \in stored : from <= m /\ m < offset => m \in Range(seen)

(* Not twice, and in order: every message returned lies after those before *)
(* it and not before the start, whatever leading messages a compressed     *)
(* batch brings and whatever was buffered before SeekToLatest.             *)
NoRepeat ==
    \A j \in DOMAIN seen :
        /\ from <= seen[j]
        /\ \A i \in 1..(j - 1) : seen[i] < seen[j]

(* With a RetryLimit every call returns, whatever the brokers do.          *)
ConsumeReturns == pc = "fetch" ~> pc = "idle"

-----------------------------------------------------------------------------
(* "RetryErrLimit limits the number of retry attempts when an error is     *)
(* encountered."                                                           *)
RetryErrLimitHolds == failed <= RetryErrLimit
=============================================================================
