----------------------------- MODULE MessageSets -----------------------------
(***************************************************************************)
(* Message sets (proto/messages.go): what writeMessageSet writes, with     *)
(* CRCs and compression, and what readMessageSet makes of it; and the sets *)
(* that Kafka sends.                                                       *)
(*                                                                         *)
(* A set is a sequence of cells, one for each value the encoder writes,    *)
(* and the unit of every size.  A []byte is "nil", "empty" or a value, or  *)
(* a set of messages that was compressed.  CRCs do not collide.            *)
(***************************************************************************)
EXTENDS Integers, Sequences, FiniteSets, SequencesExt

Cell(type, val) == [type |-> type, val |-> val]

(* The cells of a message: offset and size, CRC, magic byte and            *)
(* compression, key and value; the CRC is of all that comes after it.      *)
ComputeCrc(m, compression) ==
    <<Cell("int8", 0), Cell("int8", compression), Cell("bytes", m.Key),
      Cell("bytes", m.Value)>>

Size == 5
Cells == 2 + Size

writeMessage(m, compression) ==
    LET content == ComputeCrc(m, compression) IN
    <<Cell("int64", m.Offset), Cell("int32", Size), Cell("uint32", content)>> \o content

(* A compressed set is one message, with the offset of the last.           *)
Compress(codec, set) == [codec |-> codec, set |-> set]

PlainSet(ms) == FlattenSeq([i \in DOMAIN ms |-> writeMessage(ms[i], 0)])

writeMessageSet(ms, compression) ==
    IF ms = <<>> \/ compression = 0 THEN PlainSet(ms)
    ELSE writeMessage([Key |-> "nil", Value |-> Compress(compression, PlainSet(ms)),
                       Offset |-> Last(ms).Offset], compression)

-----------------------------------------------------------------------------
(* A []byte of length 0 is read as nil.                                    *)
DecodeBytes(v) == IF v = "empty" THEN "nil" ELSE v

(* What comes of one message: messages, or the end of the set because its  *)
(* CRC is wrong, or an error because it cannot be decompressed, or by no   *)
(* known method.  inner is what reading the set compressed in it gives.     *)
(* Mutant: a wrong CRC only drops the message it is in.                    *)
Gives(ms) == [how |-> "messages", set |-> ms]
DropsOne == Gives(<<>>)
BadCrc == [how |-> "crc", set |-> <<>>]
Undecodable == [how |-> "error", set |-> <<>>]

readMessage(inner, c) ==
    LET compression == c[5].val IN
    IF c[3].val # SubSeq(c, 4, Cells) THEN BadCrc
    ELSE IF compression = 0
    THEN Gives(<<[Key |-> DecodeBytes(c[6].val), Value |-> DecodeBytes(c[7].val),
                     Offset |-> c[1].val]>>)
    ELSE IF compression = 3 \/ c[7].val.codec # compression \/ ~inner.ok THEN Undecodable
    ELSE Gives(inner.set)

(* Reading goes on until the cells are used up, also in the middle of a    *)
(* message, or a message ends it: what was read before is the result, if   *)
(* there is no error, and rest has the cells that were not read.           *)
Failed == [ok |-> FALSE, set |-> <<>>, rest |-> <<>>]

Collected(got, cells) ==
    LET n == Len(cells) \div Cells
        k == Cardinality({i \in 1..n : \A j \in 1..i : got[j].how = "messages"})
    IN
    IF k < n /\ got[k + 1].how = "error" THEN Failed
    ELSE [ok   |-> TRUE,
          set  |-> FlattenSeq([i \in 1..k |-> got[i].set]),
          rest |-> SubSeq(cells, (k + 1) * Cells + 1, Len(cells))]

Chunk(cells, i) == SubSeq(cells, (i - 1) * Cells + 1, i * Cells)

(* Bound: nobody compresses a set that has a compressed set in it, so      *)
(* there are two levels, and reading a third one is not modelled.          *)
readInnerSet(cells) ==
    Collected([i \in 1..(Len(cells) \div Cells) |-> readMessage(Failed, Chunk(cells, i))],
              cells)

Inner(c) == readInnerSet(c[7].val.set)

readMessageSet(cells) ==
    Collected([i \in 1..(Len(cells) \div Cells) |->
                  readMessage(Inner(Chunk(cells, i)), Chunk(cells, i))],
              cells)

-----------------------------------------------------------------------------
(* Kafka sends messages as it has them on the disk.  The first batch has   *)
(* the offset asked for in it, may begin before it and be compressed; what *)
(* comes after it is not.  A message may be damaged, in the compressed set *)
(* (in) or outside (out).                                                  *)
Damaged(cells, i) == IF i = 0 THEN cells ELSE [cells EXCEPT ![(i - 1) * Cells + 3].val = <<>>]

Packed(ms, codec, in) ==
    IF codec = 0 THEN PlainSet(ms)
    ELSE writeMessage([Key |-> "nil", Value |-> Compress(codec, Damaged(PlainSet(ms), in)),
                       Offset |-> Last(ms).Offset], codec)

KafkaSet(ms, b) ==
    Damaged(Packed(SubSeq(ms, 1, b.size), b.codec, b.in)
              \o PlainSet(SubSeq(ms, b.size + 1, Len(ms))), b.out)

TopLevel(ms, b) == Len(ms) - (IF b.codec = 0 THEN 0 ELSE b.size - 1)

(* How many of the messages ms come before the place where the set is cut  *)
(* off, after n cells, or damaged.                                         *)
Whole(b, n) ==
    LET k == IF b.out # 0 /\ b.out <= n \div Cells THEN b.out - 1 ELSE n \div Cells
    IN IF k = 0 \/ b.codec = 0 THEN k ELSE k + b.size - 1

(* What is lost on the way: a []byte of length 0 becomes nil.              *)
AsNil(v) == IF v = "empty" THEN "nil" ELSE v
MessageAsRead(m) == [Key |-> AsNil(m.Key), Value |-> AsNil(m.Value), Offset |-> m.Offset]
AsRead(ms) == [i \in DOMAIN ms |-> MessageAsRead(ms[i])]
=============================================================================
