-------------------------------- MODULE Wire --------------------------------
(***************************************************************************)
(* The wire protocol (proto/messages.go, proto/serialization.go): what the *)
(* Bytes methods write and what the Read functions make of it.             *)
(*                                                                         *)
(* A frame is a sequence of cells, one for each value the encoder writes,  *)
(* and the unit of every size.  A message is described twice, by the       *)
(* layout its Bytes method writes and by the layout its Read function      *)
(* expects, for the two are separate code and need not agree.              *)
(*                                                                         *)
(* Durations are in half milliseconds, so that rounding shows.  Errors are *)
(* their numbers, 0 being nil.                                             *)
(***************************************************************************)
EXTENDS MessageSets

CONSTANTS
    LongStrings,   \* strings of 2^15 to 2^16 - 1 bytes: as an int16 their
                   \* length is negative (longer ones are not modelled: the
                   \* length wraps around, and a prefix is read)
    KnownErrors,   \* the keys of errnoToErr
    UnknownError   \* errFromNo's error for any other number

(* What a layout consists of: a field, a constant (written), a value that  *)
(* is dropped (read), an array of records or, with Item, of values, and a  *)
(* message set with its size before it.                                    *)
Field(type, name) == [how |-> "field", type |-> type, name |-> name]
Item(type) == Field(type, "")
Const(type, val) == [how |-> "const", type |-> type, val |-> val]
Skip(type) == [how |-> "skip", type |-> type]
Array(name, layout) == [how |-> "array", name |-> name, layout |-> layout]
Set(name) == [how |-> "set", name |-> name]

(* Fields that most messages have.                                         *)
Topics(partition) ==
    <<Array("Topics", <<Field("string", "Name"), Array("Partitions", partition)>>)>>

-----------------------------------------------------------------------------
(* The encoder and the decoder, value by value.                            *)
(* A string is its length, an int16, and its text; if the length turns     *)
(* negative it is read as "", and the text is left as whatever comes next. *)
EncodeString(v) ==
    IF v \in LongStrings THEN <<Cell("string", ""), Cell("text", v)>>
    ELSE <<Cell("string", v)>>

Encode(type, v) ==
    CASE type = "ms"     -> <<Cell("int32", v \div 2)>>
      [] type = "error"  -> <<Cell("int16", v)>>
      [] type = "string" -> EncodeString(v)
      [] OTHER           -> <<Cell(type, v)>>

errFromNo(n) == IF n \in KnownErrors \cup {0} THEN n ELSE UnknownError

Decode(type, cell) ==
    CASE type = "ms"    -> 2 * cell.val
      [] type = "error" -> errFromNo(cell.val)
      [] OTHER          -> cell.val

(* What was written as one type and is read as another is not what it was. *)
Encoded(type) == CASE type = "ms" -> "int32" [] type = "error" -> "int16" [] OTHER -> type
Readable(type, cell) == cell.type = Encoded(type)

-----------------------------------------------------------------------------
(* Writing a record by its layout.                                         *)
Value(m, name) == IF name = "" THEN m ELSE m[name]

RECURSIVE Write(_, _, _)

WriteEntry(e, m, compression) ==
    CASE e.how = "field" -> Encode(e.type, Value(m, e.name))
      [] e.how = "const" -> <<Cell(e.type, e.val)>>
      [] e.how = "array" ->
            LET a == m[e.name] IN
            <<Cell("int32", Len(a))>>
              \o FlattenSeq([i \in DOMAIN a |-> Write(e.layout, a[i], compression)])
      [] e.how = "set" ->
            LET s == writeMessageSet(m[e.name], compression) IN
            <<Cell("int32", Len(s))>> \o s

Write(layout, m, compression) ==
    FlattenSeq([i \in DOMAIN layout |-> WriteEntry(layout[i], m, compression)])

(* The size, which does not count itself, is put in front at the end.      *)
Bytes(layout, m, compression) ==
    LET body == Write(layout, m, compression) IN <<Cell("int32", Len(body))>> \o body

-----------------------------------------------------------------------------
(* Reading: the record so far, the cells that are left, and whether the    *)
(* decoder has met no error.  The first error is the result (d.err).       *)
With(m, name, v) ==
    IF name = "" THEN v
    ELSE [x \in DOMAIN m \cup {name} |-> IF x = name THEN v ELSE m[x]]

Stuck == [ok |-> FALSE, m |-> [x \in {} |-> 0], cells |-> <<>>]

RECURSIVE Read(_, _)

(* n records of an array, in order.                                        *)
RECURSIVE ReadArray(_, _, _)
ReadArray(layout, n, d) ==
    IF n = 0 \/ ~d.ok THEN d
    ELSE LET r == Read(layout, d.cells) IN
         ReadArray(layout, n - 1, [r EXCEPT !.m = Append(d.m, r.m)])

ReadEntry(d, e) ==
    LET c == d.cells[1]
        rest == Tail(d.cells)
        array == ReadArray(e.layout, c.val, [ok |-> TRUE, m |-> <<>>, cells |-> rest])
        size == IF c.val <= Len(rest) THEN c.val ELSE Len(rest)
        set == readMessageSet(SubSeq(rest, 1, size))
        after == SubSeq(rest, size + 1, Len(rest))
    IN
    IF ~d.ok \/ d.cells = <<>> THEN Stuck
    ELSE CASE e.how = "field" ->
                IF Readable(e.type, c)
                THEN [d EXCEPT !.m = With(@, e.name, Decode(e.type, c)), !.cells = rest]
                ELSE Stuck
           [] e.how = "skip" ->
                IF Readable(e.type, c) THEN [d EXCEPT !.cells = rest] ELSE Stuck
           [] e.how = "array" ->
                IF Readable("int32", c) /\ array.ok
                THEN [d EXCEPT !.m = With(@, e.name, array.m), !.cells = array.cells]
                ELSE Stuck
           [] e.how = "set" ->
                IF Readable("int32", c) /\ set.ok
                THEN [d EXCEPT !.m = With(@, e.name, set.set), !.cells = set.rest \o after]
                ELSE Stuck

Read(layout, cells) ==
    FoldLeft(ReadEntry, [ok |-> TRUE, m |-> [x \in {} |-> 0], cells |-> cells], layout)

(* The whole frame, of which the size says how long it is (ReadReq,        *)
(* ReadResp): the message in it, or none if it ends early.                 *)
ReadFrame(layout, cells) ==
    IF cells = <<>> \/ Len(cells) - 1 < cells[1].val THEN <<>>
    ELSE LET r == Read(layout, cells) IN IF r.ok THEN <<r.m>> ELSE <<>>
=============================================================================
