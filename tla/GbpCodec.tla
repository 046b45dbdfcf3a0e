------------------------------- MODULE GbpCodec -------------------------------
(***************************************************************************)
(* GBP, the binary form of responses (src/gbp.rs).  The encoder numbers the   *)
(* containers it writes and writes a reference for one whose shallow hash it  *)
(* has met; the decoder numbers the containers it reads and must come to the  *)
(* same numbers.  Lists of objects with the same keys are written by column,  *)
(* runs of equal scalars once, very long lists in chunks with numbers of      *)
(* their own.  The pools of strings and of shapes are left out: a token holds *)
(* the keys or the scalar itself.                                             *)
(***************************************************************************)
EXTENDS Naturals, Sequences
LOCAL INSTANCE SequencesExt

CONSTANTS
    GbpValues,      \* the values that are encoded
    ColumnarMin,    \* 8 in the code
    RleMin,         \* 15: equal values that must follow the first
    ParallelOver,   \* 50000
    ChunkSize       \* 25000

ASSUME GbpAssumption ==
    {ColumnarMin, RleMin, ParallelOver, ChunkSize} \subseteq Nat \ {0}

\* JSON values.  An object has its keys in the order of serde_json's map.
GbpNull == [kind |-> "null"]
GbpBool(b) == [kind |-> "bool", value |-> b]
GbpNumber(n) == [kind |-> "number", value |-> n]
GbpArray(items) == [kind |-> "array", items |-> items]
GbpObject(keys, items) == [kind |-> "object", keys |-> keys, items |-> items]

IsContainer(v) == v.kind \in {"array", "object"}

\* The marks an empty field and an error; no value is one of them.
NotYet == [kind |-> "not yet"]
Invalid == [kind |-> "invalid"]

-----------------------------------------------------------------------------
\* hash_value_shallow: what is fed to the hasher, to which a small number, a boolean and
\* a length of the same value are one; the hash itself is taken to be injective.
Shallow(v) ==
    CASE v.kind = "null" -> <<0>>
      [] v.kind = "bool" -> IF v.value THEN <<1>> ELSE <<0>>
      [] v.kind = "number" -> <<v.value>>
      [] v.kind = "array" -> <<1, Len(v.items)>>
      [] v.kind = "object" -> <<2, Len(v.items)>>

\* The key of position_map: an object's shape and all its values, a list's length and
\* its ends.
DedupKey(v) ==
    IF v.kind = "object"
    THEN [shape |-> v.keys, hash |-> FlattenSeq([i \in DOMAIN v.items |-> Shallow(v.items[i])])]
    ELSE [shape |-> <<>>,
          hash |-> <<Len(v.items)>>
              \o (IF v.items = <<>> THEN <<>> ELSE Shallow(Head(v.items)))
              \o (IF Len(v.items) > 1 THEN Shallow(Last(v.items)) ELSE <<>>)]

\* try_encode_columnar: objects with the same keys.
Columnar(items) ==
    /\ Len(items) >= ColumnarMin
    /\ \A i \in DOMAIN items : items[i].kind = "object" /\ items[i].keys = items[1].keys

Column(items, k) == [i \in DOMAIN items |-> items[i].items[k]]

\* How many of the values after the first equal it; containers are not compared.
Run(column) ==
    IF IsContainer(Head(column)) THEN 0
    ELSE LET others == {i \in DOMAIN column : column[i] # Head(column)} IN
         IF others = {} THEN Len(column) - 1
         ELSE (CHOOSE i \in others : \A j \in others : i <= j) - 2

-----------------------------------------------------------------------------
\* The encoder: what it has written, position_map, value_counter.
FreshEncoder == [out |-> <<>>, position |-> [k \in {} |-> 0], counter |-> 0]

Emit(e, token) == [e EXCEPT !.out = Append(@, token)]

\* A container that was written gets the next number.
Number(e, v) ==
    [e EXCEPT !.position = [k \in DOMAIN @ \cup {DedupKey(v)} |->
                                IF k = DedupKey(v) THEN e.counter ELSE @[k]],
              !.counter = @ + 1]

RECURSIVE Encode(_, _), EncodeColumn(_, _), EncodeList(_, _)

EncodeAll(e, items) == FoldLeft(LAMBDA s, x : Encode(s, x), e, items)

\* One column, runs first.
EncodeColumn(e, column) ==
    IF column = <<>> THEN e
    ELSE IF Run(column) >= RleMin
    THEN EncodeColumn(
           Encode(Emit(e, [tag |-> "rle", count |-> Run(column) + 1]), Head(column)),
           SubSeq(column, Run(column) + 2, Len(column)))
    ELSE EncodeColumn(Encode(e, Head(column)), Tail(column))

\* The body of a list: by column, or item by item.
EncodeList(e, items) ==
    IF Columnar(items)
    THEN FoldLeft(LAMBDA s, k : EncodeColumn(s, Column(items, k)),
                  Emit(e, [tag |-> "columnar", count |-> Len(items), keys |-> items[1].keys]),
                  [k \in DOMAIN items[1].keys |-> k])
    ELSE EncodeAll(Emit(e, [tag |-> "array", count |-> Len(items)]), items)

\* try_encode_parallel: chunks, each by an encoder of its own (encode_slice).
Chunks(items) ==
    [c \in 1..((Len(items) + ChunkSize - 1) \div ChunkSize) |->
        SubSeq(items, (c - 1) * ChunkSize + 1,
               IF c * ChunkSize < Len(items) THEN c * ChunkSize ELSE Len(items))]

Known(e, v) == DedupKey(v) \in DOMAIN e.position
Refer(e, v) == Emit(e, [tag |-> "ref", index |-> e.position[DedupKey(v)]])

\* encode_recursive.
Encode(e, v) ==
    CASE ~IsContainer(v) -> Emit(e, [tag |-> "scalar", value |-> v])
      [] v.kind = "object" /\ v.items = <<>> -> Emit(e, [tag |-> "object", keys |-> <<>>])
      [] v.kind = "array" /\ Len(v.items) > ParallelOver ->
           Emit(e, [tag |-> "parallel",
                     chunks |-> [c \in DOMAIN Chunks(v.items) |->
                                    EncodeList(FreshEncoder, Chunks(v.items)[c]).out]])
      [] v.kind = "object" /\ v.items # <<>> ->
           IF Known(e, v) THEN Refer(e, v)
           ELSE Number(EncodeAll(Emit(e, [tag |-> "object", keys |-> v.keys]), v.items), v)
      [] v.kind = "array" /\ Len(v.items) <= ParallelOver ->
           IF Known(e, v) THEN Refer(e, v) ELSE Number(EncodeList(e, v.items), v)

-----------------------------------------------------------------------------
\* The decoder: what is left to read, value_pool, the run it is in, and what it has
\* read last.
FreshDecoder(tokens) ==
    [rest |-> tokens, pool |-> <<>>, run |-> 0, runValue |-> Invalid, value |-> Invalid]

\* A container that was read gets the next number, unless it is empty.
Pool(d, v) == [d EXCEPT !.value = v, !.pool = IF v.items = <<>> THEN @ ELSE Append(@, v)]

Skip(d) == [d EXCEPT !.rest = Tail(@)]

RECURSIVE Decode(_)

\* The next n values, in order; an invalid one makes the whole invalid.
DecodeMany(d, n) ==
    FoldLeft(LAMBDA s, i : LET next == Decode(s.d) IN [d |-> next, items |-> Append(s.items, next.value)],
             [d |-> d, items |-> <<>>], [i \in 1..n |-> i])

IsValid(items) == \A i \in DOMAIN items : items[i] # Invalid

\* A container of the n values that follow, as Make puts them together.
DecodeContainer(d, n, Make(_)) ==
    LET many == DecodeMany(Skip(d), n)
    IN  IF IsValid(many.items) THEN Pool(many.d, Make(many.items))
        ELSE [many.d EXCEPT !.value = Invalid]

\* Columns back to rows.
Rows(token, cells) ==
    [i \in 1..token.count |->
        GbpObject(token.keys,
                  [k \in DOMAIN token.keys |-> cells[(k - 1) * token.count + i]])]

\* Each chunk by a decoder of its own.
DecodeChunks(chunks) ==
    LET lists == [c \in DOMAIN chunks |-> Decode(FreshDecoder(chunks[c])).value]
    IN  IF IsValid(lists) THEN GbpArray(FlattenSeq([c \in DOMAIN chunks |-> lists[c].items]))
        ELSE Invalid

\* Mutant of DecodeColumnar: the list it returns is not pooled.
DecodeColumnarUnpooled(d, token) ==
    LET many == DecodeMany(Skip(d), token.count * Len(token.keys))
    IN  [many.d EXCEPT !.value = IF IsValid(many.items) THEN GbpArray(Rows(token, many.items))
                                 ELSE Invalid]

DecodeColumnar(d, token) ==
    DecodeContainer(d, token.count * Len(token.keys),
                    LAMBDA cells : GbpArray(Rows(token, cells)))

\* decode_recursive.
Decode(d) ==
    IF d.run > 0 THEN [d EXCEPT !.run = @ - 1, !.value = d.runValue]
    ELSE LET token == Head(d.rest) IN
    CASE token.tag = "scalar" -> [Skip(d) EXCEPT !.value = token.value]
      [] token.tag = "ref" ->
           [Skip(d) EXCEPT !.value = IF token.index < Len(d.pool) THEN d.pool[token.index + 1]
                                     ELSE Invalid]
      [] token.tag = "rle" ->
           LET first == Decode(Skip(d))
           IN  [first EXCEPT !.run = token.count - 1, !.runValue = first.value]
      [] token.tag = "parallel" -> [Skip(d) EXCEPT !.value = DecodeChunks(token.chunks)]
      [] token.tag = "array" -> DecodeContainer(d, token.count, GbpArray)
      [] token.tag = "object" ->
           DecodeContainer(d, Len(token.keys), LAMBDA items : GbpObject(token.keys, items))
      [] token.tag = "columnar" -> DecodeColumnar(d, token)

-----------------------------------------------------------------------------
VARIABLES
    plain,     \* the value
    encoded,   \* its tokens, <<>> before encode
    decoded    \* what decode makes of them, NotYet before

gbpVars == <<plain, encoded, decoded>>

GbpInit == plain \in GbpValues /\ encoded = <<>> /\ decoded = NotYet

GbpEncode ==
    /\ encoded = <<>>
    /\ encoded' = Encode(FreshEncoder, plain).out
    /\ UNCHANGED <<plain, decoded>>

GbpDecode ==
    /\ encoded # <<>> /\ decoded = NotYet
    /\ decoded' = Decode(FreshDecoder(encoded)).value
    /\ UNCHANGED <<plain, encoded>>

GbpNext == GbpEncode \/ GbpDecode

GbpSpec == GbpInit /\ [][GbpNext]_gbpVars

-----------------------------------------------------------------------------
RECURSIVE Containers(_)
\* A value's containers, itself included.
Containers(v) ==
    IF IsContainer(v)
    THEN {v} \cup UNION {Containers(v.items[i]) : i \in DOMAIN v.items}
    ELSE {}

\* The two weak points of the format: the shallow hash, which is all the encoder compares,
\* and the empty list, which the encoder numbers and the decoder does not.
TellsApart(v) ==
    /\ \A x, y \in Containers(v) : x # y => DedupKey(x) # DedupKey(y)
    /\ GbpArray(<<>>) \notin Containers(v)

\* Whatever mixture of references, columns, runs and chunks a value is written with, the
\* decoder gives it back, as long as no two different containers have one shallow hash
\* and no list is empty.
RoundTrips == decoded # NotYet /\ TellsApart(plain) => decoded = plain

\* CHANGELOG.md:1202, "resolve hash collisions by verifying value equality, ensuring 100%
\* data integrity": the same for every value.
AllRoundTrip == decoded # NotYet => decoded = plain

=============================================================================
