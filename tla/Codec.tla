-------------------------------- MODULE Codec --------------------------------
(***************************************************************************)
(* The serialization engine of utils/include/Serialize.hpp and the         *)
(* message structs that SerializableStruct.hpp and Messages.hpp declare.   *)
(*                                                                         *)
(* A type is a record describing its shape, as Serialize's `if constexpr`  *)
(* chain tells them apart:                                                 *)
(*   [k |-> "struct", fields |-> <<T1, ...>>]   DECLARE_SERIALIZABLE        *)
(*   [k |-> "monostate"]                                                   *)
(*   [k |-> "pair", fst |-> T1, snd |-> T2]                                *)
(*   [k |-> "enum", card |-> n]                 enum class with END = n     *)
(*   [k |-> "u8"]                               sizeof(T) == 1              *)
(*   [k |-> "int", w |-> bytes, signed |-> b]   other integral types        *)
(*   [k |-> "variant", alts |-> <<T1, ...>>]    std::variant                *)
(*   [k |-> "bytes"]                            std::string, vector<uint8_t>*)
(*   [k |-> "seq", elem |-> T]                  other containers            *)
(* Values: an integer is the sequence of its w bytes, big-endian (two's   *)
(* complement when signed), so truncation and sign extension are byte     *)
(* operations and no value exceeds TLC's integers; an enum is its ordinal; *)
(* a struct or pair is the tuple of its fields; a variant is              *)
(* [alt |-> i, val |-> v] for its i-th alternative; a container is the    *)
(* sequence of its elements; monostate is <<>>.                           *)
(***************************************************************************)
EXTENDS Naturals, Sequences, SequencesExt

CONSTANTS
    MaxLen,        \* longest string or container in the values checked
    ContentBytes,  \* bytes that strings are made of
    FlipBytes,     \* bytes written over an encoding to corrupt it
    TestTypes,     \* names of the Catalog types whose values are checked
    SampleAlts     \* alternatives of a variant whose values are enumerated

B == 98    \* 'b', the container start marker
E == 101   \* 'e', the container end marker

\* A 64-bit count on the wire whose value is at least this is larger than
\* any input of the model; it behaves like any other count that large.
Huge == 256

ASSUME /\ MaxLen \in Nat
       /\ ContentBytes \subseteq 0..255 /\ FlipBytes \subseteq 0..255

-----------------------------------------------------------------------------
(* Encoding: Serialize::serialize.                                         *)

\* serialize<uint64_t>(n) of a count or variant index below 256.
U64Of(n) == <<0, 0, 0, 0, 0, 0, 0, n>>

\* htobe64(static_cast<uint64_t>(what)): a narrower integer is zero- or
\* sign-extended to the 8 bytes every integer takes on the wire.
Widen(t, v) ==
    LET fill == IF t.signed /\ v[1] >= 128 THEN 255 ELSE 0
    IN [i \in 1..(8 - t.w) |-> fill] \o v

RECURSIVE Encode(_, _), EncodeAll(_, _), EncodeEach(_, _)

\* The bytes serialize(what, out) appends for a value v of type t.
Encode(t, v) ==
    CASE t.k = "struct"    -> EncodeAll(t.fields, v)
      [] t.k = "monostate" -> <<>>
      [] t.k = "pair"      -> Encode(t.fst, v[1]) \o Encode(t.snd, v[2])
      [] t.k = "enum"      -> U64Of(v)
      [] t.k = "u8"        -> <<v>>
      [] t.k = "int"       -> Widen(t, v)
      [] t.k = "variant"   -> U64Of(v.alt) \o Encode(t.alts[v.alt], v.val)
      [] t.k = "bytes"     -> U64Of(Len(v)) \o <<B>> \o v \o <<E>>
      [] t.k = "seq"       -> U64Of(Len(v)) \o <<B>> \o EncodeEach(t.elem, v) \o <<E>>

\* SERIALIZE_FIELD for each field in declared order.
EncodeAll(ts, vs) ==
    IF ts = <<>> THEN <<>> ELSE Encode(Head(ts), Head(vs)) \o EncodeAll(Tail(ts), Tail(vs))

\* The element loop of the container branch.
EncodeEach(t, vs) ==
    IF vs = <<>> THEN <<>> ELSE Encode(t, Head(vs)) \o EncodeEach(t, Tail(vs))

-----------------------------------------------------------------------------
(* Decoding: Serialize::deserializeOpt.  A result is [ok, val, pos], pos   *)
(* being the iterator `in` (1-based) when the call returns or throws.      *)

Ok(v, p) == [ok |-> TRUE, val |-> v, pos |-> p]
Fail(p)  == [ok |-> FALSE, val |-> <<>>, pos |-> p]

\* std::distance(in, end).
Avail(in, p) == Len(in) + 1 - p

\* n bytes copied from in onwards; past the end of the buffer the copy
\* reads whatever memory holds (0 here).
Bytes(in, p, n) == [i \in 1..n |-> IF p + i - 1 <= Len(in) THEN in[p + i - 1] ELSE 0]

\* The value of 8 wire bytes used as a count or index: Huge when any high
\* byte is set.
Count(bs) == IF \A i \in 1..7 : bs[i] = 0 THEN bs[8] ELSE Huge

\* static_cast<T>(be64toh(tmp)) for a T of w bytes: the low w bytes.
Trunc(bs, w) == SubSeq(bs, 9 - w, 8)

\* The integral branch's check that 8 bytes remain.
IntFitsUnchecked(in, p) == TRUE
IntFits(in, p) == Avail(in, p) >= 8

\* The integral branch: 8 bytes, big-endian, if they are there.
DecodeU64(in, p) ==
    IF IntFits(in, p) THEN Ok(Bytes(in, p, 8), p + 8) ELSE Fail(p)

\* deserialize<char>: the `in >= end` check, then one byte.
ReadChar(in, p) == IF p > Len(in) THEN Fail(p) ELSE Ok(in[p], p + 1)

\* `*index - 1` on the wire index: index 0 wraps to 2^64 - 1, which no
\* alternative has.
VarIndexNoShift(c) == c
VarIndex(c) == IF c = 0 THEN Huge ELSE c - 1

\* The char-vector branch's check that size bytes remain.
BytesFitUnchecked(in, p, n) == TRUE
BytesFit(in, p, n) == Avail(in, p) >= n

RECURSIVE Decode(_, _, _), DecodeFields(_, _, _, _), DecodeElems(_, _, _, _, _)

\* deserializeVar: the alternative whose 0-based index is readIdx.
DecodeVar(t, readIdx, in, p) ==
    IF readIdx \in 0..(Len(t.alts) - 1)
    THEN LET r == Decode(t.alts[readIdx + 1], in, p)
         IN IF r.ok THEN Ok([alt |-> readIdx + 1, val |-> r.val], r.pos) ELSE r
    ELSE Fail(p)

\* The container branch: <count> 'b' <elements> 'e'.
DecodeContainer(t, in, p) ==
    LET n == DecodeU64(in, p)
        b == ReadChar(in, n.pos)
        size == Count(n.val)
        body == IF t.k = "bytes"
                THEN IF BytesFit(in, b.pos, size)
                     THEN Ok(Bytes(in, b.pos, size), b.pos + size)
                     ELSE Fail(b.pos)
                ELSE DecodeElems(t.elem, size, in, b.pos, <<>>)
        e == ReadChar(in, body.pos)
    IN CASE ~n.ok                 -> n
         [] ~b.ok \/ b.val # B    -> Fail(b.pos)
         [] ~body.ok              -> body
         [] ~e.ok \/ e.val # E    -> Fail(e.pos)
         [] OTHER                 -> Ok(body.val, e.pos)

\* deserializeOpt<T>(in, end) for a T of shape t.
Decode(t, in, p) ==
    CASE t.k = "struct"    -> DecodeFields(t.fields, in, p, <<>>)
      [] t.k = "monostate" -> Ok(<<>>, p)
      [] p > Len(in)       -> Fail(p)
      [] t.k = "pair"      ->
            LET a == Decode(t.fst, in, p)
                s == Decode(t.snd, in, a.pos)
            IN IF ~a.ok THEN a ELSE IF ~s.ok THEN s ELSE Ok(<<a.val, s.val>>, s.pos)
      [] t.k = "enum"      ->
            LET x == DecodeU64(in, p)
                u == Trunc(x.val, 4)
            IN IF ~x.ok THEN x
               ELSE IF u[1] = 0 /\ u[2] = 0 /\ u[3] = 0 /\ u[4] < t.card
                    THEN Ok(u[4], x.pos) ELSE Fail(x.pos)
      [] t.k = "u8"        -> IF Avail(in, p) < 1 THEN Fail(p) ELSE Ok(in[p], p + 1)
      [] t.k = "int"       ->
            LET x == DecodeU64(in, p)
            IN IF x.ok THEN Ok(Trunc(x.val, t.w), x.pos) ELSE x
      [] t.k = "variant"   ->
            LET x == DecodeU64(in, p)
            IN IF x.ok THEN DecodeVar(t, VarIndex(Count(x.val)), in, x.pos) ELSE x
      [] t.k \in {"bytes", "seq"} -> DecodeContainer(t, in, p)

\* READ_FIELD for each field in declared order; a failing field throws.
DecodeFields(ts, in, p, acc) ==
    IF ts = <<>> THEN Ok(acc, p)
    ELSE LET r == Decode(Head(ts), in, p)
         IN IF r.ok THEN DecodeFields(Tail(ts), in, r.pos, Append(acc, r.val)) ELSE r

\* The element loop: `for (i = 0; i < *size; i++) deserialize<V>`.
DecodeElems(t, n, in, p, acc) ==
    IF n = 0 THEN Ok(acc, p)
    ELSE LET r == Decode(t, in, p)
         IN IF r.ok THEN DecodeElems(t, n - 1, in, r.pos, Append(acc, r.val)) ELSE r

-----------------------------------------------------------------------------
(* The message types of Messages.hpp that the checks exercise.             *)

Str    == [k |-> "bytes"]                            \* std::string
Blob   == [k |-> "bytes"]                            \* std::vector<uint8_t>
I32    == [k |-> "int", w |-> 4, signed |-> TRUE]    \* int
I64    == [k |-> "int", w |-> 8, signed |-> TRUE]    \* int64_t, long
U64    == [k |-> "int", w |-> 8, signed |-> FALSE]   \* uint64_t
FileTy == [k |-> "enum", card |-> 4]                 \* FileType, END = 4
Struct(fs) == [k |-> "struct", fields |-> fs]

\* The 33 alternatives of AnyMsgT, in declaration order (the order fixes
\* the index on the wire).
AnyMsgAlts ==
    << Struct(<<Str>>),                             \* ErrorReply
       Struct(<<>>), Struct(<<>>),                  \* KeepAliveReq, KeepAliveReply
       Struct(<<Str, Str>>), Struct(<<>>),          \* LoginReq, LoginReply
       Struct(<<Str>>), Struct(<<FileTy, U64, U64, U64>>),        \* Getattr
       Struct(<<Str>>), Struct(<<[k |-> "seq", elem |-> Str]>>),  \* Readdir
       Struct(<<Str>>), Struct(<<I32>>),            \* Open
       Struct(<<Str, I64, U64>>), Struct(<<Blob>>), \* Read
       Struct(<<Str, I64, U64, Blob>>), Struct(<<I32>>),          \* Write
       Struct(<<Str, I32>>), Struct(<<I32>>),       \* Create
       Struct(<<Str, I32>>), Struct(<<I32>>),       \* Mkdir
       Struct(<<Str>>), Struct(<<I32>>),            \* Rmdir
       Struct(<<Str>>), Struct(<<I32>>),            \* Unlink
       Struct(<<Str, I64>>), Struct(<<I32>>),       \* Truncate
       Struct(<<Str, Str>>), Struct(<<I32>>),       \* Rename
       Struct(<<Str, I64, I64, I64, I64>>), Struct(<<I32>>),      \* UTimens
       Struct(<<I32, U64, U64, U64, U64, U64, U64, U64, U64, U64>>),  \* StatfsReply
       Struct(<<Str>>),                             \* StatfsReq
       Struct(<<Str, I32>>), Struct(<<I32>>) >>     \* Chmod

Catalog ==
    [FileType     |-> FileTy,
     LoginReq     |-> AnyMsgAlts[4],
     LoginReply   |-> AnyMsgAlts[5],
     GetattrReply |-> AnyMsgAlts[7],
     ReaddirReply |-> AnyMsgAlts[9],
     OpenReply    |-> AnyMsgAlts[11],
     ReadReq      |-> AnyMsgAlts[12],
     AnyMsg       |-> [k |-> "variant", alts |-> AnyMsgAlts]]

\* Integer values that exercise the byte layout: zero, one, all ones (-1
\* when signed) and, when signed, the sign bit alone.
IntSamples(t) ==
    {[i \in 1..t.w |-> 0], [i \in 1..t.w |-> IF i = t.w THEN 1 ELSE 0], [i \in 1..t.w |-> 255]}
    \cup (IF t.signed THEN {[i \in 1..t.w |-> IF i = 1 THEN 128 ELSE 0]} ELSE {})

RECURSIVE ValuesOf(_), ValuesAll(_)

\* The values of type t that the checks enumerate.
ValuesOf(t) ==
    CASE t.k = "struct"    -> ValuesAll(t.fields)
      [] t.k = "monostate" -> {<<>>}
      [] t.k = "pair"      -> {<<a, b>> : a \in ValuesOf(t.fst), b \in ValuesOf(t.snd)}
      [] t.k = "enum"      -> 0..(t.card - 1)
      [] t.k = "u8"        -> ContentBytes
      [] t.k = "int"       -> IntSamples(t)
      [] t.k = "variant"   -> UNION {{[alt |-> i, val |-> v] : v \in ValuesOf(t.alts[i])} :
                                     i \in SampleAlts \cap DOMAIN t.alts}
      [] t.k = "bytes"     -> SeqOf(ContentBytes, MaxLen)
      [] t.k = "seq"       -> SeqOf(ValuesOf(t.elem), MaxLen)

ValuesAll(ts) ==
    IF ts = <<>> THEN {<<>>}
    ELSE {<<h>> \o r : h \in ValuesOf(Head(ts)), r \in ValuesAll(Tail(ts))}

-----------------------------------------------------------------------------
(* One decode call per state: the bytes of a value's encoding, a strict    *)
(* prefix of them (a truncated frame), or the encoding with one byte       *)
(* overwritten (a corrupted frame).                                        *)

VARIABLES
    ty,     \* name of the type decoded
    orig,   \* the value whose encoding the input comes from
    form,   \* "exact", "prefix" or "corrupt"
    input   \* the bytes given to Serialize::deserialize<T>

wireVars == <<ty, orig, form, input>>

Inputs(t, v) ==
    LET enc == Encode(t, v) IN
    {[form |-> "exact", input |-> enc]}
    \cup {[form |-> "prefix", input |-> SubSeq(enc, 1, n)] : n \in 0..(Len(enc) - 1)}
    \cup UNION {{[form |-> "corrupt", input |-> [enc EXCEPT ![i] = x]] : x \in FlipBytes \ {enc[i]}} :
                 i \in 1..Len(enc)}

DecodeInit ==
    \E name \in TestTypes :
    \E v \in ValuesOf(Catalog[name]) :
        \E c \in Inputs(Catalog[name], v) :
            /\ ty = name /\ orig = v /\ form = c.form /\ input = c.input

\* Decoding has no state: every state is a terminal one.
DecodeSpec == DecodeInit /\ [][UNCHANGED wireVars]_wireVars

\* Serialize::deserialize<T>(data): a top-level decode from the first byte.
Decoded == Decode(Catalog[ty], input, 1)

-----------------------------------------------------------------------------
(* Properties.                                                             *)

\* Spec "Codec round-trip": deserialize of the exact bytes serialize
\* produced yields the original value and consumes exactly those bytes,
\* for every shape (variant index + 1 and - 1, sign extension and
\* truncation of narrow integers, enum range check, nested containers).
RoundTrip ==
    form = "exact" =>
        /\ Decoded.ok
        /\ Decoded.pos = Len(input) + 1
        /\ Decoded.val = orig

\* Spec "Decode truncation": a strict prefix of a valid encoding never
\* decodes; the length checks of the integral and char-vector branches
\* and the container markers catch every cut.
TruncationRejected ==
    form = "prefix" => ~Decoded.ok

\* Spec contract: decoding never reads past the supplied byte range, even
\* on corrupted counts and indices.
InBounds ==
    Decoded.pos <= Len(input) + 1

=============================================================================
