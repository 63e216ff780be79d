------------------------------- MODULE Decoder ------------------------------
(***************************************************************************)
(* amqp_decode (Codec/Decode/Decode.c). The bytes from index i of b are    *)
(* decoded to [items, index, valid]: the value decoded, the read index     *)
(* after it, and whether the type is valid (amqp_type_is_valid).           *)
(***************************************************************************)
EXTENDS Encoding

\* amqp_buffer_getc into the uint8_t format_code: -1 at the end becomes 0xFF
Getc(b, i) == IF i < Len(b) THEN b[i + 1] ELSE Base - 1

\* the bytes at i to i + n - 1
Slice(b, i, n) == [k \in 1 .. n |-> Getc(b, i + k - 1)]

Decoded(items, index) == [items |-> items, index |-> index, valid |-> TRUE]

\* decode_error
Invalid(index) == [items |-> <<Item("invalid", <<>>)>>, index |-> index, valid |-> FALSE]

\* amqp_decode returned NULL, and the slot of the element stays NULL
Missing(index) == [items |-> <<Item("missing", <<>>)>>, index |-> index, valid |-> FALSE]

\* not_implemented: the process ends
Aborted(b) == [items |-> <<Item("abort", <<>>)>>, index |-> Len(b), valid |-> FALSE]

\* amqp_buffer_check_available
CheckAvailable(b, i, n) == i < Len(b) /\ Len(b) - i >= n

\* amqp_buffer_read_size_field: -1 when the field is not there, and also when
\* all its 32 bits are set
ReadSizeField(b, i, w) ==
    IF ~CheckAvailable(b, i, w) THEN -1
    ELSE LET n == Unsigned(Slice(b, i, w)) IN IF w # 1 /\ n = Base ^ w - 1 THEN -1 ELSE n

AfterSizeField(b, i, w) == IF CheckAvailable(b, i, w) THEN i + w ELSE i

\* what the fixed width decoders store, a small number widened
FixedData(f, bytes) ==
    CASE f = "true" -> <<1>>
      [] f \in {"false", "uint0", "ulong0"} -> <<0>>
      [] f = "null" -> <<>>
      [] f = "uuid" -> bytes
      [] f \in {"byte", "short", "smallint", "int", "smalllong", "long"} -> <<Signed(bytes)>>
      [] OTHER -> <<Unsigned(bytes)>>

\* amqp_decode_fixed_width, amqp_decode_fixed_zero_width
DecodeFixed(b, i, f) ==
    LET w == MetaData[f].width
    IN  IF w = 0 \/ CheckAvailable(b, i, w)
        THEN Decoded(<<Item(MetaData[f].name, FixedData(f, Slice(b, i, w)))>>, i + w)
        ELSE Invalid(i)

\* amqp_decode_symbol, amqp_decode_string_utf8: the characters that are refused
Refused(name, c) ==
    \/ name = "symbol" /\ c >= Base \div 2
    \/ name = "string" /\ c = 0

\* amqp_construct_variable_type, with the checks of symbols and strings
DecodeVariable(b, i, f) ==
    LET w == MetaData[f].width
        name == MetaData[f].name
        size == ReadSizeField(b, i, w)
        start == AfterSizeField(b, i, w)
        bytes == Slice(b, start, size)
    IN  IF size = -1 \/ ~CheckAvailable(b, start, size) THEN Invalid(start)
        ELSE IF \E k \in 1 .. size : Refused(name, bytes[k]) THEN Invalid(start + size)
        ELSE Decoded(<<Item(name, bytes)>>, start + size)

RECURSIVE Decode(_, _), DecodeBody(_, _, _), DecodeElements(_, _, _, _)

\* n values one after the other (here the second half after the first), each
\* with its own constructor (f = "any") or with the constructor f of an array
DecodeElements(b, i, f, n) ==
    LET first == DecodeElements(b, i, f, n \div 2)
        rest == DecodeElements(b, first.index, f, n - n \div 2)
    IN  CASE n = 0 -> Decoded(<<>>, i)
          [] n = 1 -> IF f = "any" THEN Decode(b, i) ELSE DecodeBody(b, i, f)
          [] OTHER -> Decoded(first.items \o rest.items, rest.index)

\* amqp_decode_list_0
DecodeListZero(i) == Decoded(<<Item("list", <<>>), End>>, i)

\* amqp_decode_described_type
DecodeDescribed(b, i) ==
    LET descriptor == Decode(b, i)
        described == Decode(b, descriptor.index)
    IN  IF i = Len(b) THEN Invalid(i)
        ELSE IF descriptor.index = Len(b) THEN Invalid(descriptor.index)
        ELSE IF ~descriptor.valid \/ ~described.valid THEN Invalid(described.index)
        ELSE Decoded(<<Item("described", <<>>)>> \o descriptor.items \o described.items \o <<End>>,
                     described.index)

Contained(name, elements) ==
    Decoded(<<Item(name, <<>>)>> \o elements.items \o <<End>>, elements.index)

\* amqp_decode_list_list, amqp_decode_map_map, amqp_decode_array: the size is
\* compared with the buffer, and the elements are counted
DecodeContainer(b, i, f) ==
    LET w == MetaData[f].width
        name == MetaData[f].name
        size == ReadSizeField(b, i, w)
        start == AfterSizeField(b, i, w)
        count == ReadSizeField(b, start, w)
        first == AfterSizeField(b, start, w)
        constructor == Lookup(Getc(b, first))
    IN  CASE size = -1 \/ ~CheckAvailable(b, start, size) -> Invalid(start)
          [] OTHER ->
             CASE count = -1 -> Invalid(first)
               [] OTHER ->
                  CASE name # "array" -> Contained(name, DecodeElements(b, first, "any", count))
                    [] name = "array" /\ constructor = "unknown" -> Invalid(AfterSizeField(b, first, 1))
                    [] OTHER ->
                         Contained(name, DecodeElements(b, AfterSizeField(b, first, 1), constructor, count))

\* decode_type_into_result: the type_decoder of the format
DecodeBody(b, i, f) ==
    CASE f = "extension" -> Aborted(b)
      [] f = "list0" -> DecodeListZero(i)
      [] f = "described" -> DecodeDescribed(b, i)
      [] OTHER -> CASE MetaData[f].category = "fixed" -> DecodeFixed(b, i, f)
                    [] MetaData[f].category = "variable" -> DecodeVariable(b, i, f)
                    [] OTHER -> DecodeContainer(b, i, f)

\* amqp_decode, with decode_type_constructor_into_result
Decode(b, i) ==
    IF i = Len(b) THEN Missing(i)
    ELSE LET f == Lookup(Getc(b, i)) IN IF f = "unknown" THEN Invalid(i + 1) ELSE DecodeBody(b, i + 1, f)

\* The values of a buffer, decoded until its end
DecodeAll(b) ==
    LET RECURSIVE From(_)
        From(i) == IF i = Len(b) THEN <<>> ELSE LET v == Decode(b, i) IN v.items \o From(v.index)
    IN  From(0)
=============================================================================
