-------------------------------- MODULE Codec -------------------------------
(***************************************************************************)
(* An application encodes values into a buffer (Codec/Encode/Encode.c),    *)
(* with containers opened, filled and completed in any order the API       *)
(* allows; the buffer is decoded by Decoder. The buffer is the sequence of *)
(* its bytes, which is what Buffer implements.                             *)
(*                                                                         *)
(* The functions that name an encoding (amqp_encode_small_int,             *)
(* amqp_encode_binary_vbin8...) are called with values that fit it.        *)
(***************************************************************************)
EXTENDS Decoder, FiniteSets

CONSTANTS
    Capacities,      \* capacities of buffers
    Numbers,         \* numbers given to the encoder
    Payloads,        \* data of binaries, strings and symbols
    Uses,            \* bound: [formats, items], the encodings that an application uses
                     \* and how many values, and ends of containers, it encodes
    Received,        \* bytes of buffers that come from elsewhere
    MaxReceived      \* bound: length of those buffers

VARIABLES
    use,             \* the application's choice among Uses
    capacity,        \* buffer->capacity
    buffer,          \* the bytes up to limit.size
    containers,      \* context->encode.container and its saved_containers, outermost first
    items,           \* history: what the application encoded
    lapses,          \* history: what happened that the buffer does not show
    refused,         \* the last call returned NULL
    fatal            \* why the process ended, or "no"

vars == <<use, capacity, buffer, containers, items, lapses, refused, fatal>>

Init ==
    /\ use \in Uses /\ capacity \in Capacities
    /\ buffer = <<>> /\ containers = <<>> /\ items = <<>> /\ lapses = {}
    /\ refused = FALSE /\ fatal = "no"

Running == fatal = "no" /\ Len(items) < use.items /\ "received" \notin lapses
Call(f) == Running /\ f \in use.formats

Die(why) == fatal' = why /\ UNCHANGED <<use, capacity, buffer, containers, items, lapses, refused>>

-----------------------------------------------------------------------------
(* Containers *)

Top == containers[Len(containers)]
Enclosing == SubSeq(containers, 1, Len(containers) - 1)

\* is_i_contained_within_array
WithinArray == containers # <<>> /\ MetaData[Top.format].name = "array"

\* amqp_buffer_check_free_space
CheckFreeSpace(needed) == Len(buffer) + needed <= capacity

\* amqp_type_match fails: an array's element has another encoding than the first
Mismatch(f) == WithinArray /\ Top.count > 0 /\ Top.constructor # f

\* amqp_add_element_to_container: a described type has two parts
OneTooMany == containers # <<>> /\ Top.format = "described" /\ Top.count = 2

\* initialize_type: the constructor's byte, of an array's elements only the first
Emitted(f) == IF WithinArray /\ Top.count > 0 THEN <<>> ELSE <<CodeOf[f]>>

\* initialize_type, amqp_add_element_to_container
Added(f) ==
    IF containers = <<>> THEN containers
    ELSE [containers EXCEPT ![Len(containers)] =
            [@ EXCEPT !.count = @ + 1, !.constructor = IF Top.count = 0 THEN f ELSE @]]

\* initialize_type with the bytes the caller puts after the constructor
Write(f, bytes, item) ==
    /\ buffer' = buffer \o Emitted(f) \o bytes
    /\ containers' = Added(f)
    /\ items' = Append(items, item)
    /\ lapses' = lapses \cup (IF Mismatch(f) THEN {"mixed array"} ELSE {})
    /\ refused' = FALSE
    /\ UNCHANGED <<use, capacity, fatal>>

\* the call returns NULL
Refuse == refused' = TRUE /\ UNCHANGED <<use, capacity, buffer, containers, items, lapses, fatal>>

-----------------------------------------------------------------------------
(* Values of fixed width *)

\* amqp_encode_fixed and the amqp_encode_fixed_ functions
EncodeFixed(f, bytes, data) ==
    /\ Call(f)
    /\ IF ~CheckFreeSpace(MetaData[f].width + 1) THEN Refuse
       ELSE IF OneTooMany THEN Die("third part of a described type")
       ELSE Write(f, bytes, Item(MetaData[f].name, data))

EncodeNumber(f, n) == EncodeFixed(f, ToBytes(n, MetaData[f].width), <<n>>)

EncodeNull == EncodeFixed("null", <<>>, <<>>)

\* amqp_encode_boolean: the result is used without a check
EncodeBoolean(v) ==
    LET f == IF WithinArray THEN "boolean" ELSE IF v = 1 THEN "true" ELSE "false"
    IN  IF Call(f) /\ ~CheckFreeSpace(MetaData[f].width + 1) THEN Die("null dereferenced")
        ELSE EncodeNumber(f, v)

UnsignedFits(n, w) == n \in 0 .. Base ^ w - 1
SignedFits(n, w) == n \in -(Base ^ w \div 2) .. Base ^ w \div 2 - 1

EncodeUbyte(n) == UnsignedFits(n, 1) /\ EncodeNumber("ubyte", n)
EncodeByte(n) == SignedFits(n, 1) /\ EncodeNumber("byte", n)
EncodeUshort(n) == UnsignedFits(n, Two) /\ EncodeNumber("ushort", n)
EncodeShort(n) == SignedFits(n, Two) /\ EncodeNumber("short", n)

EncodeSmallInt(n) == SignedFits(n, 1) /\ EncodeNumber("smallint", n)
EncodeSmallUint(n) == UnsignedFits(n, 1) /\ EncodeNumber("smalluint", n)
EncodeUintZero == EncodeNumber("uint0", 0)
EncodeUlongZero == EncodeNumber("ulong0", 0)
EncodeSmallUlong(n) == UnsignedFits(n, 1) /\ EncodeNumber("smallulong", n)
EncodeSmallLong(n) == SignedFits(n, 1) /\ EncodeNumber("smalllong", n)

\* value == (signed char) (value & 0xff)
SmallSigned(n) == n = Signed(ToBytes(n, 1))

EncodeInt(n) ==
    /\ SignedFits(n, Four)
    /\ IF SmallSigned(n) THEN EncodeSmallInt(n) ELSE EncodeNumber("int", n)

EncodeLong(n) ==
    /\ SignedFits(n, Eight)
    /\ IF SmallSigned(n) THEN EncodeSmallLong(n) ELSE EncodeNumber("long", n)

EncodeUint(n) ==
    /\ UnsignedFits(n, Four)
    /\ IF n = 0 THEN EncodeUintZero
       ELSE IF n < Base - 1 THEN EncodeSmallUint(n) ELSE EncodeNumber("uint", n)

EncodeUlong(n) ==
    /\ UnsignedFits(n, Eight)
    /\ IF n = 0 THEN EncodeUlongZero
       ELSE IF n < Base - 1 THEN EncodeSmallUlong(n) ELSE EncodeNumber("ulong", n)

-----------------------------------------------------------------------------
(* Values of variable width *)

\* amqp_buffer_puts when `filled' bytes are in the buffer: all of it or nothing
Puts(filled, bytes) == IF filled + Len(bytes) >= capacity THEN <<>> ELSE bytes

\* the result of puts is not looked at
WriteAndPut(f, header, bytes) ==
    LET put == Puts(Len(buffer \o Emitted(f) \o header), bytes)
    IN  /\ buffer' = buffer \o Emitted(f) \o header \o put
        /\ containers' = Added(f)
        /\ items' = Append(items, Item(MetaData[f].name, bytes))
        /\ lapses' = lapses \cup (IF Mismatch(f) THEN {"mixed array"} ELSE {})
                            \cup (IF put # bytes THEN {"data dropped"} ELSE {})
        /\ refused' = FALSE
        /\ UNCHANGED <<use, capacity, fatal>>

\* amqp_encode_simple_variable; amqp_encode_uuid, which has no size field
EncodePut(f, header, bytes) ==
    /\ Call(f)
    /\ IF ~CheckFreeSpace(Len(header) + 1 + Len(bytes)) THEN Refuse
       ELSE IF OneTooMany THEN Die("third part of a described type")
       ELSE WriteAndPut(f, header, bytes)

EncodeUuid(p) == Len(p) = Sixteen /\ EncodePut("uuid", <<>>, p)

EncodeVariable(f, p) ==
    LET w == MetaData[f].width
    IN  /\ UnsignedFits(Len(p), w)
        /\ \A k \in DOMAIN p : ~Refused(MetaData[f].name, p[k])
        /\ EncodePut(f, ToBytes(Len(p), w), p)

\* size < 256
Short(p) == Len(p) < Base

EncodeBinary(p) == EncodeVariable(IF Short(p) THEN "vbin8" ELSE "vbin32", p)
EncodeSymbol(p) == EncodeVariable(IF Short(p) THEN "sym8" ELSE "sym32", p)
EncodeString(p) == EncodeVariable(IF Short(p) THEN "str8" ELSE "str32", p)

\* the functions that name the encoding
EncodeBinaryAs(f, p) == f \in {"vbin8", "vbin32"} /\ EncodeVariable(f, p)
EncodeSymbolAs(f, p) == f \in {"sym8", "sym32"} /\ EncodeVariable(f, p)

-----------------------------------------------------------------------------
(* Containers opened and completed *)

\* encode_compound_type: a size and a count that are set by Complete
EncodeCompound(f) ==
    LET w == MetaData[f].width
    IN  /\ Call(f)
        /\ IF ~CheckFreeSpace(2 * w + 2) THEN Die("no room for a container")
           ELSE IF OneTooMany THEN Die("third part of a described type")
           ELSE /\ buffer' = buffer \o Emitted(f) \o ToBytes(w, w) \o ToBytes(0, w)
                /\ containers' =
                     Append(Added(f), [format |-> f, count |-> 0, constructor |-> "none",
                                       index |-> Len(buffer \o Emitted(f)) + w])
                /\ items' = Append(items, Item(MetaData[f].name, <<>>))
                /\ lapses' = lapses \cup (IF Mismatch(f) THEN {"mixed array"} ELSE {})
                /\ refused' = FALSE
                /\ UNCHANGED <<use, capacity, fatal>>

Overwritten(b, i, bytes) ==
    [k \in DOMAIN b |-> IF k \in i + 1 .. i + Len(bytes) THEN bytes[k - i] ELSE b[k]]

\* Mutant of Completed: the size is that of the elements, without the count.
CompletedUncounted ==
    LET w == MetaData[Top.format].width
        size == Len(buffer) - Top.index
    IN  Overwritten(buffer, Top.index - w, ToBytes(size - w, w) \o ToBytes(Top.count, w))

\* complete_container_type: size and count, each cut to the width of its field
Completed ==
    LET w == MetaData[Top.format].width
        size == Len(buffer) - Top.index
    IN  Overwritten(buffer, Top.index - w, ToBytes(size, w) \o ToBytes(Top.count, w))

\* complete_empty_list
CompletedEmptyList ==
    Append(SubSeq(buffer, 1, Len(buffer) - (2 * MetaData[Top.format].width + 1)), CodeOf["list0"])

\* What completing the innermost container leaves for the decoder to miss: an
\* array has no constructor without elements, a described type lacks a part,
\* and size or count do not fit
CompletionLapses ==
    {x \in {"empty array", "short described", "overflow"} :
       \/ x = "empty array" /\ MetaData[Top.format].name = "array" /\ Top.count = 0
       \/ x = "short described" /\ Top.format = "described" /\ Top.count < 2
       \/ x = "overflow" /\ MetaData[Top.format].width = 1
                         /\ (Len(buffer) - Top.index >= Base \/ Top.count >= Base)}

\* amqp_complete_type: the constructor of an array's elements must stay
WrittenAsEmptyList ==
    /\ MetaData[Top.format].name = "list" /\ Top.count = 0
    /\ ~(Enclosing # <<>> /\ MetaData[Enclosing[Len(Enclosing)].format].name = "array")

\* amqp_complete_type of the innermost container
Complete ==
    /\ Running /\ containers # <<>>
    /\ buffer' = IF WrittenAsEmptyList THEN CompletedEmptyList ELSE Completed
    /\ containers' = Enclosing
    /\ items' = Append(items, End)
    /\ lapses' = lapses \cup CompletionLapses
    /\ refused' = FALSE
    /\ UNCHANGED <<use, capacity, fatal>>

\* amqp_complete_type of another container: amqp_api_usage_error aborts unless
\* the context is configured to go on; the innermost is left as it was begun
CompleteOther ==
    /\ Running /\ Len(containers) > 1
    /\ \/ Die("usage error")
       \/ /\ containers' = Enclosing
          /\ items' = Append(items, End)
          /\ lapses' = lapses \cup {"other completed"}
          /\ refused' = TRUE
          /\ UNCHANGED <<use, capacity, buffer, fatal>>

\* a buffer that was not encoded here, for an application that only decodes
Receive ==
    /\ Running /\ use.formats = {}
    /\ \E n \in 1 .. MaxReceived : buffer' \in [1 .. n -> Received]
    /\ Len(buffer') <= capacity
    /\ lapses' = {"received"}
    /\ UNCHANGED <<use, capacity, containers, items, refused, fatal>>

Next ==
    \/ EncodeNull \/ EncodeUintZero \/ EncodeUlongZero \/ Complete \/ CompleteOther \/ Receive
    \/ \E v \in {0, 1} : EncodeBoolean(v)
    \/ \E n \in Numbers :
         \/ EncodeUbyte(n) \/ EncodeByte(n) \/ EncodeUshort(n) \/ EncodeShort(n)
         \/ EncodeSmallInt(n) \/ EncodeInt(n) \/ EncodeSmallUint(n) \/ EncodeUint(n)
         \/ EncodeSmallUlong(n) \/ EncodeUlong(n) \/ EncodeSmallLong(n) \/ EncodeLong(n)
    \/ \E p \in Payloads :
         \/ EncodeUuid(p) \/ EncodeBinary(p) \/ EncodeSymbol(p) \/ EncodeString(p)
         \/ \E f \in Formats : EncodeBinaryAs(f, p) \/ EncodeSymbolAs(f, p)
    \/ \E f \in {"list8", "list32", "map8", "map32", "array8", "array32", "described"} :
         EncodeCompound(f)

Spec == Init /\ [][Next]_vars

-----------------------------------------------------------------------------
(* Properties *)

TypeOK ==
    /\ capacity \in Capacities
    /\ use \in Uses /\ buffer \in Seq(Byte) /\ Len(items) <= use.items
    /\ \A k \in DOMAIN containers :
         /\ MetaData[containers[k].format].category = "compound"
         /\ containers[k].count \in Nat /\ containers[k].index \in 0 .. Len(buffer)
         /\ containers[k].constructor \in Formats \cup {"none"}
    /\ lapses \subseteq {"mixed array", "data dropped", "empty array", "short described",
                         "overflow", "other completed", "received"}
    /\ refused \in BOOLEAN
    /\ fatal \in {"no", "third part of a described type", "null dereferenced",
                  "no room for a container", "usage error"}

\* amqp_buffer_check_free_space, asked before each value, counts every byte
\* that the unchecked writes which follow it put: the buffer never overflows,
\* whatever containers are open, patched or shortened.
WithinCapacity == Len(buffer) <= capacity

Whole == containers = <<>> /\ lapses = {} /\ fatal = "no"

\* The last value is an empty binary, string or symbol, and no byte follows.
TrailingEmpty ==
    \E k \in DOMAIN items :
       /\ items[k][1] \in {"binary", "string", "symbol"} /\ items[k][2] = <<>>
       /\ \A m \in k + 1 .. Len(items) : items[m] = End

\* What amqp_encode_ calls write and amqp_complete_type patches, amqp_decode
\* reads as the same values in the same containers: of narrow and wide
\* encodings, with the constructor of an array's elements written once, empty
\* lists shortened, and calls refused for lack of room in between. Not when
\* the buffer ends with an empty value: amqp_buffer_check_available finds no
\* zero bytes at the end.
RoundTrip == Whole /\ ~TrailingEmpty => DecodeAll(buffer) = items

\* The value at i, passed over by its size field, as a reader does that is not
\* interested in it
RECURSIVE Skip(_, _)
Skip(b, i) ==
    LET f == Lookup(Getc(b, i))
        w == MetaData[f].width
    IN  CASE f = "described" -> Skip(b, Skip(b, i + 1))
          [] MetaData[f].category = "fixed" -> i + 1 + w
          [] OTHER -> i + 1 + w + Unsigned(Slice(b, i + 1, w))

\* The sizes that amqp_complete_type patches into containers are those of the
\* bytes their elements take: passing over the values of a buffer by their
\* sizes meets its end.
SizesAgree ==
    Whole => LET RECURSIVE Reaches(_)
                 Reaches(i) == i = Len(buffer) \/ (i < Len(buffer) /\ Reaches(Skip(buffer, i)))
             IN  Reaches(0)

\* amqp_decode of any bytes reads on, and not past the end of the buffer:
\* every container's count, array's constructor and value's size is checked
\* before the read index moves.
ReceivedInBounds ==
    "received" \in lapses =>
        \A i \in 0 .. Len(buffer) - 1 : Decode(buffer, i).index \in i + 1 .. Len(buffer)

\* amqp_buffer_puts, whose result the encoder ignores, drops the data of a
\* value only where the value would fill the buffer to the last byte: apart
\* from that amqp_buffer_check_free_space has made room for it.
DroppedOnlyAtTheBrim ==
    [][ "data dropped" \in lapses' \ lapses =>
          Len(buffer') + Len(items'[Len(items')][2]) = capacity ]_vars
=============================================================================
