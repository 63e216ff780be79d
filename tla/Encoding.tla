------------------------------ MODULE Encoding ------------------------------
(***************************************************************************)
(* The encodings of AMQP values that encoder and decoder share: the table  *)
(* of format codes (Codec/Type/EncodingMetaData.c) and numbers as bytes    *)
(* (the amqp_hton_ and amqp_ntoh_ functions of Buffer/BufferInlines.h).    *)
(*                                                                         *)
(* A byte has Base values in place of 256, and the fields of 2, 4, 8 and   *)
(* 16 bytes have the widths Two to Sixteen. Encodings that differ from a   *)
(* listed one only in their name (float, double, char, decimals, timestamp)*)
(* are left out, and one extension code, the highest, stands for all.      *)
(***************************************************************************)
EXTENDS Integers, Sequences

CONSTANTS Base, Two, Four, Eight, Sixteen

Byte == 0 .. Base - 1

Fixed(name, width) == [name |-> name, width |-> width, category |-> "fixed"]
Variable(name, width) == [name |-> name, width |-> width, category |-> "variable"]
Compound(name, width) == [name |-> name, width |-> width, category |-> "compound"]

\* the amqp_type_meta_data_ variables: fixed, of at most one byte
NarrowFixed ==
    [null |-> Fixed("null", 0), true |-> Fixed("boolean", 0), false |-> Fixed("boolean", 0),
     uint0 |-> Fixed("uint", 0), ulong0 |-> Fixed("ulong", 0), list0 |-> Fixed("list", 0),
     ubyte |-> Fixed("ubyte", 1), byte |-> Fixed("byte", 1),
     smalluint |-> Fixed("uint", 1), smallulong |-> Fixed("ulong", 1),
     smallint |-> Fixed("int", 1), smalllong |-> Fixed("long", 1),
     boolean |-> Fixed("boolean", 1)]

WideFixed ==
    [ushort |-> Fixed("ushort", Two), short |-> Fixed("short", Two),
     uint |-> Fixed("uint", Four), int |-> Fixed("int", Four),
     ulong |-> Fixed("ulong", Eight), long |-> Fixed("long", Eight),
     uuid |-> Fixed("uuid", Sixteen)]

Variables ==
    [vbin8 |-> Variable("binary", 1), str8 |-> Variable("string", 1),
     sym8 |-> Variable("symbol", 1),
     vbin32 |-> Variable("binary", Four), str32 |-> Variable("string", Four),
     sym32 |-> Variable("symbol", Four)]

Compounds ==
    [described |-> Compound("described", 0),
     list8 |-> Compound("list", 1), map8 |-> Compound("map", 1),
     list32 |-> Compound("list", Four), map32 |-> Compound("map", Four),
     array8 |-> Compound("array", 1), array32 |-> Compound("array", Four),
     extension |-> Compound("extension", Four)]

Formats == UNION {DOMAIN NarrowFixed, DOMAIN WideFixed, DOMAIN Variables, DOMAIN Compounds}

MetaData ==
    [f \in Formats |->
        CASE f \in DOMAIN NarrowFixed -> NarrowFixed[f] [] f \in DOMAIN WideFixed -> WideFixed[f]
          [] f \in DOMAIN Variables -> Variables[f]     [] f \in DOMAIN Compounds -> Compounds[f]]

\* amqp__type_lookup_table, in the order of the format codes
LookupTable ==
    <<"described", "null", "true", "false", "uint0", "ulong0", "list0", "ubyte", "byte",
      "smalluint", "smallulong", "smallint", "smalllong", "boolean", "ushort", "short",
      "uint", "int", "ulong", "long", "uuid", "vbin8", "str8", "sym8", "vbin32", "str32",
      "sym32", "list8", "map8", "list32", "map32", "array8", "array32",
      "extension">>

\* 0x00 for described, 0xFF for the last extension code, and gaps between
Codes ==
    [k \in DOMAIN LookupTable |->
        IF k = 1 THEN 0 ELSE IF k = Len(LookupTable) THEN Base - 1 ELSE k]

CodeOf == [f \in Formats |-> Codes[CHOOSE k \in DOMAIN LookupTable : LookupTable[k] = f]]

\* amqp_type_meta_data_lookup: the table is searched from s up to before e
Lookup(code) ==
    LET RECURSIVE Search(_, _)
        Search(s, e) ==
            LET m == s + (e - s) \div 2
            IN  IF s >= e THEN "unknown"
                ELSE IF Codes[m + 1] = code THEN LookupTable[m + 1]
                ELSE IF code < Codes[m + 1] THEN Search(s, m) ELSE Search(m + 1, e)
    IN  Search(0, Len(LookupTable))

-----------------------------------------------------------------------------
\* The w low bytes of n, the highest first; of a negative n, its two's complement
ToBytes(n, w) == [k \in 1 .. w |-> (n \div (Base ^ (w - k))) % Base]

Unsigned(bytes) ==
    LET f[k \in 0 .. Len(bytes)] == IF k = 0 THEN 0 ELSE f[k - 1] * Base + bytes[k]
    IN  f[Len(bytes)]

Signed(bytes) ==
    IF bytes[1] < Base \div 2 THEN Unsigned(bytes) ELSE Unsigned(bytes) - Base ^ Len(bytes)

\* A value as the application gives it to the encoder or gets it from the
\* decoder: a name, and its data. A container is its beginning, its elements
\* and End.
Item(name, data) == <<name, data>>
End == Item("end", <<>>)
=============================================================================
