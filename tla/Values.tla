------------------------------- MODULE Values -------------------------------
(***************************************************************************)
(* The values of AmqpTypes/: binaries, strings and symbols, arrays and     *)
(* maps, and the multiple symbols of a SASL offer.  A value is made in     *)
(* memory of the caller (initialize) or in its own (create); what it holds *)
(* it owns, or it views a type that the decoder made in a buffer.  Its     *)
(* table of functions says what amqp_type_cleanup has to return.           *)
(*                                                                         *)
(* Types are in the first fragment of their buffer (see Buffer and         *)
(* HashTable for the others), and a view is not read once its type is gone.*)
(***************************************************************************)
EXTENDS Integers, Sequences, SequencesExt, FiniteSets

CONSTANTS
    Plain,           \* of "binary", "string", "symbol": values of bytes, all made alike
    Held,            \* values of the application, at a time
    Cells,           \* bound: blocks of memory, numbers
    Texts,           \* what values are made of: sequences of bytes
    Incoming,        \* what the decoder makes: records of a kind and its data
    WordBytes        \* SIZE_T_BYTES

VARIABLES
    heap,            \* the bytes of each block of memory in use
    values,          \* the value at each place
    type             \* the type that was decoded, if there is one

vars == <<heap, values, type>>

Collections == {"array", "map"}

\* a value: its destructor, the block it is in (0: the caller's), what it views, and the
\* block and the number of its bytes (0: none)
Value(kind, dtor, object, views, data, size) ==
    [kind |-> kind, dtor |-> dtor, object |-> object, views |-> views, data |-> data,
     size |-> size]
NoValue == Value("none", "none", 0, "nothing", 0, 0)
NoType == [kind |-> "none", bytes |-> <<>>]

\* the zeros that amqp__malloc puts behind n bytes, up to the guard
Padding(n) == ((n - 1) \div WordBytes + 1) * WordBytes - n
Guard == -1

Unused == <<>>
Block(s) == s \o [k \in 1 .. Padding(Len(s)) |-> 0] \o <<Guard>>

Init ==
    /\ heap = [c \in Cells |-> Unused]
    /\ values = [v \in Held |-> NoValue]
    /\ type = NoType

\* amqp_malloc, of one block and of two, the second one after the first
NextCell(h) == CHOOSE c \in Cells : h[c] = Unused /\ \A d \in Cells : d < c => h[d] # Unused
Malloc(h, s) == [h EXCEPT ![NextCell(h)] = Block(s)]
HasRoom == Cardinality({c \in Cells : heap[c] = Unused}) >= 2

\* AMQP_FREE of a pointer that may be null
Free(h, c) == IF c = 0 THEN h ELSE [h EXCEPT ![c] = Unused]

\* data_to_block, data_offset: the bytes of a binary, string or symbol
Readable(x) == x.kind \in Plain /\ x.views # "gone"
Bytes(x) ==
    IF x.views = "type" THEN type.bytes
    ELSE IF x.data = 0 THEN <<>> ELSE SubSeq(heap[x.data], 1, x.size)

-----------------------------------------------------------------------------
(* Making values *)

\* amqp_symbol_initialize_as_null and the like; amqp_multiple_symbol_initialize_as_null
\* is the one with a destructor
InitializeAsNull(v, k) ==
    /\ values[v] = NoValue
    /\ values' = [values EXCEPT
           ![v] = Value(k, IF k = "multiple" THEN "initialize" ELSE "none", 0, "nothing", 0, 0)]
    /\ UNCHANGED <<heap, type>>

\* amqp_symbol_initialize: a copy of the bytes, amqp_duplicate
Initialize(v, k, s) ==
    /\ values[v] = NoValue /\ HasRoom
    /\ heap' = Malloc(heap, s)
    /\ values' = [values EXCEPT ![v] = Value(k, "initialize", 0, "nothing", NextCell(heap), Len(s))]
    /\ UNCHANGED type

\* symbol_create: first the data, then the value itself
Create(v, k, s) ==
    /\ values[v] = NoValue /\ HasRoom
    /\ LET data == NextCell(heap)
           with == Malloc(heap, s)
       IN  /\ heap' = Malloc(with, <<>>)
           /\ values' = [values EXCEPT ![v] = Value(k, "create", NextCell(with), "nothing", data, Len(s))]
    /\ UNCHANGED type

\* amqp_array_initialize and amqp_array_create, amqp_map_initialize and
\* amqp_map_create: room for pointers to elements; an even number in a map
InitializeCollection(v, k, n) ==
    /\ k \in Collections /\ (k = "map" => n % 2 = 0)
    /\ Initialize(v, k, [i \in 1 .. n |-> 0]) \/ Create(v, k, [i \in 1 .. n |-> 0])

\* amqp_symbol_initialize_from_type, amqp_array_initialize_from_type and the like
InitializeFromType(v, k) ==
    /\ values[v] = NoValue /\ type.kind = k
    /\ values' = [values EXCEPT ![v] = Value(k, "initialize", 0, "type", 0, Len(type.bytes))]
    /\ UNCHANGED <<heap, type>>

\* amqp_symbol_create_from_type and the like
CreateFromType(v, k) ==
    /\ values[v] = NoValue /\ type.kind = k /\ HasRoom
    /\ heap' = Malloc(heap, <<>>)
    /\ values' = [values EXCEPT ![v] = Value(k, "create", NextCell(heap), "type", 0, Len(type.bytes))]
    /\ UNCHANGED type

\* amqp_symbol_clone: what there is is copied (amqp_variable_clone_data)
CloneValue(v, w) ==
    LET source == values[w]
        null == source.views = "nothing" /\ source.data = 0
        with == IF null THEN heap ELSE Malloc(heap, Bytes(source))
        data == IF null THEN 0 ELSE NextCell(heap)
    IN  /\ values[v] = NoValue /\ source.kind \in Plain /\ Readable(source) /\ HasRoom
        /\ heap' = Malloc(with, <<>>)
        /\ values' = [values EXCEPT
               ![v] = Value(source.kind, "create", NextCell(with), "nothing", data, source.size)]
        /\ UNCHANGED type

\* amqp_string_to_cstr, amqp_symbol_to_cstr: a copy that the caller frees
ToCstr(v, w) ==
    LET source == values[w]
    IN  /\ values[v] = NoValue /\ source.kind \in {"string", "symbol"} /\ HasRoom
        /\ Readable(source) /\ (source.views = "type" \/ source.data # 0)
        /\ heap' = Malloc(heap, Bytes(source))
        /\ values' = [values EXCEPT 
               ![v] = Value("cstr", "initialize", 0, "nothing", NextCell(heap), source.size)]
        /\ UNCHANGED type

\* initialize_from_type of AmqpMultiple.c, with its two callers: an array of
\* symbols that view the elements.  Of another type there are none (and
\* amqp_multiple_symbol_initialize answers so)
Symbols(t) ==
    CASE t.kind = "symbol" -> <<t.bytes>>
      [] t.kind = "array" -> t.bytes
      [] OTHER -> <<>>

InitializeMultiple(v) ==
    /\ values[v] = NoValue /\ type # NoType /\ HasRoom
    /\ LET some == Symbols(type) # <<>>
           with == IF some THEN Malloc(heap, <<>>) ELSE heap
           data == IF some THEN NextCell(heap) ELSE 0
       IN  \/ /\ heap' = with
              /\ values' = [values EXCEPT
                     ![v] = Value("multiple", "initialize", 0, "type", data, Len(Symbols(type)))]
           \/ /\ heap' = Malloc(with, <<>>)
              /\ values' = [values EXCEPT
                     ![v] = Value("multiple", "create", NextCell(with), "type", data, Len(Symbols(type)))]
    /\ UNCHANGED type

-----------------------------------------------------------------------------
(* Releasing them *)

\* Mutant of Destroyed: AMQP_FREE does not clear the pointer.
DestroyedDangling(x) == IF x.dtor = "create" THEN NoValue ELSE x

\* what a destructor leaves: the pointer to the data is cleared
Destroyed(x) == IF x.dtor = "create" THEN NoValue ELSE [x EXCEPT !.data = 0]

\* amqp_type_cleanup: initialize_dtor, create_dtor or nothing
Cleanup(v) ==
    /\ values[v] # NoValue /\ values[v].dtor # "none"
    /\ heap' = Free(Free(heap, values[v].data), values[v].object)
    /\ values' = [values EXCEPT ![v] = Destroyed(@)]
    /\ UNCHANGED type

\* the caller's memory is used for something else, once nothing is in it
Forget(v) ==
    /\ values[v] # NoValue /\ values[v].dtor # "create" /\ values[v].data = 0
    /\ values' = [values EXCEPT ![v] = NoValue]
    /\ UNCHANGED <<heap, type>>

\* amqp_decode, and amqp_deallocate_type with the frame
Decode(t) == type = NoType /\ type' = t /\ UNCHANGED <<heap, values>>
Deallocate ==
    /\ type # NoType /\ type' = NoType
    /\ values' = [v \in Held |-> IF values[v].views = "type"
                                 THEN [values[v] EXCEPT !.views = "gone"] ELSE values[v]]
    /\ UNCHANGED heap

-----------------------------------------------------------------------------
Next ==
    \/ \E v \in Held :
        \/ \E k \in Plain \cup Collections \cup {"multiple"} : InitializeAsNull(v, k)
        \/ \E k \in Plain, s \in Texts : Initialize(v, k, s) \/ Create(v, k, s)
        \/ \E k \in Collections, n \in 1 .. 2 : InitializeCollection(v, k, n)
        \/ \E k \in Plain \cup Collections : InitializeFromType(v, k) \/ CreateFromType(v, k)
        \/ InitializeMultiple(v)
        \/ \E w \in Held : CloneValue(v, w) \/ ToCstr(v, w)
        \/ Cleanup(v) \/ Forget(v)
    \/ \E t \in Incoming : Decode(t)
    \/ Deallocate

Spec == Init /\ [][Next]_vars

-----------------------------------------------------------------------------
(* Reading values *)

\* amqp_block_compare: memcmp of the first n bytes
BlockCompare(s, t, n) ==
    LET differ == {k \in 1 .. n : s[k] # t[k]}
    IN  IF differ = {} THEN 0
        ELSE LET k == CHOOSE k \in differ : \A j \in differ : k <= j IN s[k] - t[k]

Shorter(s, t) == IF Len(t) < Len(s) THEN Len(t) ELSE Len(s)

\* amqp_variable_compare, amqp_variable_compare_with_bytes
Compare(s, t) ==
    LET rc == BlockCompare(s, t, Shorter(s, t)) IN IF rc # 0 THEN rc ELSE Len(s) - Len(t)

\* amqp_multiple_symbol_total_length
TotalLength(names) == FoldLeft(LAMBDA sum, s : sum + Len(s), 0, names)

\* the room for the names in no_supported_sasl_mechanism_error, ", " between them
Space(names) == TotalLength(names) + (Len(names) - 1) * 2 + 1

\* amqp_multiple_symbol_to_char_bytes into size bytes: where the text ends, and
\* whether all of it is there.  A spacer is cut by snprintf, which answers with
\* its length; a length below zero is no limit.
ToCharBytes(names, size) ==
    LET Step(r, i) ==
            LET spacer == IF i > 1 THEN 2 ELSE 0
                room == r.available - spacer
                n == IF room \in 0 .. Len(names[i]) THEN room ELSE Len(names[i])
            IN  [available |-> room - n, end |-> r.end + spacer + n,
                 whole |-> r.whole /\ n = Len(names[i]) /\ (spacer > 0 => r.available > spacer)]
    IN  FoldLeft(Step, [available |-> size - 1, end |-> 0, whole |-> TRUE],
                 [i \in DOMAIN names |-> i])

-----------------------------------------------------------------------------
(* Properties *)

\* The type invariant.
TypeOK ==
    /\ \A v \in Held : /\ values[v].dtor \in {"none", "initialize", "create"}
                       /\ values[v].object \in {0} \cup Cells /\ values[v].data \in {0} \cup Cells
    /\ type \in Incoming \cup {NoType}

\* Every block of memory is held by one value, in one way: amqp_type_cleanup
\* of each value returns everything, once, whichever way the value was made,
\* cloned or cleaned up before.
OwnedOnce ==
    LET Owners(c) == {<<v, f>> \in Held \X {"object", "data"} : values[v][f] = c}
    IN  \A c \in Cells : Cardinality(Owners(c)) = IF heap[c] = Unused THEN 0 ELSE 1

\* What a value owns stays as it is until the value is cleaned up, whatever
\* becomes of the value it is a clone of, or of the type that was viewed.
OwnKept ==
    [][\A v \in Held : values[v].data # 0 /\ values'[v].data = values[v].data =>
         heap'[values[v].data] = heap[values[v].data]]_vars

Before(s, t) ==
    \/ IsStrictPrefix(s, t)
    \/ \E k \in 1 .. Shorter(s, t) : s[k] < t[k] /\ \A j \in 1 .. k - 1 : s[j] = t[j]

\* amqp_variable_compare orders values as words in a dictionary, whether they
\* own their bytes or view them: what a sorted or hashed use of them needs.
CompareOrders ==
    \A v, w \in {u \in Held : Readable(values[u])} :
        LET s == Bytes(values[v])
            t == Bytes(values[w])
        IN  /\ (Compare(s, t) = 0) <=> (s = t)
            /\ (Compare(s, t) < 0) <=> Before(s, t)

\* the C string that starts with a block
Cstr(block) ==
    LET ends == {k \in DOMAIN block : block[k] = 0}
    IN  IF ends = {} THEN block
        ELSE SubSeq(block, 1, (CHOOSE k \in ends : \A j \in ends : k <= j) - 1)

\* The copy that amqp_string_to_cstr makes gets no terminator: zeros of
\* amqp__malloc end it where the bytes of the value end, unless these fill
\* their words.  (Then the guard behind them is read as text.)
CstrEnds ==
    \A v \in Held : LET x == values[v]
                    IN  x.kind = "cstr" /\ x.data # 0 /\ x.size % WordBytes # 0
                        => Cstr(heap[x.data]) = SubSeq(heap[x.data], 1, x.size)

\* The message about an offer of mechanisms that are all unknown has exactly
\* the room it needs (no_supported_sasl_mechanism_error of ClientSasl.c).
RefusalFits ==
    \A v \in Held :
        LET names == Symbols(type)
            text == ToCharBytes(names, Space(names))
        IN  values[v].kind = "multiple" /\ values[v].data # 0 /\ values[v].views = "type"
            /\ (\A i \in DOMAIN names : names[i] # <<>>)
            => text.whole /\ text.end = Space(names) - 1
=============================================================================
