----------------------------- MODULE MCLibrary ------------------------------
(* An instance of Library for TLC. *)
EXTENDS Library

\* both sides of every width's limits, signed and unsigned
MCNumbers == {-(Base \div 2) - 1, -(Base \div 2), 0, Base \div 2, Base - 1, Base}

MCPayloads == {<<>>, <<1>>, [k \in 1 .. Sixteen |-> 2], [k \in 1 .. Base |-> 3]}

\* decoding only; every encoding; containers nested in each other; arrays of every kind of
\* element; data that fills containers and buffers
MCUses ==
    {[formats |-> {}, items |-> 1],
     [formats |-> Formats, items |-> 2],
     [formats |-> {"list8", "array8", "described", "null"}, items |-> 5],
     [formats |-> {"list32", "array32", "map8", "boolean", "true"}, items |-> 5],
     [formats |-> {"array8", "smallint", "int", "uint0", "sym8"}, items |-> 4],
     [formats |-> {"list8", "map32", "vbin8", "vbin32", "uuid"}, items |-> 4]}

\* codes whose decoders read on, an unknown code, and small sizes
MCReceived ==
    {CodeOf[f] : f \in {"described", "smalluint", "ushort", "str8", "sym8", "list8",
                               "list32", "array8"}}
    \cup {1, 2, 3}

\* every body a peer may send
EveryBody == INSTANCE Frames WITH
    Slots <- {}, Arriving <- {}, memory <- fMemory, allocated <- fAllocated, frame <- fFrame,
    refused <- fRefused, faults <- fFaults
MCArriving == EveryBody!Bodies

\* a text that fills a word, and one that does not
MCTexts == {<<1>>, [k \in 1 .. WordBytes |-> 1]}
MCIncoming ==
    {[kind |-> "symbol", bytes |-> <<1, 2>>], [kind |-> "binary", bytes |-> <<2>>],
     [kind |-> "null", bytes |-> <<>>],
     [kind |-> "array", bytes |-> <<<<1>>, <<1, 2>>, <<2>>>>]}

\* three names of a byte's size with their own sizes, and a little more
MCNameLength == [m \in Mechanisms |-> IF m = "PLAIN" THEN 10 ELSE 11]

\* in four buckets, two of the keys collide with two others or with each other
MCKeys == {"a", "b", "c", "e"}
MCHashOf == [a |-> 5, b |-> 3, c |-> 7, e |-> 9]
=============================================================================
