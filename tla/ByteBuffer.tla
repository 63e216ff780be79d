----------------------------- MODULE ByteBuffer -----------------------------
(***************************************************************************)
(* What a buffer promises: it holds a sequence of bytes, the ones given to *)
(* it, up to a capacity that can be raised, and delivers them in order.    *)
(***************************************************************************)
EXTENDS Integers, Sequences

CONSTANT Bytes

VARIABLES
    contents,    \* the bytes of the buffer
    index,       \* how many were read
    capacity,
    data         \* the bytes of the last operation: given, or delivered

vars == <<contents, index, capacity, data>>

Init == contents = <<>> /\ index = 0 /\ capacity \in Nat /\ data = <<>>

Raise == capacity' \in Nat /\ capacity' >= capacity /\ data' = <<>> /\ UNCHANGED <<contents, index>>

Append_ ==
    /\ data' \in Seq(Bytes) /\ contents' = contents \o data' /\ Len(contents') <= capacity
    /\ UNCHANGED <<index, capacity>>

\* some of the bytes, next to each other, are given again
Replace ==
    /\ data' \in Seq(Bytes)
    /\ \E at \in 0 .. Len(contents) - Len(data') :
         contents' = SubSeq(contents, 1, at) \o data'
                     \o SubSeq(contents, at + Len(data') + 1, Len(contents))
    /\ UNCHANGED <<index, capacity>>

Deliver ==
    /\ \E n \in 0 .. Len(contents) - index :
         data' = SubSeq(contents, index + 1, index + n) /\ index' = index + n
    /\ UNCHANGED <<contents, capacity>>

\* the last bytes are taken back, or all are forgotten, or will be read again
Shorten ==
    /\ \E n \in index .. Len(contents) : contents' = SubSeq(contents, 1, n)
    /\ data' = <<>> /\ UNCHANGED <<index, capacity>>

Clear == contents' = <<>> /\ index' = 0 /\ data' = <<>> /\ UNCHANGED capacity

Rewind == index' = 0 /\ data' = <<>> /\ UNCHANGED <<contents, capacity>>

Next == Raise \/ Append_ \/ Replace \/ Deliver \/ Shorten \/ Clear \/ Rewind

Spec == Init /\ [][Next]_vars
=============================================================================
