------------------------------- MODULE Buffer -------------------------------
(***************************************************************************)
(* A buffer in fragments (Buffer/Buffer.c, BufferInlines.h, BufferWrite.c) *)
(* between the encoder or decoder and the socket, which fills and empties  *)
(* it through vectors of addresses.                                        *)
(***************************************************************************)
EXTENDS Integers, Sequences, SequencesExt

CONSTANTS
    FragmentSize,    \* AMQP_BUFFER_FRAGMENT_SIZE
    Fragments,       \* AMQP_BUFFER_FRAGMENTS
    Given,           \* bytes that are written
    MaxGiven         \* bound: bytes written by one operation

VARIABLES
    fragments,       \* the fragments that are allocated
    capacity,
    index, size,     \* limit
    data             \* history: bytes of the last operation, given or delivered

vars == <<fragments, capacity, index, size, data>>

Bytes == Given \cup {0}
Inputs == SeqOf(Given, MaxGiven) \ {<<>>}

\* AMQP_FRAGMENT_INDEX_BITS, AMQP_FRAGMENT_INDEX_MASK
Block(i) == i \div FragmentSize
Offset(i) == i % FragmentSize

Offsets == 0 .. FragmentSize - 1
Fresh == [o \in Offsets |-> 0]

\* amqp_unchecked_getc_at
ByteAt(i) == fragments[Block(i)][Offset(i)]
BytesAt(i, n) == [k \in 1 .. n |-> ByteAt(i + k - 1)]

\* amqp_initialize_amqp_buffer_t
Init ==
    /\ fragments = [b \in {0} |-> Fresh] /\ capacity = FragmentSize
    /\ index = 0 /\ size = 0 /\ data = <<>>

\* the size wanted, at most that of all fragments
NewSize(n) == IF n > Fragments * FragmentSize THEN Fragments * FragmentSize ELSE n

NeededBlocks(n) == (n - 1) \div FragmentSize + 1

\* amqp_buffer_grow
Grow(n) ==
    LET new_size == NewSize(n)
        blocks == 0 .. NeededBlocks(new_size) - 1
        old == 0 .. capacity \div FragmentSize - 1
    IN  /\ new_size > capacity
        /\ fragments' = [b \in blocks |-> IF b \in old THEN fragments[b] ELSE Fresh]
        /\ capacity' = NeededBlocks(new_size) * FragmentSize
        /\ data' = <<>> /\ UNCHANGED <<index, size>>

-----------------------------------------------------------------------------
(* Writing *)

\* amqp_unchecked_putc_at, for the bytes of s from i on
Stored(i, s) ==
    [b \in DOMAIN fragments |-> [o \in Offsets |->
        LET k == b * FragmentSize + o - i + 1
        IN  IF k \in 1 .. Len(s) THEN s[k] ELSE fragments[b][o]]]

\* amqp_buffer_putc and the amqp_hton_ functions, after a check for room
Putc(s) ==
    /\ size + Len(s) <= capacity
    /\ fragments' = Stored(size, s) /\ size' = size + Len(s) /\ data' = s
    /\ UNCHANGED <<capacity, index>>

\* amqp_buffer_puts
Puts(s) == size + Len(s) < capacity /\ Putc(s)

\* amqp_buffer_set_write_index back to i, the bytes, and forward again
Patch(i, s) ==
    /\ i + Len(s) <= size
    /\ fragments' = Stored(i, s) /\ data' = s
    /\ UNCHANGED <<capacity, index, size>>

\* amqp_buffer_advance_write_point over bytes that will be patched
AdvanceWritePoint(n) ==
    /\ size + n <= capacity
    /\ size' = size + n /\ data' = BytesAt(size, n)
    /\ UNCHANGED <<fragments, capacity, index>>

\* amqp_buffer_backup, of bytes that were not read
Backup(n) ==
    /\ size - n >= index
    /\ size' = size - n
    /\ data' = <<>> /\ UNCHANGED <<fragments, capacity, index>>

\* amqp_buffer_reset
Reset ==
    /\ index' = 0 /\ size' = 0
    /\ data' = <<>> /\ UNCHANGED <<fragments, capacity>>

-----------------------------------------------------------------------------
(* Reading *)

\* amqp_buffer_getc, and the advance over a value after a check
Getc(n) ==
    /\ index + n <= size
    /\ data' = BytesAt(index, n) /\ index' = index + n
    /\ UNCHANGED <<fragments, capacity, size>>

\* amqp_buffer_reset_index
ResetIndex ==
    /\ index' = 0
    /\ data' = <<>> /\ UNCHANGED <<fragments, capacity, size>>

\* amqp_buffer_block_copy: the fragment of the last memcpy is the one before
\* it, unless one fragment holds everything
BlockCopied(start, n) ==
    LET block == Block(start)
        first == FragmentSize - Offset(start)
        rest == n - first
        full == (rest - 1) \div FragmentSize
        Part(b, o, len) == [k \in 1 .. len |-> fragments[b][o + k - 1]]
    IN  IF n <= first THEN Part(block, Offset(start), n)
        ELSE Part(block, Offset(start), first)
             \o FlattenSeq([k \in 1 .. full |-> Part(block + k, 0, FragmentSize)])
             \o Part(block + full, 0, rest - full * FragmentSize)

-----------------------------------------------------------------------------
(* The socket *)

Vector(block, offset, len) == [block |-> block, offset |-> offset, len |-> len]

\* Mutant of FillIoVec: the vectors after the first keep its offset.
FillIoVecOffset(n, block, offset) ==
    LET available == FragmentSize - offset
        rest == n - available
    IN  IF n <= available THEN <<Vector(block, offset, n)>>
        ELSE <<Vector(block, offset, available)>>
             \o [k \in 1 .. (rest - 1) \div FragmentSize + 1 |->
                   Vector(block + k, offset, IF rest - (k - 1) * FragmentSize > FragmentSize
                                             THEN FragmentSize ELSE rest - (k - 1) * FragmentSize)]

\* amqp_buffer_fill_io_vec
FillIoVec(n, block, offset) ==
    LET available == FragmentSize - offset
        rest == n - available
    IN  IF n <= available THEN <<Vector(block, offset, n)>>
        ELSE <<Vector(block, offset, available)>>
             \o [k \in 1 .. (rest - 1) \div FragmentSize + 1 |->
                   Vector(block + k, 0, IF rest - (k - 1) * FragmentSize > FragmentSize
                                        THEN FragmentSize ELSE rest - (k - 1) * FragmentSize)]

\* the addresses the kernel goes through
VectorCells(vectors) ==
    FlattenSeq([v \in DOMAIN vectors |->
        [k \in 1 .. vectors[v].len |-> <<vectors[v].block, vectors[v].offset + k - 1>>]])

\* amqp_buffer_write_io_vec, readv and amqp_buffer_advance_write_point: of the
\* bytes wanted, the ones that are there
ReadIn(wanted, s) ==
    LET cells == VectorCells(FillIoVec(wanted, Block(size), Offset(size)))
    IN  /\ wanted <= capacity - size /\ Len(s) <= wanted
        /\ fragments' =
             [b \in DOMAIN fragments |-> [o \in Offsets |->
                IF \E k \in 1 .. Len(s) : cells[k] = <<b, o>>
                THEN s[CHOOSE k \in 1 .. Len(s) : cells[k] = <<b, o>>] ELSE fragments[b][o]]]
        /\ size' = size + Len(s) /\ data' = s
        /\ UNCHANGED <<capacity, index>>

\* amqp_buffer_read_io_vec, sendmsg (amqp_buffer_write) and
\* amqp_buffer_advance_read_index: as many bytes as the socket takes
WriteOut(n) ==
    LET cells == VectorCells(FillIoVec(size - index, Block(index), Offset(index)))
    IN  /\ n <= size - index
        /\ data' = [k \in 1 .. n |-> fragments[cells[k][1]][cells[k][2]]]
        /\ index' = index + n
        /\ UNCHANGED <<fragments, capacity, size>>

-----------------------------------------------------------------------------
Next ==
    \/ Reset \/ ResetIndex
    \/ \E n \in 1 .. Fragments * FragmentSize + 1 : Grow(n) \/ WriteOut(n)
    \/ \E n \in 1 .. MaxGiven : AdvanceWritePoint(n) \/ Backup(n) \/ Getc(n)
    \/ \E s \in Inputs :
         \/ Putc(s) \/ Puts(s)
         \/ \E i \in 0 .. size - 1 : Patch(i, s)
         \/ \E wanted \in 1 .. capacity - size : ReadIn(wanted, s)

Spec == Init /\ [][Next]_vars

-----------------------------------------------------------------------------
(* Properties *)

TypeOK ==
    /\ capacity \in {n * FragmentSize : n \in 1 .. Fragments}
    /\ fragments \in [0 .. capacity \div FragmentSize - 1 -> [Offsets -> Bytes]]
    /\ size \in 0 .. capacity /\ index \in 0 .. size
    /\ data \in Seq(Bytes)

Abstract == INSTANCE ByteBuffer WITH contents <- BytesAt(0, size)

\* The division into fragments does not show: bytes given by the encoder
\* (amqp_buffer_putc) or by the socket (amqp_buffer_write_io_vec) anywhere,
\* over the limits of fragments and after the buffer grew, are the ones that
\* decoder (amqp_buffer_getc) and socket (amqp_buffer_read_io_vec) get.
PromiseKept == Abstract!Spec

\* The vectors given to readv and sendmsg name memory of allocated fragments
\* only, and fit the array of vectors of the buffer.
VectorsInside ==
    \A end \in size .. capacity : \A start \in {index, size} : start < end =>
        LET vectors == FillIoVec(end - start, Block(start), Offset(start))
        IN  /\ Len(vectors) <= Fragments
            /\ \A v \in DOMAIN vectors : /\ vectors[v].block \in DOMAIN fragments
                                         /\ vectors[v].offset + vectors[v].len <= FragmentSize

\* how many of the n bytes at start are not in the fragment where they end
BeforeTail(start, n) ==
    IF Block(start) = Block(start + n - 1) THEN n ELSE Block(start + n - 1) * FragmentSize - start

\* amqp_buffer_block_copy copies as many bytes as asked for, and rightly up to
\* the fragment where they end.  (The rest comes from the fragment before.)
CopiedUpToTheTail ==
    \A start \in 0 .. size - 1 : \A n \in 1 .. size - start :
        LET got == BlockCopied(start, n)
        IN  /\ Len(got) = n
            /\ \A k \in 1 .. BeforeTail(start, n) : got[k] = ByteAt(start + k - 1)
=============================================================================
