------------------------------- MODULE Memory -------------------------------
(***************************************************************************)
(* The memory a context accounts for (Memory/Memory.c, in the default      *)
(* build, with LIBAMQP_DEBUG_ALLOCATIONS): a block has a guard word in     *)
(* front and one behind, is counted, and is linked into the list of blocks *)
(* a context reports when it is destroyed.  The one use of amqp_realloc is *)
(* the array of the elements of a compound type (Codec/Type/Type.c).       *)
(***************************************************************************)
EXTENDS Integers, FiniteSets

CONSTANTS
    Addresses,          \* where the C library can place a block, from 1 on
    Sizes,              \* bytes asked for
    WordBytes,          \* SIZE_T_BYTES
    SizeLimit,          \* one more than the largest size_t
    Chunk,              \* by how many an array of elements grows, 16
    MaxElements         \* bound: elements of an array

VARIABLES
    blocks,             \* the block at each address, or NoBlock
    allocated_blocks,   \* head of the list of the context's blocks
    outstanding,        \* outstanding_allocations
    array,              \* the array under construction, and its count
    moved,              \* history: amqp_realloc got another address
    wild                \* history: a link was written where no block is

vars == <<blocks, allocated_blocks, outstanding, array, moved, wild>>

NoBlock == [owner |-> "nobody"]
NoArray == [at |-> 0, count |-> 0]
Used == {a \in Addresses : blocks[a] # NoBlock}
Owned == {a \in Used : blocks[a].owner = "context"}

\* byte_count_rounded_to_size_t_array_size, in words; size_t wraps around
byte_count_rounded_to_size_t_array_size(n) ==
    ((n - 1) % SizeLimit) \div WordBytes + 1

\* calculate_bytes_to_allocate, without the part before the data: the header
\* already has room for two words
calculate_bytes_to_allocate(count) == ((count + 1) * WordBytes) % SizeLimit

\* save_guard_mask and memset: where the guard goes, and what is cleared
GuardAt(count) == (count * WordBytes) % SizeLimit

Init ==
    /\ blocks = [a \in Addresses |-> NoBlock]
    /\ allocated_blocks = 0 /\ outstanding = 0 /\ array = NoArray
    /\ moved = FALSE /\ wild = FALSE

\* A block's "previous" is the link that points to it: of another block, of
\* the context (0), or none (-1: allocated without a context).
Block(owner, n, next, previous) ==
    [owner |-> owner, asked |-> n,
     count |-> byte_count_rounded_to_size_t_array_size(n),
     next |-> next, previous |-> previous]

\* Writes through links of other blocks: to blocks that are gone, they are wild.
SetNext(bs, a, b) ==
    IF a \in Addresses /\ bs[a] # NoBlock THEN [bs EXCEPT ![a].next = b] ELSE bs
SetPrevious(bs, a, b) ==
    IF a \in Addresses /\ bs[a] # NoBlock THEN [bs EXCEPT ![a].previous = b] ELSE bs
Gone(bs, a) == a \in Addresses /\ bs[a] = NoBlock

\* Mutant of PushFront: the block that was first still thinks it is.
PushFrontOneWay(a, n) == [blocks EXCEPT ![a] = Block("context", n, allocated_blocks, 0)]

\* the links of amqp__malloc: the block goes to the front of the list
PushFront(a, n) ==
    SetPrevious([blocks EXCEPT ![a] = Block("context", n, allocated_blocks, 0)],
                allocated_blocks, a)

Malloc(a, n) ==
    /\ a \in Addresses \ Used
    /\ blocks' = PushFront(a, n)
    /\ wild' = (wild \/ Gone(blocks, allocated_blocks))
    /\ allocated_blocks' = a
    /\ outstanding' = outstanding + 1

\* amqp__malloc for a context
amqp__malloc(a, n) == Malloc(a, n) /\ UNCHANGED <<array, moved>>

\* amqp__malloc without one (contexts and their mutex): neither linked nor counted
MallocNoContext(a, n) ==
    /\ a \in Addresses \ Used
    /\ blocks' = [blocks EXCEPT ![a] = Block("nobody in particular", n, 0, -1)]
    /\ UNCHANGED <<allocated_blocks, outstanding, array, moved, wild>>

\* amqp__free
amqp__free(a) ==
    /\ a \in Used
    /\ LET b == blocks[a]
           unlinked == IF b.previous = -1 THEN blocks
                       ELSE SetPrevious(SetNext(blocks, b.previous, b.next), b.next, b.previous)
       IN  /\ blocks' = [unlinked EXCEPT ![a] = NoBlock]
           /\ allocated_blocks' = IF b.previous = 0 THEN b.next ELSE allocated_blocks
           /\ wild' = (wild \/ Gone(blocks, b.previous) \/ Gone(blocks, b.next))
           /\ outstanding' = IF b.owner = "context" THEN outstanding - 1 ELSE outstanding
    /\ array' = IF array.at = a THEN NoArray ELSE array
    /\ UNCHANGED moved

\* amqp_realloc of a block: where it is, or copied to another address.  The
\* links that point to the block are not touched.
Realloc(a, b, n) ==
    /\ b = a \/ b \in Addresses \ Used
    /\ LET grown == [blocks[a] EXCEPT !.asked = n,
                                      !.count = byte_count_rounded_to_size_t_array_size(n)]
       IN  blocks' = [blocks EXCEPT ![a] = NoBlock, ![b] = grown]
    /\ moved' = (moved \/ b # a)
    /\ UNCHANGED <<allocated_blocks, outstanding, wild>>

\* amqp_allocate_amqp_type_t_array
amqp_allocate_amqp_type_t_array(a) ==
    /\ array = NoArray
    /\ Malloc(a, Chunk * WordBytes)
    /\ array' = [at |-> a, count |-> 0]
    /\ UNCHANGED moved

\* the places amqp_realloc_amqp_type_t_array wants before one more element
Room(count) == (count \div Chunk + 1) * Chunk

\* An element is added: amqp_realloc_amqp_type_t_array, and amqp_realloc if
\* that does not fit the block.
amqp_realloc_amqp_type_t_array(b) ==
    /\ array.at # 0 /\ array.count < MaxElements
    /\ LET old_n == ((((array.count - 1) % SizeLimit) \div Chunk + 1) * Chunk) % SizeLimit
           new_n == Room(array.count)
       IN  IF new_n > old_n
                /\ byte_count_rounded_to_size_t_array_size(new_n * WordBytes) > blocks[array.at].count
           THEN Realloc(array.at, b, new_n * WordBytes)
           ELSE b = array.at /\ UNCHANGED <<blocks, allocated_blocks, outstanding, moved, wild>>
    /\ array' = [at |-> b, count |-> array.count + 1]

\* after a wild write, anything can happen: the model ends there
Next ==
    ~wild /\ \E a \in Addresses :
        \/ \E n \in Sizes : amqp__malloc(a, n) \/ MallocNoContext(a, n)
        \/ amqp__free(a)
        \/ amqp_allocate_amqp_type_t_array(a)
        \/ amqp_realloc_amqp_type_t_array(a)

Spec == Init /\ [][Next]_vars

-----------------------------------------------------------------------------
RECURSIVE Walk(_, _)
Walk(a, n) ==
    IF a \notin Used \/ n = 0 THEN {} ELSE {a} \cup Walk(blocks[a].next, n - 1)

\* The type invariant.
TypeOK ==
    /\ allocated_blocks \in Addresses \cup {0}
    /\ outstanding \in 0 .. Cardinality(Addresses)
    /\ array.at # 0 => array.at \in Used

\* What amqp_check_allocation_count compares with zero is the number of
\* blocks of the context, also after blocks were moved.
CountExact == outstanding = Cardinality(Owned)

\* The list it then reports from is the blocks of the context, each once, and
\* no link was ever written into memory that is no block's, as long as no
\* block was moved (Memory.c:206 leaves the links of a moved block behind).
ListExact ==
    ~moved =>
        /\ ~wild
        /\ Walk(allocated_blocks, Cardinality(Addresses)) = Owned
        /\ Cardinality(Owned) = Cardinality({<<blocks[a].next, blocks[a].previous>> : a \in Owned})

\* The guard is behind the bytes asked for and inside the memory obtained,
\* for every size, zero included, where size_t wraps around.
GuardInside ==
    \A a \in Used :
        LET at == GuardAt(blocks[a].count)
        IN  at >= blocks[a].asked /\ at + WordBytes <= calculate_bytes_to_allocate(blocks[a].count)

\* The array always has room for its elements.
ElementsFit == array.at # 0 => array.count * WordBytes <= GuardAt(blocks[array.at].count)
=============================================================================
