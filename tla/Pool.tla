-------------------------------- MODULE Pool --------------------------------
(***************************************************************************)
(* Memory/Pool.c: a pool of objects of one size.  Objects are slots of     *)
(* blocks; the mask of a block has a one bit for each free slot.  A mask   *)
(* is the set of its one bits, so that the arithmetic on it keeps the      *)
(* width of an unsigned long.  The build defines LIBAMQP_DEBUG_ALLOCATIONS *)
(* (src/Makefile): the objects handed out are chained as well.             *)
(*                                                                         *)
(* The application gives back what it was given, once, and writes nowhere  *)
(* else: the guards around an object are left out.                         *)
(***************************************************************************)
EXTENDS Naturals, Sequences, FiniteSets, FiniteSetsExt

CONSTANTS
    Blocks,          \* the addresses amqp_malloc can return for a block
    NULL,
    CharBit,         \* CHAR_BIT
    LongBit,         \* LONG_BIT
    SizeTBytes,      \* SIZE_T_BYTES
    MinFragments,    \* MIN_FRAGMENTS
    BlockHeader,     \* offset_to_first_allocation
    ObjectHeader,    \* offset_to_allocation_data
    PreferredSize,   \* preferred_block_size()
    ObjectSizes,     \* the object sizes pools are made for
    BlockSizes,      \* the block sizes suggested for them
    MaxHeld          \* bound: most objects handed out at a time

Bits == 0 .. LongBit - 1

\* bound: twice preferred_block_size() is at most 2^12
Halvings == 0 .. 12

-----------------------------------------------------------------------------
\* amqp_initialize_pool_suggesting_block_size
AdjustedSize(suggested) ==
    Min({2 * PreferredSize} \cup
        {s \in {PreferredSize \div 2^k : k \in Halvings} : s >= suggested})

ObjectFragments(size) ==
    LET n == (size - 1) \div SizeTBytes + 1 IN IF n < MinFragments THEN MinFragments ELSE n

AllocationSize(size) == ObjectHeader + (ObjectFragments(size) + 1) * SizeTBytes

\* the block size is halved until the slots of a block fit the mask
PerBlock(size, suggested) ==
    LET Fits(k) == (AdjustedSize(suggested) \div 2^k - BlockHeader) \div AllocationSize(size)
    IN Fits(Min({k \in Halvings : Fits(k) <= LongBit}))

\* 1UL << n: undefined for n = LONG_BIT, where the hardware shifts by n % LONG_BIT
\* or shifts everything out
Shifted(n) == IF n < LongBit THEN {{n}} ELSE {{0}, {}}
Decremented(mask) == IF mask = {} THEN Bits
                     ELSE (mask \ {Min(mask)}) \cup {b \in Bits : b < Min(mask)}
\* Mutant of AllocationsMasks: (1UL << n) - 1
PlainMasks(n) == {Decremented(m) : m \in Shifted(n)}

\* ((1UL << n) & ~1UL) - 1
AllocationsMasks(n) == {Decremented(m \ {0}) : m \in Shifted(n)}

ASSUME NullAssumption == NULL \notin Blocks /\ NULL \notin Blocks \X Bits
ASSUME WidthAssumption == LongBit \in Nat \ {0} /\ CharBit \in Nat \ {0}
\* an object fits a block
ASSUME FitAssumption ==
    \A size \in ObjectSizes, suggested \in BlockSizes : PerBlock(size, suggested) \in 1 .. LongBit

VARIABLES
    allocations_per_block,
    allocations_mask,
    block_list,    \* the head of the list of blocks
    block,         \* the blocks allocated, each with its header
    chain,         \* allocation_chain
    link,          \* header.debug of the objects handed out; `previous' is the object
                   \* whose `next' points here, NULL when allocation_chain does
    held,          \* the objects handed out, as block and index
    outstanding,   \* stats.outstanding_allocations
    search,        \* is amqp_allocate looking for a block?
    cursor,        \* the block it looks at
    destroying,    \* the objects whose destroyer_callback runs, the innermost last
    fatal          \* amqp_fatal_program_error, a failed assert or not_reached()

vars == <<allocations_per_block, allocations_mask, block_list, block, chain, link, held,
          outstanding, search, cursor, destroying, fatal>>

Objects == Blocks \X Bits

Init ==
    /\ \E size \in ObjectSizes, suggested \in BlockSizes :
          allocations_per_block = PerBlock(size, suggested)
    /\ allocations_mask \in AllocationsMasks(allocations_per_block)
    /\ block_list = NULL /\ block = <<>>
    /\ chain = NULL /\ link = <<>>
    /\ held = {} /\ outstanding = 0
    /\ search = FALSE /\ cursor = NULL /\ destroying = <<>> /\ fatal = FALSE

Configured == UNCHANGED <<allocations_per_block, allocations_mask>>

-----------------------------------------------------------------------------
\* amqp__allocate, up to find_block_with_free_space
BeginAllocate ==
    /\ ~search /\ destroying = <<>> /\ ~fatal
    /\ Cardinality(held) < MaxHeld
    /\ search' = TRUE /\ cursor' = block_list
    /\ Configured
    /\ UNCHANGED <<block_list, block, chain, link, held, outstanding, destroying, fatal>>

\* find_block_with_free_space: the next block
SearchOn ==
    /\ search /\ cursor # NULL
    /\ block[cursor].mask = {}
    /\ cursor' = block[cursor].next
    /\ Configured
    /\ UNCHANGED <<block_list, block, chain, link, held, outstanding, search, destroying, fatal>>

\* find_free_allocation_within_block: the bytes of the mask it looks at
Scanned(mask) == {i \in mask : i < (allocations_per_block \div CharBit + 1) * CharBit}

\* Mutant of Cleared: the wrong bit
ClearedNext(mask, i) == mask \ {i + 1}

\* find_free_allocation_within_block: the slot is no longer free
Cleared(mask, i) == mask \ {i}

\* allocate_object with the block b, given the headers bs of the blocks, and
\* the rest of amqp__allocate
Take(b, bs) ==
    LET free == Scanned(bs[b].mask)
        o == <<b, Min(free)>>
    IN IF free = {} \/ Min(free) >= allocations_per_block
       THEN /\ fatal' = TRUE
            /\ UNCHANGED <<block, chain, link, held, outstanding>>
       ELSE /\ block' = [bs EXCEPT ![b].mask = Cleared(@, o[2])]
            /\ link' = [p \in held \cup {o} |->
                          IF p = o THEN [next |-> chain, previous |-> NULL]
                          ELSE IF p = chain THEN [link[p] EXCEPT !.previous = o]
                          ELSE link[p]]
            /\ chain' = o
            /\ held' = held \cup {o}
            /\ outstanding' = outstanding + 1
            /\ UNCHANGED fatal

AllocateFound ==
    /\ search /\ cursor # NULL
    /\ block[cursor].mask # {}
    /\ Take(cursor, block)
    /\ search' = FALSE /\ cursor' = NULL
    /\ Configured
    /\ UNCHANGED <<block_list, destroying>>

\* allocate_new_memory_block: the headers of the blocks with b as the first
Prepended(b) ==
    [x \in DOMAIN block \cup {b} |->
        IF x = b THEN [next |-> block_list, previous |-> NULL, mask |-> allocations_mask]
        ELSE IF x = block_list THEN [block[x] EXCEPT !.previous = b]
        ELSE block[x]]

AllocateNew ==
    /\ search /\ cursor = NULL
    /\ \E b \in Blocks \ DOMAIN block :
          /\ block_list' = b
          /\ Take(b, Prepended(b))
    /\ search' = FALSE /\ cursor' = NULL
    /\ Configured
    /\ UNCHANGED destroying

-----------------------------------------------------------------------------
\* amqp_deallocate of o, up to the destroyer callback; the callback of a type
\* gives back the types it contains before the type itself is given back
BeginDeallocate ==
    /\ ~search /\ ~fatal
    /\ \E o \in held :
          /\ \A i \in DOMAIN destroying : destroying[i] # o
          /\ destroying' = Append(destroying, o)
    /\ Configured
    /\ UNCHANGED <<block_list, block, chain, link, held, outstanding, search, cursor, fatal>>

\* Mutant of Unchained: the successor still points to o.
UnchainedOneWay(o) ==
    /\ chain' = IF link[o].previous = NULL THEN link[o].next ELSE chain
    /\ link' = [p \in held \ {o} |->
                  [next |-> IF p = link[o].previous THEN link[o].next ELSE link[p].next,
                   previous |-> link[p].previous]]

\* delete_object: the chain without o
Unchained(o) ==
    /\ chain' = IF link[o].previous = NULL THEN link[o].next ELSE chain
    /\ link' = [p \in held \ {o} |->
                  [next |-> IF p = link[o].previous THEN link[o].next ELSE link[p].next,
                   previous |-> IF p = link[o].next THEN link[o].previous
                                ELSE link[p].previous]]

\* Mutant of Unlinked: block_list moves on even if b is not the first block.
UnlinkedAsFirst(b) ==
    /\ block_list' = block[b].next
    /\ block' = [x \in DOMAIN block \ {b} |->
                   [next |-> IF x = block[b].previous THEN block[b].next ELSE block[x].next,
                    previous |-> IF x = block[b].next THEN block[b].previous
                                 ELSE block[x].previous,
                    mask |-> block[x].mask]]

\* delete_object: the list without the block b, which is freed
Unlinked(b) ==
    /\ block_list' = IF block[b].previous = NULL THEN block[b].next ELSE block_list
    /\ block' = [x \in DOMAIN block \ {b} |->
                   [next |-> IF x = block[b].previous THEN block[b].next ELSE block[x].next,
                    previous |-> IF x = block[b].next THEN block[b].previous
                                 ELSE block[x].previous,
                    mask |-> block[x].mask]]

\* Mutant of EverySlotFree: a block is released that has any free slot.
AnySlotFree(mask) == allocations_mask \cap mask # {}

\* (~mask & allocations_mask) == 0
EverySlotFree(mask) == allocations_mask \subseteq mask

\* delete_object and the rest of amqp_deallocate
FinishDeallocate ==
    /\ destroying # <<>> /\ ~fatal
    /\ LET o == destroying[Len(destroying)]
           b == o[1]
           mask == block[b].mask \cup {o[2]}
       IN /\ Unchained(o)
          /\ IF EverySlotFree(mask)
             THEN Unlinked(b)
             ELSE block' = [block EXCEPT ![b].mask = mask] /\ UNCHANGED block_list
          /\ held' = held \ {o}
    /\ outstanding' = outstanding - 1
    /\ destroying' = SubSeq(destroying, 1, Len(destroying) - 1)
    /\ Configured
    /\ UNCHANGED <<search, cursor, fatal>>

Next == \/ BeginAllocate \/ SearchOn \/ AllocateFound \/ AllocateNew
        \/ BeginDeallocate \/ FinishDeallocate
Spec == Init /\ [][Next]_vars
-----------------------------------------------------------------------------
(***************************************************************************)
(* Type correctness, with no pointer left to freed memory: block_list, the *)
(* headers of the blocks and the debug links point to blocks that are      *)
(* allocated and to objects that are handed out.                           *)
(***************************************************************************)
TypeOK ==
    /\ allocations_per_block \in 1 .. LongBit
    /\ allocations_mask \subseteq Bits
    /\ held \subseteq Objects
    /\ DOMAIN block \subseteq Blocks
    /\ block_list \in DOMAIN block \cup {NULL}
    /\ block \in [DOMAIN block -> [next : DOMAIN block \cup {NULL},
                                   previous : DOMAIN block \cup {NULL},
                                   mask : SUBSET Bits]]
    /\ chain \in held \cup {NULL}
    /\ link \in [held -> [next : held \cup {NULL}, previous : held \cup {NULL}]]
    /\ outstanding \in Nat
    /\ search \in BOOLEAN
    /\ cursor \in DOMAIN block \cup {NULL}
    /\ destroying \in Seq(held)
    /\ fatal \in BOOLEAN

(***************************************************************************)
(* find_free_allocation_within_block, delete_object: a slot of a block is  *)
(* marked free exactly while it is not handed out, whatever the order the  *)
(* destroyer callbacks give objects back in; no bit beyond the slots is    *)
(* ever set.                                                               *)
(***************************************************************************)
SlotsAccounted ==
    /\ \A o \in held : o[1] \in DOMAIN block /\ o[2] < allocations_per_block
    /\ \A b \in DOMAIN block :
          block[b].mask = {i \in 0 .. allocations_per_block - 1 : <<b, i>> \notin held}

(***************************************************************************)
(* delete_object: a block is released with its last object, so a pool with *)
(* no object handed out holds no memory.                                   *)
(***************************************************************************)
NoIdleBlock == \A b \in DOMAIN block : \E o \in held : o[1] = b

(***************************************************************************)
(* allocate_new_memory_block, delete_object: the blocks are linked both    *)
(* ways, and block_list is the one block without a predecessor.            *)
(***************************************************************************)
BlocksLinked ==
    \A b \in DOMAIN block :
        /\ block[b].previous = NULL <=> b = block_list
        /\ block[b].previous # NULL => block[block[b].previous].next = b
        /\ block[b].next # NULL => block[block[b].next].previous = b

(***************************************************************************)
(* The blocks agree with the objects handed out: through every nested      *)
(* release the masks tell which slots are free, a block exists while one   *)
(* of its objects does, and the list holds together.                       *)
(***************************************************************************)
BlocksSound == SlotsAccounted /\ NoIdleBlock /\ BlocksLinked

BlockAt[k \in Nat] ==
    IF k = 0 THEN block_list
    ELSE LET b == BlockAt[k - 1] IN IF b = NULL THEN NULL ELSE block[b].next

(***************************************************************************)
(* find_block_with_free_space: the walk from block_list comes to every     *)
(* block and ends.                                                         *)
(***************************************************************************)
BlocksReached ==
    {BlockAt[k] : k \in 0 .. Cardinality(DOMAIN block)} = DOMAIN block \cup {NULL}

ObjectAt[k \in Nat] ==
    IF k = 0 THEN chain
    ELSE LET o == ObjectAt[k - 1] IN IF o = NULL THEN NULL ELSE link[o].next

(***************************************************************************)
(* amqp_check_pool_is_empty: the walk along the allocation chain, which    *)
(* reports the objects not given back, comes to each of them and ends.     *)
(***************************************************************************)
LeaksReported ==
    {ObjectAt[k] : k \in 0 .. Cardinality(held)} = held \cup {NULL}

(***************************************************************************)
(* The walks along the two lists, of find_block_with_free_space and of     *)
(* amqp_check_pool_is_empty, come to every block and to every object that  *)
(* is handed out, and end.                                                 *)
(***************************************************************************)
ListsComplete == BlocksReached /\ LeaksReported

(***************************************************************************)
(* Pool.c: no allocation runs into not_reached(), into the assertion on    *)
(* the mask or into the check that the object belongs to the block.        *)
(***************************************************************************)
NoFatal == ~fatal

(***************************************************************************)
(* The pool keeps the promise of ObjectPool.                               *)
(***************************************************************************)
Promise == INSTANCE ObjectPool
PromiseKept == Promise!Spec
=============================================================================
