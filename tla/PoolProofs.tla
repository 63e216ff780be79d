----------------------------- MODULE PoolProofs -----------------------------
(***************************************************************************)
(* Proofs about Pool, for every machine and every pool an object fits.     *)
(***************************************************************************)
EXTENDS Pool, TLAPS, FiniteSetTheorems, SequenceTheorems, WellFoundedInduction

-----------------------------------------------------------------------------
(***************************************************************************)
(* Every set of naturals that is not empty has a least element, the one    *)
(* find_first_free_allocation looks for.                                   *)
(***************************************************************************)
LEMMA LeastOf ==
    ASSUME NEW R, IsWellFoundedOn(R, Nat), NEW S, S \subseteq Nat, S # {}
    PROVE  \E x \in S : \A y \in S : ~ (<<y, x>> \in R)
BY WFMin, Zenon

LEMMA MinOf ==
    ASSUME NEW S \in SUBSET Nat, S # {}
    PROVE  Min(S) \in S /\ \A x \in S : Min(S) <= x
<1>1. PICK R : R = OpToRel(<, Nat)
  OBVIOUS
<1>2. IsWellFoundedOn(R, Nat)
  BY <1>1, NatLessThanWellFounded
<1>3. \A x, y \in Nat : x < y => <<x, y>> \in R
  BY <1>1 DEF OpToRel
<1>4. S \subseteq Nat
  OBVIOUS
<1>5. \E x \in S : \A y \in S : ~ (<<y, x>> \in R)
  BY <1>2, <1>4, LeastOf, Zenon
<1>6. PICK x \in S : \A y \in S : ~ (<<y, x>> \in R)
  BY <1>5
<1>7. \A y \in S : ~ (y < x)
  BY <1>3, <1>4, <1>6
<1>8. \A y \in S : x <= y
  BY <1>4, <1>7
<1> QED BY <1>8 DEF Min

(***************************************************************************)
(* amqp_initialize_pool_suggesting_block_size: ((1UL << n) & ~1UL) - 1 has *)
(* the n lowest bits set, for n = LONG_BIT as well.                        *)
(***************************************************************************)
LEMMA MaskOfSlots ==
    ASSUME NEW n \in 1 .. LongBit, NEW mask \in AllocationsMasks(n)
    PROVE  mask = 0 .. n - 1
<1>0. LongBit \in Nat \ {0}
  BY WidthAssumption
<1>1. CASE n < LongBit
  <2>1. mask = Decremented({n} \ {0})
    BY <1>1 DEF AllocationsMasks, Shifted
  <2>2. {n} \ {0} = {n} /\ {n} # {} /\ {n} \in SUBSET Nat
    BY <1>0
  <2>3. Min({n}) = n
    BY <2>2, MinOf
  <2>4. mask = {b \in Bits : b < n}
    BY <2>1, <2>2, <2>3 DEF Decremented
  <2> QED BY <1>0, <1>1, <2>4 DEF Bits
<1>2. CASE n = LongBit
  <2>1. Shifted(n) = {{0}, {}}
    BY <1>0, <1>2 DEF Shifted
  <2>2. PICK m \in {{0}, {}} : mask = Decremented(m \ {0})
    BY <2>1 DEF AllocationsMasks
  <2>3. m \ {0} = {}
    BY <2>2
  <2>4. mask = Decremented({})
    BY <2>2, <2>3
  <2> QED BY <1>0, <1>2, <2>4 DEF Decremented, Bits
<1> QED BY <1>0, <1>1, <1>2

(***************************************************************************)
(* find_free_allocation_within_block: the bytes looked at hold every slot. *)
(***************************************************************************)
LEMMA AllBytesScanned ==
    ASSUME NEW n \in Nat, NEW i \in 0 .. n - 1
    PROVE  i < (n \div CharBit + 1) * CharBit
<1>1. CharBit \in Nat /\ CharBit > 0
  BY WidthAssumption
<1>2. n \div CharBit \in Int /\ n % CharBit \in 0 .. CharBit - 1
  BY <1>1
<1>3. n = CharBit * (n \div CharBit) + (n % CharBit)
  BY <1>1
<1> DEFINE q == n \div CharBit
           r == n % CharBit
<1>4. (q + 1) * CharBit = CharBit * q + CharBit
  BY <1>1, <1>2
<1>5. CharBit * q \in Int
  BY <1>1, <1>2
<1> QED BY <1>1, <1>2, <1>3, <1>4, <1>5

-----------------------------------------------------------------------------
\* The inductive invariant.  The blocks with their links; the chain of the
\* objects handed out, linked the same way; the masks; what is counted; what
\* runs.
BlocksOK ==
    /\ DOMAIN block \subseteq Blocks
    /\ block_list \in DOMAIN block \cup {NULL}
    /\ block \in [DOMAIN block -> [next : DOMAIN block \cup {NULL},
                                   previous : DOMAIN block \cup {NULL},
                                   mask : SUBSET Bits]]
    /\ BlocksLinked

ChainLinked ==
    \A o \in held :
        /\ link[o].previous = NULL <=> o = chain
        /\ link[o].previous # NULL => link[link[o].previous].next = o
        /\ link[o].next # NULL => link[link[o].next].previous = o

ChainOK ==
    /\ chain \in held \cup {NULL}
    /\ link \in [held -> [next : held \cup {NULL}, previous : held \cup {NULL}]]
    /\ ChainLinked

MaskOK ==
    /\ allocations_per_block \in 1 .. LongBit
    /\ allocations_mask = 0 .. allocations_per_block - 1

SlotsOK == held \subseteq Objects /\ SlotsAccounted /\ NoIdleBlock

CountOK == IsFiniteSet(held) /\ outstanding = Cardinality(held)

StackOK ==
    /\ destroying \in Seq(held)
    /\ \A i, j \in 1 .. Len(destroying) : destroying[i] = destroying[j] => i = j

RunOK ==
    /\ search \in BOOLEAN /\ fatal = FALSE
    /\ cursor \in DOMAIN block \cup {NULL}
    /\ search => destroying = <<>>
    /\ ~search => cursor = NULL

IInv == BlocksOK /\ ChainOK /\ MaskOK /\ SlotsOK /\ CountOK /\ StackOK /\ RunOK

-----------------------------------------------------------------------------
(***************************************************************************)
(* allocate_object and amqp_deallocate change the mask of one block: the   *)
(* links of the blocks stay as they are.                                   *)
(***************************************************************************)
LEMMA MaskChanged ==
    ASSUME BlocksOK, NEW b \in DOMAIN block, NEW mask \in SUBSET Bits,
           block' = [block EXCEPT ![b].mask = mask], block_list' = block_list
    PROVE  BlocksOK'
<1>1. DOMAIN block' = DOMAIN block
  BY DEF BlocksOK
<1>2. \A x \in DOMAIN block : /\ block'[x].next = block[x].next
                              /\ block'[x].previous = block[x].previous
                              /\ block'[x].mask \in SUBSET Bits
  BY DEF BlocksOK
<1>3. block' \in [DOMAIN block -> [next : DOMAIN block \cup {NULL},
                                   previous : DOMAIN block \cup {NULL},
                                   mask : SUBSET Bits]]
  BY <1>1, <1>2 DEF BlocksOK
<1>4. BlocksLinked'
  BY <1>1, <1>2 DEF BlocksOK, BlocksLinked
<1> QED BY <1>1, <1>3, <1>4 DEF BlocksOK

(***************************************************************************)
(* allocate_new_memory_block keeps the list of blocks linked.              *)
(***************************************************************************)
LEMMA BlockPrepended ==
    ASSUME BlocksOK, NEW b \in Blocks \ DOMAIN block, NEW i, allocations_mask \subseteq Bits,
           block' = [Prepended(b) EXCEPT ![b].mask = @ \ {i}], block_list' = b
    PROVE  BlocksOK'
<1>0. b # NULL /\ NULL \notin DOMAIN block
  BY NullAssumption DEF BlocksOK
<1>1. DOMAIN block' = DOMAIN block \cup {b}
  BY DEF Prepended
<1>2. /\ block'[b].next = block_list /\ block'[b].previous = NULL
      /\ block'[b].mask = allocations_mask \ {i}
      /\ block'[b] \in [next : DOMAIN block' \cup {NULL},
                        previous : DOMAIN block' \cup {NULL}, mask : SUBSET Bits]
  BY <1>1 DEF Prepended, BlocksOK
<1>3. \A x \in DOMAIN block :
         /\ block'[x].next = block[x].next
         /\ block'[x].previous = IF x = block_list THEN b ELSE block[x].previous
         /\ block'[x] \in [next : DOMAIN block' \cup {NULL},
                           previous : DOMAIN block' \cup {NULL}, mask : SUBSET Bits]
  BY <1>1 DEF Prepended, BlocksOK
<1>4. block' \in [DOMAIN block' -> [next : DOMAIN block' \cup {NULL},
                                    previous : DOMAIN block' \cup {NULL},
                                    mask : SUBSET Bits]]
  <2>1. \A x \in DOMAIN block' :
           block'[x] \in [next : DOMAIN block' \cup {NULL},
                          previous : DOMAIN block' \cup {NULL}, mask : SUBSET Bits]
    BY <1>1, <1>2, <1>3
  <2>2. block' = [x \in DOMAIN block' |-> block'[x]]
    BY DEF Prepended
  <2> QED BY <2>1, <2>2
<1>5. BlocksLinked'
  BY <1>0, <1>1, <1>2, <1>3 DEF BlocksOK, BlocksLinked
<1> QED BY <1>1, <1>4, <1>5 DEF BlocksOK

(***************************************************************************)
(* delete_object keeps the list of blocks linked when it frees one.        *)
(***************************************************************************)
LEMMA BlockUnlinked ==
    ASSUME BlocksOK, NEW b \in DOMAIN block, Unlinked(b)
    PROVE  BlocksOK'
<1>0. b # NULL /\ NULL \notin DOMAIN block
  BY NullAssumption DEF BlocksOK
<1>1. DOMAIN block' = DOMAIN block \ {b}
  BY DEF Unlinked
<1> DEFINE n == block[b].next
           p == block[b].previous
<1>2. /\ n \in DOMAIN block \cup {NULL} /\ p \in DOMAIN block \cup {NULL}
      /\ n # NULL => block[n].previous = b
      /\ p # NULL => block[p].next = b
      /\ p = NULL <=> b = block_list
      /\ n = b <=> p = b
  BY <1>0 DEF BlocksOK, BlocksLinked
<1>3. \A x \in DOMAIN block' :
         /\ block'[x].next = IF x = p THEN n ELSE block[x].next
         /\ block'[x].previous = IF x = n THEN p ELSE block[x].previous
         /\ block'[x].mask = block[x].mask
  BY <1>1 DEF Unlinked
<1>4. \A x \in DOMAIN block' : /\ block'[x].next \in DOMAIN block' \cup {NULL}
                               /\ block'[x].previous \in DOMAIN block' \cup {NULL}
                               /\ block'[x].mask \in SUBSET Bits
  BY <1>0, <1>1, <1>2, <1>3 DEF BlocksOK, BlocksLinked
<1>5. block' \in [DOMAIN block' -> [next : DOMAIN block' \cup {NULL},
                                    previous : DOMAIN block' \cup {NULL},
                                    mask : SUBSET Bits]]
  BY <1>1, <1>4 DEF Unlinked
<1>6. block_list' = IF p = NULL THEN n ELSE block_list
  BY DEF Unlinked
<1>7. block_list' \in DOMAIN block' \cup {NULL}
  BY <1>0, <1>1, <1>2, <1>6 DEF BlocksOK
<1>8. BlocksLinked'
  <2> SUFFICES ASSUME NEW x \in DOMAIN block'
               PROVE  /\ block'[x].previous = NULL <=> x = block_list'
                      /\ block'[x].previous # NULL => block'[block'[x].previous].next = x
                      /\ block'[x].next # NULL => block'[block'[x].next].previous = x
    BY DEF BlocksLinked
  <2>1. /\ x \in DOMAIN block /\ x # b
        /\ block[x].previous = NULL <=> x = block_list
        /\ block[x].previous # NULL => block[block[x].previous].next = x
        /\ block[x].next # NULL => block[block[x].next].previous = x
    BY <1>1 DEF BlocksOK, BlocksLinked
  <2> HIDE DEF n, p
  <2> QED BY <1>0, <1>1, <1>2, <1>3, <1>4, <1>6, <2>1
<1> QED BY <1>1, <1>5, <1>7, <1>8 DEF BlocksOK

(***************************************************************************)
(* allocate_object puts the object in front of the allocation chain.       *)
(***************************************************************************)
LEMMA ObjectChained ==
    ASSUME ChainOK, held \subseteq Objects, NEW o \in Objects \ held,
           held' = held \cup {o}, chain' = o,
           link' = [p \in held \cup {o} |->
                      IF p = o THEN [next |-> chain, previous |-> NULL]
                      ELSE IF p = chain THEN [link[p] EXCEPT !.previous = o]
                      ELSE link[p]]
    PROVE  ChainOK'
<1>0. o # NULL /\ NULL \notin held
  BY NullAssumption DEF Objects
<1>1. link'[o].next = chain /\ link'[o].previous = NULL
  OBVIOUS
<1>2. \A x \in held : /\ link'[x].next = link[x].next
                      /\ link'[x].previous = IF x = chain THEN o ELSE link[x].previous
  BY DEF ChainOK
<1>3. link' \in [held' -> [next : held' \cup {NULL}, previous : held' \cup {NULL}]]
  BY DEF ChainOK
<1>4. ChainLinked'
  <2> SUFFICES ASSUME NEW x \in held'
               PROVE  /\ link'[x].previous = NULL <=> x = chain'
                      /\ link'[x].previous # NULL => link'[link'[x].previous].next = x
                      /\ link'[x].next # NULL => link'[link'[x].next].previous = x
    BY DEF ChainLinked
  <2>1. CASE x = o
    BY <1>0, <1>1, <1>2, <2>1 DEF ChainOK
  <2>2. CASE x # o
    <3>1. /\ x \in held
          /\ link[x].next \in held \cup {NULL} /\ link[x].previous \in held \cup {NULL}
          /\ link[x].previous = NULL <=> x = chain
          /\ link[x].previous # NULL => link[link[x].previous].next = x
          /\ link[x].next # NULL => link[link[x].next].previous = x
      BY <2>2 DEF ChainOK, ChainLinked
    <3>2. link[x].next # NULL => link[x].next # chain
      BY <1>0, <3>1 DEF ChainOK, ChainLinked
    <3> QED BY <1>0, <1>1, <1>2, <2>2, <3>1, <3>2
  <2> QED BY <2>1, <2>2
<1> QED BY <1>3, <1>4 DEF ChainOK

(***************************************************************************)
(* delete_object takes the object out of the allocation chain, and leaves  *)
(* no link to it.                                                          *)
(***************************************************************************)
LEMMA ObjectUnchained ==
    ASSUME ChainOK, held \subseteq Objects, NEW o \in held, Unchained(o), held' = held \ {o}
    PROVE  ChainOK'
<1>0. o # NULL /\ NULL \notin held
  BY NullAssumption DEF Objects
<1> DEFINE n == link[o].next
           p == link[o].previous
<1>2. /\ n \in held \cup {NULL} /\ p \in held \cup {NULL}
      /\ n # NULL => link[n].previous = o
      /\ p # NULL => link[p].next = o
      /\ p = NULL <=> o = chain
      /\ n = o <=> p = o
  BY <1>0 DEF ChainOK, ChainLinked
<1>3. \A x \in held' :
         /\ link'[x].next = IF x = p THEN n ELSE link[x].next
         /\ link'[x].previous = IF x = n THEN p ELSE link[x].previous
  BY DEF Unchained
<1>4. \A x \in held' : /\ link'[x].next \in held' \cup {NULL}
                       /\ link'[x].previous \in held' \cup {NULL}
  BY <1>0, <1>2, <1>3 DEF ChainOK, ChainLinked
<1>5. link' \in [held' -> [next : held' \cup {NULL}, previous : held' \cup {NULL}]]
  BY <1>4 DEF Unchained
<1>6. chain' = IF p = NULL THEN n ELSE chain
  BY DEF Unchained
<1>7. chain' \in held' \cup {NULL}
  BY <1>0, <1>2, <1>6 DEF ChainOK
<1>8. ChainLinked'
  <2> SUFFICES ASSUME NEW x \in held'
               PROVE  /\ link'[x].previous = NULL <=> x = chain'
                      /\ link'[x].previous # NULL => link'[link'[x].previous].next = x
                      /\ link'[x].next # NULL => link'[link'[x].next].previous = x
    BY DEF ChainLinked
  <2>1. /\ x \in held /\ x # o
        /\ link[x].previous = NULL <=> x = chain
        /\ link[x].previous # NULL => link[link[x].previous].next = x
        /\ link[x].next # NULL => link[link[x].next].previous = x
    BY DEF ChainOK, ChainLinked
  <2> HIDE DEF n, p
  <2> QED BY <1>0, <1>2, <1>3, <1>4, <1>6, <2>1
<1> QED BY <1>5, <1>7, <1>8 DEF ChainOK

(***************************************************************************)
(* find_free_allocation_within_block: in a block that has a free slot, an  *)
(* allocation takes a free slot and none of the checks fails.              *)
(***************************************************************************)
LEMMA SlotTaken ==
    ASSUME MaskOK, NEW b, NEW bs, bs[b].mask # {},
           bs[b].mask \subseteq 0 .. allocations_per_block - 1, Take(b, bs)
    PROVE  \E i \in bs[b].mask :
              /\ block' = [bs EXCEPT ![b].mask = @ \ {i}]
              /\ link' = [p \in held \cup {<<b, i>>} |->
                            IF p = <<b, i>> THEN [next |-> chain, previous |-> NULL]
                            ELSE IF p = chain THEN [link[p] EXCEPT !.previous = <<b, i>>]
                            ELSE link[p]]
              /\ chain' = <<b, i>>
              /\ held' = held \cup {<<b, i>>}
              /\ outstanding' = outstanding + 1
              /\ fatal' = fatal
<1> DEFINE free == Scanned(bs[b].mask)
<1>1. free = bs[b].mask
  <2>1. allocations_per_block \in Nat
    BY WidthAssumption DEF MaskOK
  <2>2. \A i \in bs[b].mask : i < (allocations_per_block \div CharBit + 1) * CharBit
    BY <2>1, AllBytesScanned
  <2> QED BY <2>2 DEF Scanned
<1>2. free \in SUBSET Nat /\ free # {}
  BY <1>1
<1>3. Min(free) \in free
  <2> HIDE DEF free
  <2> QED BY <1>2, MinOf
<1>4. ~(free = {} \/ Min(free) >= allocations_per_block)
  <2>1. Min(free) \in 0 .. allocations_per_block - 1
    BY <1>1, <1>3
  <2>2. allocations_per_block \in Int
    BY WidthAssumption DEF MaskOK
  <2>3. \A m \in 0 .. allocations_per_block - 1 : ~(m >= allocations_per_block)
    BY <2>2
  <2> QED BY <1>2, <2>1, <2>3, Zenon
<1>5. PICK i : i = Min(free)
  OBVIOUS
<1>6. i \in bs[b].mask
  BY <1>1, <1>3, <1>5
<1> QED BY <1>4, <1>5, <1>6 DEF Take, Cleared

(***************************************************************************)
(* The masks account for the object that an allocation hands out.          *)
(***************************************************************************)
LEMMA SlotsAfterTake ==
    ASSUME SlotsOK, MaskOK, NEW b \in Blocks, NEW i \in 0 .. allocations_per_block - 1,
           held' = held \cup {<<b, i>>},
           allocations_per_block' = allocations_per_block,
           DOMAIN block' = DOMAIN block \cup {b},
           block'[b].mask = {j \in 0 .. allocations_per_block - 1 : <<b, j>> \notin held} \ {i},
           \A x \in DOMAIN block \ {b} : block'[x].mask = block[x].mask
    PROVE  SlotsOK'
<1>1. i \in Bits
  BY WidthAssumption DEF MaskOK, Bits
<1>2. held' \subseteq Objects
  BY <1>1 DEF SlotsOK, Objects
<1>3. \A o \in held' : o[1] \in DOMAIN block' /\ o[2] < allocations_per_block'
  <2>1. i < allocations_per_block
    BY WidthAssumption DEF MaskOK
  <2> QED BY <2>1 DEF SlotsOK, SlotsAccounted
<1>4. \A x \in DOMAIN block' :
         block'[x].mask = {j \in 0 .. allocations_per_block' - 1 : <<x, j>> \notin held'}
  <2> SUFFICES ASSUME NEW x \in DOMAIN block'
               PROVE  block'[x].mask
                        = {j \in 0 .. allocations_per_block - 1 : <<x, j>> \notin held'}
    OBVIOUS
  <2>1. CASE x = b
    BY <2>1
  <2>2. CASE x # b
    <3>1. block'[x].mask = {j \in 0 .. allocations_per_block - 1 : <<x, j>> \notin held}
      BY <2>2 DEF SlotsOK, SlotsAccounted
    <3>2. \A j : <<x, j>> \in held' <=> <<x, j>> \in held
      BY <2>2
    <3> QED BY <3>1, <3>2
  <2> QED BY <2>1, <2>2
<1>5. NoIdleBlock'
  <2>1. <<b, i>> \in held' /\ <<b, i>>[1] = b
    OBVIOUS
  <2>2. \A x \in DOMAIN block : \E o \in held' : o[1] = x
    BY DEF SlotsOK, NoIdleBlock
  <2> QED BY <2>1, <2>2 DEF NoIdleBlock
<1> QED BY <1>2, <1>3, <1>4, <1>5 DEF SlotsOK, SlotsAccounted

(***************************************************************************)
(* The masks account for the object given back, and when its block is      *)
(* freed no object of that block is left.                                  *)
(***************************************************************************)
LEMMA SlotsAfterDelete ==
    ASSUME SlotsOK, MaskOK, NEW o \in held, held' = held \ {o},
           allocations_per_block' = allocations_per_block,
           NEW mask, mask = block[o[1]].mask \cup {o[2]},
           \/ /\ EverySlotFree(mask)
              /\ DOMAIN block' = DOMAIN block \ {o[1]}
           \/ /\ ~EverySlotFree(mask)
              /\ DOMAIN block' = DOMAIN block
              /\ block'[o[1]].mask = mask,
           \A x \in DOMAIN block \ {o[1]} : block'[x].mask = block[x].mask
    PROVE  SlotsOK'
<1>0. PICK b \in Blocks, i \in Bits : o = <<b, i>>
  BY DEF SlotsOK, Objects
<1>1. /\ b \in DOMAIN block /\ i \in 0 .. allocations_per_block - 1
      /\ o[1] = b /\ o[2] = i
  BY <1>0, WidthAssumption DEF SlotsOK, SlotsAccounted, MaskOK, Bits
<1>2. mask = {j \in 0 .. allocations_per_block - 1 : <<b, j>> \notin held'}
  <2>1. block[b].mask = {j \in 0 .. allocations_per_block - 1 : <<b, j>> \notin held}
    BY <1>1 DEF SlotsOK, SlotsAccounted
  <2>2. \A j : <<b, j>> \in held' <=> (<<b, j>> \in held /\ j # i)
    BY <1>0
  <2> QED BY <1>1, <2>1, <2>2
<1>3. \A x \in DOMAIN block' \ {b} :
         block'[x].mask = {j \in 0 .. allocations_per_block - 1 : <<x, j>> \notin held'}
  <2> SUFFICES ASSUME NEW x \in DOMAIN block' \ {b}
               PROVE  block'[x].mask
                        = {j \in 0 .. allocations_per_block - 1 : <<x, j>> \notin held'}
    OBVIOUS
  <2>1. block'[x].mask = {j \in 0 .. allocations_per_block - 1 : <<x, j>> \notin held}
    BY <1>1 DEF SlotsOK, SlotsAccounted
  <2>2. \A j : <<x, j>> \in held' <=> <<x, j>> \in held
    BY <1>0
  <2> QED BY <2>1, <2>2
<1>4. held' \subseteq Objects
  BY DEF SlotsOK
<1>5. \A p \in held' : p \in held /\ p[2] < allocations_per_block /\ p[1] \in DOMAIN block
  BY DEF SlotsOK, SlotsAccounted
<1>6. CASE EverySlotFree(mask)
  <2>1. DOMAIN block' = DOMAIN block \ {b}
    BY <1>1, <1>6
  <2>2. \A p \in held' : p[1] # b
    <3> SUFFICES ASSUME NEW p \in held', p[1] = b
                 PROVE  FALSE
      OBVIOUS
    <3>1. PICK j \in Bits : p = <<b, j>>
      BY <1>4 DEF Objects
    <3>2. j \in allocations_mask
      BY <1>5, <3>1, WidthAssumption DEF MaskOK, Bits
    <3>3. j \in mask
      BY <1>6, <3>2 DEF EverySlotFree
    <3> QED BY <1>2, <3>1, <3>3
  <2>3. SlotsAccounted'
    BY <1>3, <1>5, <2>1, <2>2 DEF SlotsAccounted
  <2>4. NoIdleBlock'
    BY <1>1, <2>1 DEF SlotsOK, NoIdleBlock
  <2> QED BY <1>4, <2>3, <2>4 DEF SlotsOK
<1>7. CASE ~EverySlotFree(mask)
  <2>1. DOMAIN block' = DOMAIN block /\ block'[b].mask = mask
    BY <1>1, <1>7
  <2>2. SlotsAccounted'
    BY <1>2, <1>3, <1>5, <2>1 DEF SlotsAccounted
  <2>3. PICK j \in 0 .. allocations_per_block - 1 : j \notin mask
    BY <1>7 DEF EverySlotFree, MaskOK
  <2>4. <<b, j>> \in held'
    BY <1>2, <2>3
  <2>5. \A x \in DOMAIN block \ {b} : \E p \in held' : p[1] = x
    BY <1>1 DEF SlotsOK, NoIdleBlock
  <2>6. NoIdleBlock'
    BY <2>1, <2>4, <2>5 DEF NoIdleBlock
  <2> QED BY <1>4, <2>2, <2>6 DEF SlotsOK
<1> QED BY <1>6, <1>7

-----------------------------------------------------------------------------
(***************************************************************************)
(* The invariant holds of a pool just initialized.                         *)
(***************************************************************************)
LEMMA InitIInv == Init => IInv
<1> SUFFICES ASSUME Init
             PROVE  IInv
  OBVIOUS
<1>1. MaskOK
  <2>1. allocations_per_block \in 1 .. LongBit
    BY FitAssumption DEF Init
  <2>2. allocations_mask \in AllocationsMasks(allocations_per_block)
    BY DEF Init
  <2> QED BY <2>1, <2>2, MaskOfSlots DEF MaskOK
<1>2. BlocksOK
  BY DEF Init, BlocksOK, BlocksLinked
<1>3. ChainOK
  BY DEF Init, ChainOK, ChainLinked
<1>4. SlotsOK
  BY DEF Init, SlotsOK, SlotsAccounted, NoIdleBlock
<1>5. CountOK
  BY FS_EmptySet DEF Init, CountOK
<1>6. StackOK
  BY DEF Init, StackOK
<1>7. RunOK
  BY DEF Init, RunOK
<1> QED BY <1>1, <1>2, <1>3, <1>4, <1>5, <1>6, <1>7 DEF IInv

(***************************************************************************)
(* An allocation that takes a slot of the block b keeps what is counted    *)
(* and what runs, and is an allocation of ObjectPool.                      *)
(***************************************************************************)
LEMMA CountedAfterTake ==
    ASSUME CountOK, RunOK, NEW o, o \notin held, held' = held \cup {o},
           outstanding' = outstanding + 1, fatal' = fatal, search, search' = FALSE,
           cursor' = NULL, destroying' = destroying
    PROVE  CountOK' /\ StackOK' /\ RunOK'
<1>1. CountOK'
  BY FS_AddElement DEF CountOK
<1>2. destroying' = <<>>
  BY DEF RunOK
<1>3. StackOK'
  BY <1>2 DEF StackOK
<1>4. RunOK'
  BY <1>2 DEF RunOK
<1> QED BY <1>1, <1>3, <1>4

(***************************************************************************)
(* amqp__allocate keeps the invariant when find_block_with_free_space      *)
(* finds a block.                                                          *)
(***************************************************************************)
LEMMA AllocateFoundStep ==
    ASSUME IInv, AllocateFound
    PROVE  IInv' /\ Promise!Allocate
<1> DEFINE b == cursor
           n == allocations_per_block
<1>1. b \in DOMAIN block /\ b \in Blocks /\ Take(b, block) /\ block[b].mask # {}
  BY DEF IInv, RunOK, BlocksOK, AllocateFound
<1>2. block[b].mask = {i \in 0 .. n - 1 : <<b, i>> \notin held}
  BY <1>1 DEF IInv, SlotsOK, SlotsAccounted
<1>3. block[b].mask \subseteq 0 .. n - 1
  BY <1>2
<1>4. PICK i \in block[b].mask :
              /\ block' = [block EXCEPT ![b].mask = @ \ {i}]
              /\ link' = [p \in held \cup {<<b, i>>} |->
                            IF p = <<b, i>> THEN [next |-> chain, previous |-> NULL]
                            ELSE IF p = chain THEN [link[p] EXCEPT !.previous = <<b, i>>]
                            ELSE link[p]]
              /\ chain' = <<b, i>>
              /\ held' = held \cup {<<b, i>>}
              /\ outstanding' = outstanding + 1
              /\ fatal' = fatal
  BY <1>1, <1>3, SlotTaken DEF IInv
<1>5. i \in 0 .. n - 1 /\ <<b, i>> \notin held
  BY <1>2, <1>4
<1>6. <<b, i>> \in Objects \ held
  BY <1>1, <1>5, WidthAssumption DEF Objects, Bits, IInv, MaskOK
<1>7. BlocksOK'
  <2>1. block[b].mask \ {i} \in SUBSET Bits
    BY <1>1 DEF IInv, BlocksOK
  <2>2. block' = [block EXCEPT ![b].mask = block[b].mask \ {i}] /\ block_list' = block_list
    BY <1>4 DEF AllocateFound
  <2> HIDE DEF b
  <2> QED BY <1>1, <2>1, <2>2, MaskChanged DEF IInv
<1>8. ChainOK'
  <2>1. held \subseteq Objects
    BY DEF IInv, SlotsOK
  <2> QED BY <1>4, <1>6, <2>1, ObjectChained DEF IInv
<1>9. MaskOK' /\ n' = n
  BY DEF AllocateFound, Configured, IInv, MaskOK
<1>10. SlotsOK'
  <2>1. /\ DOMAIN block' = DOMAIN block \cup {b}
        /\ block'[b].mask = block[b].mask \ {i}
        /\ \A x \in DOMAIN block \ {b} : block'[x].mask = block[x].mask
    BY <1>1, <1>4 DEF IInv, BlocksOK
  <2> HIDE DEF b, n
  <2> QED BY <1>1, <1>2, <1>4, <1>5, <1>9, <2>1, SlotsAfterTake DEF IInv, n
<1>11. CountOK' /\ StackOK' /\ RunOK'
  BY <1>4, <1>5, CountedAfterTake DEF IInv, AllocateFound
<1>12. Promise!Allocate
  BY <1>4, <1>6 DEF Promise!Allocate
<1> QED BY <1>7, <1>8, <1>9, <1>10, <1>11, <1>12 DEF IInv

(***************************************************************************)
(* amqp__allocate keeps the invariant when allocate_new_memory_block adds  *)
(* a block.                                                                *)
(***************************************************************************)
LEMMA AllocateNewStep ==
    ASSUME IInv, AllocateNew
    PROVE  IInv' /\ Promise!Allocate
<1> DEFINE n == allocations_per_block
<1>1. PICK b \in Blocks \ DOMAIN block : block_list' = b /\ Take(b, Prepended(b))
  BY DEF AllocateNew
<1>2. Prepended(b)[b].mask = 0 .. n - 1
  BY DEF Prepended, IInv, MaskOK
<1>3. n \in 1 .. LongBit
  BY DEF IInv, MaskOK
<1>4. Prepended(b)[b].mask # {} /\ Prepended(b)[b].mask \subseteq 0 .. n - 1
  <2>1. 0 \in 0 .. n - 1
    BY <1>3, WidthAssumption
  <2> QED BY <1>2, <2>1
<1>5. PICK i \in Prepended(b)[b].mask :
              /\ block' = [Prepended(b) EXCEPT ![b].mask = @ \ {i}]
              /\ link' = [p \in held \cup {<<b, i>>} |->
                            IF p = <<b, i>> THEN [next |-> chain, previous |-> NULL]
                            ELSE IF p = chain THEN [link[p] EXCEPT !.previous = <<b, i>>]
                            ELSE link[p]]
              /\ chain' = <<b, i>>
              /\ held' = held \cup {<<b, i>>}
              /\ outstanding' = outstanding + 1
              /\ fatal' = fatal
  BY <1>1, <1>4, SlotTaken DEF IInv
<1>6. \A j : <<b, j>> \notin held
  <2>1. \A o \in held : o[1] \in DOMAIN block
    BY DEF IInv, SlotsOK, SlotsAccounted
  <2> QED BY <1>1, <2>1
<1>7. i \in 0 .. n - 1 /\ <<b, i>> \in Objects \ held
  BY <1>2, <1>3, <1>5, <1>6, WidthAssumption DEF Objects, Bits
<1>8. BlocksOK'
  <2>1. allocations_mask \subseteq Bits
    BY WidthAssumption DEF IInv, MaskOK, Bits
  <2> QED BY <1>1, <1>5, <2>1, BlockPrepended DEF IInv
<1>9. ChainOK'
  <2>1. held \subseteq Objects
    BY DEF IInv, SlotsOK
  <2> QED BY <1>5, <1>7, <2>1, ObjectChained DEF IInv
<1>10. MaskOK' /\ n' = n
  BY DEF AllocateNew, Configured, IInv, MaskOK
<1>11. SlotsOK'
  <2>1. DOMAIN block' = DOMAIN block \cup {b}
    BY <1>5 DEF Prepended
  <2>2. block'[b].mask = 0 .. n - 1 \ {i}
    BY <1>2, <1>5 DEF Prepended
  <2>3. 0 .. n - 1 = {j \in 0 .. n - 1 : <<b, j>> \notin held}
    BY <1>6
  <2>4. \A x \in DOMAIN block \ {b} : block'[x].mask = block[x].mask
    BY <1>5 DEF Prepended, IInv, BlocksOK
  <2>5. block'[b].mask = {j \in 0 .. n - 1 : <<b, j>> \notin held} \ {i}
    BY <2>2, <2>3
  <2> QED BY <1>5, <1>7, <1>10, <2>1, <2>4, <2>5, SlotsAfterTake DEF IInv
<1>12. CountOK' /\ StackOK' /\ RunOK'
  BY <1>5, <1>7, CountedAfterTake DEF IInv, AllocateNew
<1>13. Promise!Allocate
  BY <1>5, <1>7 DEF Promise!Allocate
<1> QED BY <1>8, <1>9, <1>10, <1>11, <1>12, <1>13 DEF IInv

(***************************************************************************)
(* What is left of a stack when its top is removed, as amqp_deallocate     *)
(* does with the destroyer callback that returns.                          *)
(***************************************************************************)
LEMMA Popped ==
    ASSUME NEW S, NEW s \in Seq(S), s # <<>>, NEW T,
           \A j \in 1 .. Len(s) - 1 : s[j] \in T
    PROVE  /\ SubSeq(s, 1, Len(s) - 1) \in Seq(T)
           /\ Len(SubSeq(s, 1, Len(s) - 1)) = Len(s) - 1
           /\ \A j \in 1 .. Len(s) - 1 : SubSeq(s, 1, Len(s) - 1)[j] = s[j]
<1>1. Len(s) \in Nat \ {0}
  OBVIOUS
<1>2. PICK m : m = Len(s) - 1
  OBVIOUS
<1>3. m \in Int /\ m >= 0
  BY <1>1, <1>2
<1>4. /\ SubSeq(s, 1, m) \in Seq(T)
      /\ Len(SubSeq(s, 1, m)) = IF 1 <= m THEN m - 1 + 1 ELSE 0
      /\ \A j \in 1 .. m - 1 + 1 : SubSeq(s, 1, m)[j] = s[1 + j - 1]
  BY <1>2, <1>3, SubSeqProperties
<1>5. Len(SubSeq(s, 1, m)) = m
  BY <1>3, <1>4
<1>6. \A j \in 1 .. m : j \in 1 .. m - 1 + 1 /\ 1 + j - 1 = j
  BY <1>3
<1> QED BY <1>2, <1>4, <1>5, <1>6

(***************************************************************************)
(* amqp_deallocate keeps the invariant when it deletes the object, and is  *)
(* a deallocation of ObjectPool.                                           *)
(***************************************************************************)
LEMMA FinishDeallocateStep ==
    ASSUME IInv, FinishDeallocate
    PROVE  IInv' /\ Promise!Deallocate
<1> DEFINE top == Len(destroying)
<1>1. destroying \in Seq(held) /\ destroying # <<>>
  BY DEF IInv, StackOK, FinishDeallocate
<1>2. PICK o : o = destroying[top]
  OBVIOUS
<1>3. o \in held /\ top \in Nat \ {0}
  BY <1>1, <1>2
<1>4. PICK b \in Blocks, i \in Bits : o = <<b, i>>
  BY <1>3 DEF IInv, SlotsOK, Objects
<1>5. o[1] = b /\ o[2] = i /\ b \in DOMAIN block
  BY <1>3, <1>4 DEF IInv, SlotsOK, SlotsAccounted
<1> DEFINE mask == block[b].mask \cup {i}
<1>6. /\ Unchained(o)
      /\ IF EverySlotFree(mask)
         THEN Unlinked(b)
         ELSE block' = [block EXCEPT ![b].mask = mask] /\ UNCHANGED block_list
      /\ held' = held \ {o}
      /\ outstanding' = outstanding - 1
  BY <1>2, <1>5 DEF FinishDeallocate
<1>7. mask \in SUBSET Bits
  BY <1>4, <1>5 DEF IInv, BlocksOK
<1>8. BlocksOK'
  <2> HIDE DEF mask
  <2>1. CASE EverySlotFree(mask)
    BY <1>5, <1>6, <2>1, BlockUnlinked DEF IInv
  <2>2. CASE ~EverySlotFree(mask)
    BY <1>5, <1>6, <1>7, <2>2, MaskChanged DEF IInv
  <2> QED BY <2>1, <2>2
<1>9. ChainOK'
  <2>1. held \subseteq Objects
    BY DEF IInv, SlotsOK
  <2> QED BY <1>3, <1>6, <2>1, ObjectUnchained DEF IInv
<1>10. MaskOK' /\ allocations_per_block' = allocations_per_block
  BY DEF FinishDeallocate, Configured, IInv, MaskOK
<1>11. SlotsOK'
  <2>1. EverySlotFree(mask) => DOMAIN block' = DOMAIN block \ {b}
    BY <1>6 DEF Unlinked
  <2>2. ~EverySlotFree(mask) => DOMAIN block' = DOMAIN block /\ block'[b].mask = mask
    BY <1>5, <1>6 DEF IInv, BlocksOK
  <2>3. \A x \in DOMAIN block \ {b} : block'[x].mask = block[x].mask
    BY <1>6 DEF IInv, BlocksOK, Unlinked
  <2>4. mask = block[o[1]].mask \cup {o[2]}
    BY <1>5
  <2>5. SlotsOK /\ MaskOK
    BY DEF IInv
  <2> HIDE DEF mask
  <2> QED BY <1>3, <1>5, <1>6, <1>10, <2>1, <2>2, <2>3, <2>4, <2>5, SlotsAfterDelete
<1>12. CountOK'
  BY <1>3, <1>6, FS_RemoveElement DEF CountOK, IInv
<1>13. StackOK'
  <2>1. destroying' = SubSeq(destroying, 1, top - 1)
    BY DEF FinishDeallocate
  <2>2. \A j, k \in 1 .. top : destroying[j] = destroying[k] => j = k
    BY DEF IInv, StackOK
  <2>3. \A j \in 1 .. top - 1 : destroying[j] \in held \ {o}
    BY <1>1, <1>2, <1>3, <2>2
  <2>4. /\ destroying' \in Seq(held')
        /\ Len(destroying') = top - 1
        /\ \A j \in 1 .. top - 1 : destroying'[j] = destroying[j]
    BY <1>1, <1>6, <2>1, <2>3, Popped
  <2> HIDE DEF top
  <2> QED BY <1>3, <2>2, <2>4 DEF StackOK
<1>14. RunOK'
  <2>1. ~search /\ cursor = NULL
    BY <1>1 DEF IInv, RunOK
  <2>2. search' = search /\ cursor' = cursor /\ fatal' = fatal
    BY DEF FinishDeallocate
  <2> QED BY <2>1, <2>2 DEF IInv, RunOK
<1>15. Promise!Deallocate
  BY <1>3, <1>6 DEF Promise!Deallocate
<1> QED BY <1>8, <1>9, <1>10, <1>11, <1>12, <1>13, <1>14, <1>15 DEF IInv

(***************************************************************************)
(* The steps of amqp__allocate and amqp_deallocate that neither hand out   *)
(* an object nor delete one.                                               *)
(***************************************************************************)
LEMMA QuietSteps ==
    ASSUME IInv, BeginAllocate \/ SearchOn \/ BeginDeallocate \/ UNCHANGED vars
    PROVE  IInv' /\ UNCHANGED <<held, outstanding>>
<1>1. UNCHANGED <<allocations_per_block, allocations_mask, block_list, block, chain, link,
                  held, outstanding>>
  BY DEF BeginAllocate, SearchOn, BeginDeallocate, Configured, vars
<1>2. BlocksOK'
  BY <1>1 DEF IInv, BlocksOK, BlocksLinked
<1>3. ChainOK'
  BY <1>1 DEF IInv, ChainOK, ChainLinked
<1>4. MaskOK' /\ CountOK'
  BY <1>1 DEF IInv, MaskOK, CountOK
<1>5. SlotsOK'
  BY <1>1 DEF IInv, SlotsOK, SlotsAccounted, NoIdleBlock
<1>6. StackOK' /\ RunOK'
  <2>1. CASE BeginAllocate
    BY <1>1, <2>1 DEF BeginAllocate, IInv, StackOK, RunOK, BlocksOK
  <2>2. CASE SearchOn
    <3>1. cursor' \in DOMAIN block \cup {NULL}
      BY <2>2 DEF SearchOn, IInv, RunOK, BlocksOK
    <3> QED BY <1>1, <2>2, <3>1 DEF SearchOn, IInv, StackOK, RunOK
  <2>3. CASE BeginDeallocate
    <3>1. PICK o \in held : /\ \A i \in DOMAIN destroying : destroying[i] # o
                            /\ destroying' = Append(destroying, o)
      BY <2>3 DEF BeginDeallocate
    <3>2. destroying \in Seq(held)
      BY DEF IInv, StackOK
    <3>3. /\ destroying' \in Seq(held)
          /\ Len(destroying') = Len(destroying) + 1
          /\ \A i \in 1 .. Len(destroying) : destroying'[i] = destroying[i]
          /\ destroying'[Len(destroying) + 1] = o
      BY <3>1, <3>2
    <3>4. Len(destroying) \in Nat /\ \A i \in 1 .. Len(destroying) : destroying[i] # o
      BY <3>1, <3>2
    <3>5. \A i, j \in 1 .. Len(destroying) : destroying[i] = destroying[j] => i = j
      BY DEF IInv, StackOK
    <3>6. \A i, j \in 1 .. Len(destroying) + 1 : destroying'[i] = destroying'[j] => i = j
      <4> DEFINE len == Len(destroying)
      <4>1. \A i \in 1 .. len + 1 : i \in 1 .. len \/ i = len + 1
        BY <3>4
      <4> QED BY <3>3, <3>4, <3>5, <4>1
    <3>7. StackOK'
      BY <1>1, <3>3, <3>6 DEF StackOK
    <3>8. RunOK'
      BY <1>1, <2>3 DEF BeginDeallocate, IInv, RunOK
    <3> QED BY <3>7, <3>8
  <2>4. CASE UNCHANGED vars
    BY <1>1, <2>4 DEF vars, IInv, StackOK, RunOK
  <2> QED BY <2>1, <2>2, <2>3, <2>4
<1> QED BY <1>1, <1>2, <1>3, <1>4, <1>5, <1>6 DEF IInv

(***************************************************************************)
(* Every step keeps the invariant.                                         *)
(***************************************************************************)
LEMMA NextIInv ==
    ASSUME IInv, [Next]_vars
    PROVE  IInv' /\ [Promise!Next]_<<held, outstanding>>
<1>1. CASE AllocateFound
  BY <1>1, AllocateFoundStep DEF Promise!Next
<1>2. CASE AllocateNew
  BY <1>2, AllocateNewStep DEF Promise!Next
<1>3. CASE FinishDeallocate
  BY <1>3, FinishDeallocateStep DEF Promise!Next
<1>4. CASE BeginAllocate \/ SearchOn \/ BeginDeallocate \/ UNCHANGED vars
  BY <1>4, QuietSteps
<1> QED BY <1>1, <1>2, <1>3, <1>4 DEF Next

LEMMA Invariance == Spec => []IInv
BY InitIInv, NextIInv, PTL DEF Spec

-----------------------------------------------------------------------------
(***************************************************************************)
(* A pool is type correct, and neither block_list, the headers of its      *)
(* blocks nor the debug links of its objects point to freed memory.        *)
(***************************************************************************)
THEOREM PoolTypeOK == Spec => []TypeOK
<1>1. IInv => TypeOK
  <2> SUFFICES ASSUME IInv
               PROVE  TypeOK
    OBVIOUS
  <2>1. outstanding \in Nat
    BY FS_CardinalityType DEF IInv, CountOK
  <2>2. allocations_per_block \in 1 .. LongBit /\ allocations_mask \subseteq Bits
    BY WidthAssumption DEF IInv, MaskOK, Bits
  <2>3. search \in BOOLEAN /\ fatal \in BOOLEAN /\ cursor \in DOMAIN block \cup {NULL}
    BY DEF IInv, RunOK
  <2> QED BY <2>1, <2>2, <2>3 DEF TypeOK, IInv, BlocksOK, ChainOK, SlotsOK, StackOK
<1> QED BY <1>1, Invariance, PTL

(***************************************************************************)
(* The masks of the blocks and the objects handed out agree, a block is    *)
(* kept only for an object of it, and the blocks are linked both ways.     *)
(***************************************************************************)
THEOREM PoolBlocksSound == Spec => []BlocksSound
<1>1. IInv => BlocksSound
  BY DEF IInv, SlotsOK, BlocksOK, BlocksSound
<1> QED BY <1>1, Invariance, PTL

(***************************************************************************)
(* No allocation fails a check of Pool.c or reaches not_reached().         *)
(***************************************************************************)
THEOREM PoolNoFatal == Spec => []NoFatal
<1>1. IInv => NoFatal
  BY DEF IInv, RunOK, NoFatal
<1> QED BY <1>1, Invariance, PTL

(***************************************************************************)
(* A pool implements ObjectPool: it never hands out an object twice, and   *)
(* stats.outstanding_allocations counts the objects handed out.            *)
(***************************************************************************)
THEOREM PoolKeepsPromise == Spec => PromiseKept
<1>1. Init => Promise!Init
  BY DEF Init, Promise!Init
<1>2. IInv /\ [Next]_vars => [Promise!Next]_<<held, outstanding>>
  BY NextIInv
<1> QED BY <1>1, <1>2, Invariance, PTL DEF Spec, PromiseKept, Promise!Spec
=============================================================================
