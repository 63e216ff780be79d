------------------------------ MODULE HashTable -----------------------------
(***************************************************************************)
(* The hash table with chained buckets (AmqpTypes/AmqpHashTable.c) that    *)
(* finds the descriptor of a frame by its name (AmqpDescriptor.c), with    *)
(* symbols for keys (AmqpSymbol.c, AmqpVariable.c), and the helper that    *)
(* rounds its capacity (Misc/Bits.c).                                      *)
(*                                                                         *)
(* A key that is looked up is a symbol in a received buffer.  It is either *)
(* within the first fragment of the buffer, where hash and comparison see  *)
(* its bytes, or elsewhere, where they read other memory (Buffer.c:254,    *)
(* AmqpVariable.c:92): any bucket, any outcome of a comparison.            *)
(***************************************************************************)
EXTENDS Integers, Sequences, SequencesExt, Bitwise

CONSTANTS
    Keys,               \* the symbols
    Data,
    Nothing,            \* the null pointer
    HashOf,             \* amqp_hash of the bytes of each symbol
    InitialCapacities,
    Width               \* bits of a word, a power of two

VARIABLES
    state,              \* the table: "none", "live" or "released"
    capacity,
    buckets,            \* the collision list of each bucket
    entry_list,         \* all entries, newest first
    count,
    blocks,             \* outstanding allocations: what for
    answer,             \* of the last lookup
    reliable            \* the key of the last lookup was read as it is

vars == <<state, capacity, buckets, entry_list, count, blocks, answer, reliable>>

RECURSIVE Smeared(_, _)
Smeared(n, shift) ==
    IF shift = Width THEN n ELSE Smeared(n | shiftR(n, shift), 2 * shift)

\* amqp_next_power_two_32 and _64, in Width bits.
amqp_next_power_two(n) == (Smeared((n - 1) % 2 ^ Width, 1) + 1) % 2 ^ Width

\* calculate_index
calculate_index(hash) == hash & (capacity - 1)

Entry(k, d) == [key |-> k, data |-> d]

Init ==
    /\ state = "none" /\ capacity = 0 /\ buckets = << >> /\ entry_list = << >>
    /\ count = 0 /\ blocks = {} /\ answer = Nothing /\ reliable = TRUE

\* amqp_hash_table_create and amqp_hash_table_initialize
amqp_hash_table_create(initial_capacity) ==
    /\ state = "none"
    /\ state' = "live"
    /\ capacity' = amqp_next_power_two(initial_capacity)
    /\ buckets' = [i \in 0 .. capacity' - 1 |-> << >>]
    /\ blocks' = {<<"map">>, <<"buckets">>}
    /\ UNCHANGED <<entry_list, count, answer, reliable>>

\* Mutant of search_chain: only the first entry of the chain is compared.
SearchHead(chain, k) == IF chain # << >> /\ chain[1].key = k THEN 1 ELSE 0

\* search_chain, with amqp_symbol_compare: the first entry with an equal key
search_chain(chain, k) ==
    SelectInSeq(chain, LAMBDA e : e.key = k)

\* add_entry; the key was created for the table (amqp_load_descriptors)
add_entry(index, k, d) ==
    /\ buckets' = [buckets EXCEPT ![index] = <<Entry(k, d)>> \o @]
    /\ entry_list' = <<Entry(k, d)>> \o entry_list
    /\ count' = count + 1
    /\ blocks' = blocks \cup {<<"entry", k>>, <<"key", k>>}

\* amqp_hash_table_put; a key put a second time is refused, and stays with
\* whoever made it
amqp_hash_table_put(k, d) ==
    /\ state = "live"
    /\ LET index == calculate_index(HashOf[k])
       IN  IF search_chain(buckets[index], k) # 0
           THEN UNCHANGED <<buckets, entry_list, count, blocks>>
           ELSE add_entry(index, k, d)
    /\ answer' = Nothing /\ reliable' = TRUE
    /\ UNCHANGED <<state, capacity>>

\* amqp_hash_table_get (amqp_descriptor_lookup), of a key in the first fragment
amqp_hash_table_get(k) ==
    /\ state = "live"
    /\ LET chain == buckets[calculate_index(HashOf[k])]
           i == search_chain(chain, k)
       IN  answer' = IF i # 0 THEN chain[i].data ELSE Nothing
    /\ reliable' = TRUE
    /\ UNCHANGED <<state, capacity, buckets, entry_list, count, blocks>>

\* The same of a key that is not.
GetElsewhere ==
    /\ state = "live"
    /\ \E index \in DOMAIN buckets :
         answer' \in {Nothing} \cup {e.data : e \in ToSet(buckets[index])}
    /\ reliable' = FALSE
    /\ UNCHANGED <<state, capacity, buckets, entry_list, count, blocks>>

\* what the walk along the entry list frees, with the keys (cleanup_callback)
Released == UNION {{<<"entry", e.key>>, <<"key", e.key>>} : e \in ToSet(entry_list)}

\* amqp_hash_table_cleanup (amqp_descriptors_cleanup)
amqp_hash_table_cleanup ==
    /\ state = "live"
    /\ state' = "released"
    /\ blocks' = blocks \ (Released \cup {<<"map">>, <<"buckets">>})
    /\ buckets' = << >> /\ entry_list' = << >> /\ count' = 0
    /\ answer' = Nothing /\ reliable' = TRUE
    /\ UNCHANGED capacity

Next ==
    \/ \E n \in InitialCapacities : amqp_hash_table_create(n)
    \/ \E k \in Keys : amqp_hash_table_get(k) \/ \E d \in Data : amqp_hash_table_put(k, d)
    \/ GetElsewhere
    \/ amqp_hash_table_cleanup

Spec == Init /\ [][Next]_vars

-----------------------------------------------------------------------------
Keyed(s) == {e.key : e \in ToSet(s)}

\* The type invariant.
TypeOK ==
    /\ state \in {"none", "live", "released"}
    /\ count \in Nat
    /\ \A i \in DOMAIN buckets : \A e \in ToSet(buckets[i]) : e.key \in Keys /\ e.data \in Data
    /\ answer \in Data \cup {Nothing}

\* Every entry is in one chain, the one its hash selects, and in the entry
\* list, and is counted (add_entry keeps the two lists and the count together).
ChainsAgree ==
    state = "live" =>
        /\ count = Len(entry_list)
        /\ \A e \in ToSet(entry_list) :
             \E i \in DOMAIN buckets : e \in ToSet(buckets[i]) /\ i = calculate_index(HashOf[e.key])
        /\ \A i \in DOMAIN buckets : ToSet(buckets[i]) \subseteq ToSet(entry_list)
        /\ \A i, j \in DOMAIN entry_list : entry_list[i].key = entry_list[j].key => i = j

\* The capacity is a power of two that is not below the one asked for, so
\* that the mask reaches every bucket (amqp_next_power_two, calculate_index).
EveryBucketReached ==
    state = "live" =>
        /\ \E n \in InitialCapacities : capacity >= n /\ capacity < 2 * n
        /\ {calculate_index(h) : h \in 0 .. 2 * capacity} = DOMAIN buckets

\* Cleaning up returns all memory of the table and of its keys: the entry
\* list reaches what the chains hold (amqp_hash_table_cleanup).
AllReturned == state = "released" => blocks = {}

\* The table is a dictionary, as far as keys can be read: looked up before or
\* after other keys were put in the same bucket, a key has the data it was
\* first put with.
Abstract == INSTANCE Dictionary WITH
    map <- [k \in Keyed(entry_list) |->
              entry_list[SelectInSeq(entry_list, LAMBDA e : e.key = k)].data],
    answer <- IF reliable THEN answer ELSE Nothing
KeepsFirst == Abstract!Spec
=============================================================================
