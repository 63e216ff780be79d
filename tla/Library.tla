------------------------------ MODULE Library -------------------------------
(***************************************************************************)
(* The parts of the library below the connections: buffers, the codec,     *)
(* frames, values, the table of descriptors, memory, contexts and output.  *)
(* Each has its own state and is used without the others, so a behaviour   *)
(* exercises one of them; what they assume of each other is what each is   *)
(* shown here to promise.                                                  *)
(***************************************************************************)
EXTENDS Codec

CONSTANTS
    \* Buffer
    FragmentSize, Fragments, Given, MaxGiven,
    \* Frames
    Slots, Arriving,
    \* Values
    Plain, Held, Cells, Texts, Incoming,
    \* HashTable
    Keys, Data, Nothing, HashOf, InitialCapacities, Width,
    \* Memory
    Addresses, Sizes, WordBytes, SizeLimit, Chunk, MaxElements,
    \* Contexts
    Root, Clones, Mechanisms, NameLength, MaxPlugins, MaxInstances,
    \* Output
    Threads, Nobody, MaxPending

VARIABLES
    part,               \* the part a behaviour exercises
    bFragments, bCapacity, bIndex, bSize, bData,
    fMemory, fAllocated, fFrame, fRefused, fFaults,
    vHeap, vValues, vType,
    hState, hCapacity, hBuckets, hEntryList, hCount, hBlocks, hAnswer, hReliable,
    mBlocks, mAllocatedBlocks, mOutstanding, mArray, mMoved, mWild,
    xAlive, xNodes, xLink, xSaslPluginList, xInstances, xOutstanding, xReport,
    oAt, oStream, oMutex, oLeft, oWriter

bVars == <<bFragments, bCapacity, bIndex, bSize, bData>>
fVars == <<fMemory, fAllocated, fFrame, fRefused, fFaults>>
vVars == <<vHeap, vValues, vType>>
hVars == <<hState, hCapacity, hBuckets, hEntryList, hCount, hBlocks, hAnswer, hReliable>>
mVars == <<mBlocks, mAllocatedBlocks, mOutstanding, mArray, mMoved, mWild>>
xVars == <<xAlive, xNodes, xLink, xSaslPluginList, xInstances, xOutstanding, xReport>>
oVars == <<oAt, oStream, oMutex, oLeft, oWriter>>
libraryVars == <<part, bVars, vars, fVars, vVars, hVars, mVars, xVars, oVars>>

Buffers == INSTANCE Buffer WITH
    fragments <- bFragments, capacity <- bCapacity, index <- bIndex, size <- bSize, data <- bData

Framing == INSTANCE Frames WITH
    memory <- fMemory, allocated <- fAllocated, frame <- fFrame, refused <- fRefused,
    faults <- fFaults

AmqpTypes == INSTANCE Values WITH
    heap <- vHeap, values <- vValues, type <- vType

Tables == INSTANCE HashTable WITH
    state <- hState, capacity <- hCapacity, buckets <- hBuckets, entry_list <- hEntryList,
    count <- hCount, blocks <- hBlocks, answer <- hAnswer, reliable <- hReliable

Allocator == INSTANCE Memory WITH
    blocks <- mBlocks, allocated_blocks <- mAllocatedBlocks, outstanding <- mOutstanding,
    array <- mArray, moved <- mMoved, wild <- mWild

Clients == INSTANCE Contexts WITH
    alive <- xAlive, nodes <- xNodes, link <- xLink, sasl_plugin_list <- xSaslPluginList,
    instances <- xInstances, outstanding <- xOutstanding, report <- xReport

Outputs == INSTANCE Output WITH
    at <- oAt, stream <- oStream, mutex <- oMutex, left <- oLeft, writer <- oWriter

\* the sizes a byte and its multiples can have (Encoding)
ASSUME EncodingAssumption ==
    /\ Base > Len(LookupTable) + 1 /\ Base % 2 = 0
    /\ 1 < Two /\ Two < Four /\ Four < Eight /\ Eight < Sixteen

LibraryInit ==
    /\ part \in {"buffer", "codec", "frames", "values", "table", "memory", "contexts", "output"}
    /\ Init /\ (part # "codec" => use = CHOOSE u \in Uses : TRUE)
    /\ (part # "codec" => capacity = CHOOSE c \in Capacities : TRUE)
    /\ Buffers!Init /\ Framing!Init /\ AmqpTypes!Init /\ Tables!Init
    /\ Allocator!Init /\ Clients!Init /\ Outputs!Init

LibraryNext ==
    \/ /\ part = "buffer" /\ Buffers!Next
       /\ UNCHANGED <<part, vars, fVars, vVars, hVars, mVars, xVars, oVars>>
    \/ /\ part = "codec" /\ Next
       /\ UNCHANGED <<part, bVars, fVars, vVars, hVars, mVars, xVars, oVars>>
    \/ /\ part = "frames" /\ Framing!Next
       /\ UNCHANGED <<part, bVars, vars, vVars, hVars, mVars, xVars, oVars>>
    \/ /\ part = "table" /\ Tables!Next
       /\ UNCHANGED <<part, bVars, vars, fVars, vVars, mVars, xVars, oVars>>
    \/ /\ part = "values" /\ AmqpTypes!Next
       /\ UNCHANGED <<part, bVars, vars, fVars, hVars, mVars, xVars, oVars>>
    \/ /\ part = "memory" /\ Allocator!Next
       /\ UNCHANGED <<part, bVars, vars, fVars, vVars, hVars, xVars, oVars>>
    \/ /\ part = "contexts" /\ Clients!Next
       /\ UNCHANGED <<part, bVars, vars, fVars, vVars, hVars, mVars, oVars>>
    \/ /\ part = "output" /\ Outputs!Next
       /\ UNCHANGED <<part, bVars, vars, fVars, vVars, hVars, mVars, xVars>>

LibrarySpec == LibraryInit /\ [][LibraryNext]_libraryVars

-----------------------------------------------------------------------------
(* Properties: what each part promises, with its type invariant. *)

\* A buffer in fragments implements ByteBuffer, a sequence of bytes: encoder,
\* decoder and socket get the bytes they gave, over the limits of fragments and
\* after the buffer grew.  The vectors of amqp_buffer_fill_io_vec name memory of
\* allocated fragments only, and amqp_buffer_block_copy copies rightly up to the
\* fragment where the copy ends.
BufferIsBytes ==
    /\ Buffers!PromiseKept
    /\ [](part = "buffer" => /\ Buffers!TypeOK /\ Buffers!VectorsInside
                             /\ Buffers!CopiedUpToTheTail)

\* Encoder and decoder agree (Encode.c, Decode.c): what was encoded, in whatever
\* containers, with calls refused for lack of room in between, is what is decoded;
\* the sizes patched in afterwards are right; neither the buffer's capacity nor
\* the end of a received buffer is passed.
CodecAgrees ==
    /\ [](part = "codec" => /\ TypeOK /\ RoundTrip /\ SizesAgree /\ WithinCapacity
                            /\ ReceivedInBounds)
    /\ DroppedOnlyAtTheBrim

\* A handler gets a complete frame, of its own performative, also in a slot that
\* another frame left (decode_remainder of Frame.c); wherever decoding fails,
\* amqp_frame_cleanup releases what the frame owns once and nothing else, until a
\* keep alive leaves a frame behind; and what FrameEncode.c sends is accepted.
FramesComeAndGo ==
    /\ Framing!ReleasedOnce
    /\ [](part = "frames" => /\ Framing!TypeOK /\ Framing!HandedOver
                             /\ Framing!CleanWhileNothingLeaks /\ Framing!AcceptsItsOwn)

\* Whichever way a value was made, viewed, cloned or cleaned up before,
\* amqp_type_cleanup returns everything it holds, once, and what it owns stays as
\* it is until then; comparison orders values as words in a dictionary, and the
\* copies made of values (amqp_string_to_cstr, the list of unknown mechanisms) end
\* where the room for them does.
ValuesOwnTheirs ==
    /\ AmqpTypes!OwnKept
    /\ [](part = "values" => /\ AmqpTypes!TypeOK /\ AmqpTypes!OwnedOnce /\ AmqpTypes!CompareOrders
                             /\ AmqpTypes!CstrEnds /\ AmqpTypes!RefusalFits)

\* The hash table implements Dictionary: a key keeps the data it was first put
\* with, whatever else is in its bucket.  add_entry keeps the chains, the entry
\* list and the count together, the mask of calculate_index reaches every bucket,
\* and amqp_hash_table_cleanup returns all memory.
TableIsDictionary ==
    /\ Tables!KeepsFirst
    /\ [](part = "table" => /\ Tables!TypeOK /\ Tables!ChainsAgree /\ Tables!EveryBucketReached
                            /\ Tables!AllReturned)

\* What amqp_check_allocation_count compares with zero is the number of blocks of
\* the context, and the list it reports from is these blocks, until one is moved;
\* guards are behind the bytes asked for and inside the memory obtained, and an
\* array has room for its elements (Memory.c).
MemoryAccounted ==
    part = "memory" => /\ Allocator!TypeOK /\ Allocator!CountExact /\ Allocator!ListExact
                       /\ Allocator!GuardInside /\ Allocator!ElementsFit

\* A clone sees every plugin its original has, unless it was made before the
\* first; an instance is of a plugin that still exists, the first of its name; the
\* offer of amqp_sasl_mechanisms_encode names every plugin once while no name is
\* long; amqp_context_destroy reports a leak exactly when an instance was not
\* cleaned up.
ContextsShare ==
    /\ Clients!ReportsLeaks
    /\ [](part = "contexts" => /\ Clients!TypeOK /\ Clients!ClonesSeeAll
                               /\ Clients!InstancesOfFirst /\ Clients!OfferWhole)

=============================================================================
