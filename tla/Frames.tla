------------------------------- MODULE Frames -------------------------------
(***************************************************************************)
(* Decoding of the frames a connection receives, from the bytes of a frame *)
(* to the call of its handler and back to the frame pool                   *)
(* (Transport/Frame/Frame.c, Transport/Decode, AmqpTypes/Decode).          *)
(*                                                                         *)
(* A frame lives in a slot of the context's frame pool.  The pool clears   *)
(* a block when it allocates it and never again, so a slot that is reused  *)
(* while its block survives holds what the last frame left there.  A       *)
(* pointer is modelled by what it points to: nothing, something the frame  *)
(* owns, something the frame only refers to, or something already          *)
(* released.                                                               *)
(***************************************************************************)
EXTENDS Naturals, Sequences, FiniteSets, SequencesExt

CONSTANTS
    Slots,              \* the slots of a block of the frame pool, 1 .. n
    Arriving            \* the bodies that arrive, of those that can

VARIABLES
    memory,             \* what is left in each free slot of the block
    allocated,          \* the slots in use
    frame,              \* the frame in the hands of a handler, or NoFrame
    refused,            \* a frame this library would send was last refused
    faults              \* what went wrong when frames were released

vars == <<memory, allocated, frame, refused, faults>>

(***************************************************************************)
(* The performatives.  A field has a kind, and is mandatory or not.  Kinds *)
(* "primitive" and "range" live in the frame, the others have to be        *)
(* cleaned up.                                                             *)
(***************************************************************************)
Man(kind) == [kind |-> kind, mandatory |-> TRUE]
Opt(kind) == [kind |-> kind, mandatory |-> FALSE]
Times(n, field) == [i \in 1 .. n |-> field]

sasl_mechanisms == <<Man("multiple")>>
sasl_init == <<Man("variable"), Opt("variable"), Opt("variable")>>
sasl_challenge == <<Man("variable")>>
sasl_response == <<Man("variable")>>
sasl_outcome == <<Man("range"), Opt("variable")>>
amqp_open == <<Man("variable"), Opt("variable")>> \o Times(3, Opt("primitive"))
                \o Times(4, Opt("multiple")) \o <<Opt("variable")>>
amqp_begin == <<Opt("primitive")>> \o Times(3, Man("primitive"))
                \o <<Opt("primitive")>> \o Times(2, Opt("multiple"))
                \o <<Opt("variable")>>
amqp_attach == <<Man("variable"), Man("primitive"), Man("primitive")>>
                \o Times(2, Opt("range")) \o Times(2, Opt("wildcard"))
                \o <<Opt("variable")>> \o Times(3, Opt("primitive"))
                \o Times(2, Opt("multiple")) \o <<Opt("variable")>>
amqp_flow == <<Opt("primitive")>> \o Times(3, Man("primitive"))
                \o Times(6, Opt("primitive")) \o <<Opt("variable")>>
amqp_transfer == <<Man("primitive"), Opt("primitive"), Opt("variable")>>
                \o Times(3, Opt("primitive"))
                \o <<Opt("range"), Opt("wildcard")>>
                \o Times(3, Opt("primitive"))
amqp_disposition == Times(2, Man("primitive")) \o Times(2, Opt("primitive"))
                \o <<Opt("wildcard"), Opt("primitive")>>
amqp_detach == <<Man("primitive"), Opt("primitive"), Opt("error")>>
amqp_end == <<Opt("error")>>
amqp_close == <<Opt("error")>>

(* decode_remainder: the performatives the decoder knows. *)
Ids == {"mechanisms", "init", "challenge", "response", "outcome", "open", "begin", "attach",
        "flow", "transfer", "disposition", "detach", "end", "close"}
Performative(id) ==
    CASE id = "mechanisms" -> sasl_mechanisms [] id = "init" -> sasl_init
      [] id = "challenge" -> sasl_challenge   [] id = "response" -> sasl_response
      [] id = "outcome" -> sasl_outcome       [] id = "open" -> amqp_open
      [] id = "begin" -> amqp_begin           [] id = "attach" -> amqp_attach
      [] id = "flow" -> amqp_flow             [] id = "transfer" -> amqp_transfer
      [] id = "disposition" -> amqp_disposition
      [] id = "detach" -> amqp_detach         [] id = "end" -> amqp_end
      [] id = "close" -> amqp_close

(***************************************************************************)
(* One field.  "cleared" is memory of a new block, "garbage" what another  *)
(* frame left.  "doubtful" is a value that arrived while the null flag     *)
(* beside it is the one another frame left: the flag is only ever set.     *)
(***************************************************************************)
InFrame == {"primitive", "range"}
NullOf(kind) == IF kind \in InFrame THEN "default" ELSE "null"

(* The elements a peer may send for a field of each kind. *)
Elements(kind) ==
    {"null", "right", "wrong"}
        \cup (IF kind = "range" THEN {"outside"} ELSE {})
        \cup (IF kind = "multiple" THEN {"array", "empty array"} ELSE {})
        \cup (IF kind = "error" THEN {"not a list", "no condition"} ELSE {})

(* AMQP_FIELD_DECODE_FN, AMQP_PRIMITIVE_FIELD_DECODE_FN and the decoders   *)
(* of AmqpDefinitionsDecode.c, without the check for a mandatory field.    *)
DecodedType(kind, element, old) ==
    CASE element = "null" -> NullOf(kind)
      [] kind = "wildcard" -> "referred"
      [] element = "right" /\ kind \in InFrame ->
            IF old = "garbage" THEN "doubtful" ELSE "sent"
      [] element = "right" /\ kind = "multiple" -> "owned"
      [] element = "right" -> "referred"
      [] element = "array" -> "owned"
      [] element = "empty array" -> "null"
      [] element = "outside" -> "outside"
      [] OTHER -> old

TypeFits(kind, element) ==
    \/ kind = "wildcard"
    \/ element \in {"null", "right", "array", "empty array"}

(* The mandatory variants: the field must not have come out null. *)
FieldFits(field, element) ==
    /\ TypeFits(field.kind, element)
    /\ field.mandatory => element \notin {"null", "empty array"}

(* amqp_field_from_list: an element the list does not have counts as null. *)
ElementAt(elements, i) ==
    IF i <= Len(elements) THEN elements[i] ELSE "null"

(* The generated decoders: the fields in their order, up to the first one  *)
(* that does not fit.                                                      *)
FieldsDecoded(fields, elements) ==
    LET misfits == {i \in DOMAIN fields :
                        ~FieldFits(fields[i], ElementAt(elements, i))}
    IN  IF misfits = {} THEN Len(fields)
        ELSE (CHOOSE i \in misfits : \A j \in misfits : i <= j) - 1

(***************************************************************************)
(* A frame in a slot.  Of a frame that was there before, only these parts  *)
(* matter: its type and the functions and ids it left behind.              *)
(***************************************************************************)
Cleared == [type |-> "none", id |-> "zero", domain |-> "ours",
            cleanup |-> "none", left |-> "cleared"]
NoFrame == [slot |-> 0]

(* amqp_allocate_frame: the first free slot, as it is. *)
FreeSlot == CHOOSE s \in Slots \ allocated :
                \A t \in Slots \ allocated : s <= t
NewFrame(layer) ==
    LET m == memory[FreeSlot]
    IN  [slot |-> FreeSlot, layer |-> layer, frame_type |-> "none",
         type |-> m.type, id |-> m.id, domain |-> m.domain,
         dispatch |-> "none", cleanup |-> m.cleanup, left |-> m.left,
         fields |-> << >>]

(***************************************************************************)
(* What arrives.  A header, and a body that is missing, not an AMQP value, *)
(* or a described value: its descriptor (the name of a performative, its   *)
(* code, or neither), and a list of elements or something else.            *)
(***************************************************************************)
Header(offset, frame_type) == [offset |-> offset, frame_type |-> frame_type]
EmptyBody == [shape |-> "nothing"]
Invalid == [shape |-> "invalid"]
Described(descriptor, domain, id, list, elements) ==
    [shape |-> "described", descriptor |-> descriptor, domain |-> domain,
     id |-> id, list |-> list, elements |-> elements]

Result(ok, f) == [ok |-> ok, frame |-> f]

decode_header(f, header) ==
    Result(header.offset = "right" /\ header.frame_type \in {"amqp", "sasl"},
           [f EXCEPT !.frame_type = header.frame_type])

decode_symbolic_descriptor(f, body) ==
    IF body.id \in Ids
    THEN Result(TRUE, [f EXCEPT !.domain = "ours", !.id = body.id])
    ELSE Result(FALSE, f)

(* The domain tested is the one the frame had before.  *)
decode_descriptor(f, body) ==
    CASE body.descriptor = "name" -> decode_symbolic_descriptor(f, body)
      [] body.descriptor = "code" /\ f.domain = "ours" ->
            Result(TRUE, [f EXCEPT !.domain = body.domain, !.id = body.id])
      [] OTHER -> Result(FALSE, f)

(* The decoder of a performative names its handler and its clean up before *)
(* it decodes the fields; fields it does not reach stay what they were.    *)
decode_fields(f, elements) ==
    LET table == Performative(f.id)
        n == FieldsDecoded(table, elements)
        State(i) == IF i <= n + 1
                    THEN DecodedType(table[i].kind, ElementAt(elements, i), f.left)
                    ELSE f.left
    IN  Result(n = Len(table),
               [f EXCEPT !.dispatch = f.id, !.cleanup = f.id,
                         !.fields = [i \in DOMAIN table |-> State(i)]])

decode_remainder(f, body) ==
    CASE ~body.list -> Result(FALSE, f)
      [] body.id \in Ids -> decode_fields(f, body.elements)
      [] OTHER -> Result(FALSE, [f EXCEPT !.id = "zero"])

decode_performative(f, body) ==
    IF body.shape = "invalid" THEN Result(FALSE, f)
    ELSE LET d == decode_descriptor(f, body)
         IN  IF d.ok THEN decode_remainder(d.frame, body) ELSE d

decode_frame(f, header, body) ==
    LET h == decode_header(f, header)
    IN  CASE ~h.ok -> h
          [] body.shape = "nothing" ->
                Result(TRUE, [h.frame EXCEPT !.dispatch = "empty"])
          [] OTHER -> decode_performative([h.frame EXCEPT !.type = "owned"], body)

(* amqp_decode_sasl_frame and amqp_decode_amqp_frame: what the layer that  *)
(* reads the frame insists on.                                             *)
amqp_decode_sasl_frame(f) == f.id # "zero" /\ f.frame_type = "sasl"
amqp_decode_amqp_frame(f) == f.id # "zero" => f.frame_type = "amqp"
LayerAccepts(f) ==
    IF f.layer = "sasl" THEN amqp_decode_sasl_frame(f)
    ELSE amqp_decode_amqp_frame(f)

(***************************************************************************)
(* amqp_frame_cleanup                                                      *)
(***************************************************************************)
CleanedUpVariables(f) ==
    IF f.id = "zero" \/ f.cleanup \notin Ids THEN {}
    ELSE {i \in DOMAIN f.fields : Performative(f.cleanup)[i].kind = "variable"}
CleanedUp(f) ==
    IF f.id = "zero" \/ f.cleanup \notin Ids THEN {}
    ELSE {i \in DOMAIN f.fields : Performative(f.cleanup)[i].kind \notin InFrame}

CleanupFaults(f) ==
    (IF f.type = "stale" THEN {"released twice"} ELSE {})
    \cup (IF f.id # "zero" /\ f.cleanup = "none" THEN {"no cleanup method"} ELSE {})
    \cup (IF f.id # "zero" /\ (\/ f.cleanup = "stale"
                               \/ \E i \in CleanedUp(f) : f.fields[i] = "garbage")
          THEN {"released garbage"} ELSE {})
    \cup (IF \E i \in DOMAIN f.fields : f.fields[i] = "owned" /\ i \notin CleanedUp(f)
          THEN {"lost"} ELSE {})

(* What the frame leaves in its slot: nothing it points to is there any    *)
(* more.                                                                   *)
Remains(f) ==
    [type |-> IF f.type = "none" THEN "none" ELSE "stale",
     id |-> IF f.id = "zero" THEN "zero" ELSE "stale",
     domain |-> f.domain,
     cleanup |-> IF f.cleanup = "none" THEN "none" ELSE "stale",
     left |-> IF f.fields = << >> THEN f.left ELSE "garbage"]

(* amqp_deallocate_frame: the block goes with its last frame. *)
amqp_frame_cleanup(f) ==
    /\ faults' = faults \cup CleanupFaults(f)
    /\ allocated' = allocated \ {f.slot}
    /\ memory' = IF allocated' = {} THEN [s \in Slots |-> Cleared]
                 ELSE [memory EXCEPT ![f.slot] = Remains(f)]

(***************************************************************************)
(* The frames this library itself sends (FrameEncode.c): never refused by  *)
(* the same library at the other end.                                      *)
(***************************************************************************)
encode_performative(id, elements) == Described("code", "ours", id, TRUE, elements)

amqp_encode_sasl_mechanisms_frame ==
    {encode_performative("mechanisms", <<e>>) : e \in {"right", "array"}}
amqp_encode_sasl_init_frame ==
    {encode_performative("init", <<"right", e, "right">>) : e \in {"null", "right"}}
amqp_encode_sasl_outcome_frame == {encode_performative("outcome", <<"right">>)}
amqp_encode_amqp_open ==
    {encode_performative("open", <<"right", e, "right", "right", "right">>) :
        e \in {"null", "right"}}
amqp_encode_amqp_close == {encode_performative("close", << >>)}
amqp_encode_amqp_begin ==
    {encode_performative("begin", <<e, "right", "right", "right", "right">>) :
        e \in {"null", "right"}}

Encoded(layer) ==
    IF layer = "sasl"
    THEN amqp_encode_sasl_mechanisms_frame \cup amqp_encode_sasl_init_frame
            \cup amqp_encode_sasl_outcome_frame
    ELSE amqp_encode_amqp_open \cup amqp_encode_amqp_close
            \cup amqp_encode_amqp_begin \cup {EmptyBody}

(***************************************************************************)
(* What a peer may send: a performative with every element right, or only  *)
(* the mandatory ones, and at most one element other than that (a field is *)
(* decoded by its element alone); and the same with one thing wrong        *)
(* outside the fields.                                                     *)
(***************************************************************************)
Complete(id) == [i \in DOMAIN Performative(id) |-> "right"]
Least(id) == [i \in DOMAIN Performative(id) |->
                IF Performative(id)[i].mandatory THEN "right" ELSE "null"]
SentElements(id) ==
    UNION {{[base EXCEPT ![i] = e] : e \in Elements(Performative(id)[i].kind)} :
            i \in DOMAIN Performative(id), base \in {Complete(id), Least(id)}}

SentBodies ==
    UNION {{Described("code", "ours", id, TRUE, e) : e \in SentElements(id)} : id \in Ids}
    \cup {Described(d, o, id, l, Complete(id)) :
            d \in {"name", "code"}, o \in {"ours", "foreign"}, id \in Ids, l \in BOOLEAN}
    \cup {Described(d, "ours", "unsupported", TRUE, << >>) : d \in {"name", "code", "other"}}
    \cup {EmptyBody, Invalid}

Bodies == SentBodies \cup Encoded("sasl") \cup Encoded("amqp")

Init ==
    /\ memory = [s \in Slots |-> Cleared]
    /\ allocated = {}
    /\ frame = NoFrame
    /\ refused = FALSE
    /\ faults = {}

(* frame_available_callback: decode, and hand over or clean up. *)
Running == "not described" \notin faults
FrameAvailable(layer, header, body) ==
    /\ Running
    /\ frame = NoFrame
    /\ Slots \ allocated # {}
    /\ LET r == decode_frame(NewFrame(layer), header, body)
       IN  IF r.ok /\ LayerAccepts(r.frame)
           THEN /\ frame' = r.frame
                /\ allocated' = allocated \cup {FreeSlot}
                /\ memory' = [memory EXCEPT ![FreeSlot] = Cleared]
                /\ refused' = FALSE
                /\ UNCHANGED faults
           ELSE /\ amqp_frame_cleanup(r.frame)
                /\ refused' = (header = Header("right", layer) /\ body \in Encoded(layer))
                /\ UNCHANGED frame

(* A valid body that is not described: amqp_type_get_descriptor asserts    *)
(* that it is, and the program ends.                                       *)
Undescribed ==
    /\ Running
    /\ frame = NoFrame
    /\ faults' = faults \cup {"not described"}
    /\ UNCHANGED <<memory, allocated, frame, refused>>

ProcessedKept ==
    /\ Running
    /\ frame # NoFrame
    /\ amqp_frame_cleanup(frame)
    /\ UNCHANGED <<frame, refused>>
(* process_frame, and the handlers of frames that are out of sequence. *)
process_frame ==
    /\ Running
    /\ frame # NoFrame
    /\ amqp_frame_cleanup(frame)
    /\ frame' = NoFrame
    /\ UNCHANGED refused

(* keep_alive_while_open_sent and keep_alive_while_opened read on and      *)
(* leave the empty frame where it is.                                      *)
keep_alive ==
    /\ Running
    /\ frame # NoFrame
    /\ frame.layer = "amqp"
    /\ frame.dispatch = "empty"
    /\ frame' = NoFrame
    /\ UNCHANGED <<memory, allocated, refused, faults>>

Next ==
    \/ \E layer \in {"sasl", "amqp"} :
        \/ \E body \in Arriving : FrameAvailable(layer, Header("right", layer), body)
        \/ \E offset \in {"right", "wrong"}, frame_type \in {"sasl", "amqp", "other"},
              body \in {EmptyBody, Described("code", "ours", "open", TRUE, Complete("open"))} :
                FrameAvailable(layer, Header(offset, frame_type), body)
    \/ Undescribed
    \/ process_frame
    \/ keep_alive

Spec == Init /\ [][Next]_vars

-----------------------------------------------------------------------------
(* Frames that a keep alive left behind. *)
Leaked == IF frame = NoFrame THEN allocated ELSE allocated \ {frame.slot}

(* The type invariant. *)
TypeOK ==
    /\ allocated \subseteq Slots
    /\ frame # NoFrame => frame.slot \in allocated
    /\ faults \subseteq {"released twice", "no cleanup method", "released garbage", "lost",
                      "not described"}
    /\ \A s \in Slots : DOMAIN memory[s] = DOMAIN Cleared

(* A handler gets a frame whose handler and clean up belong to the         *)
(* performative it carries, in which every field was decoded and every     *)
(* mandatory one is there, of a frame type its layer reads: also in a slot *)
(* that another frame left (decode_remainder and the layer checks of       *)
(* Frame.c).                                                               *)
HandedOver ==
    frame # NoFrame /\ frame.dispatch # "empty" =>
        /\ frame.id = frame.dispatch /\ frame.cleanup = frame.dispatch
        /\ frame.frame_type = frame.layer
        /\ frame.type = "owned"
        /\ \A i \in DOMAIN frame.fields :
            /\ frame.fields[i] \notin {"cleared", "garbage", "outside"}
            /\ Performative(frame.id)[i].mandatory =>
                    frame.fields[i] \notin {"null", "default"}

(* As long as no keep alive has left a frame behind, a handler can rely on *)
(* the null flags, and the SASL layer never sees an empty frame            *)
(* (Frame.c:242, the null flags of AmqpDecodeInternal.h:75).               *)
CleanWhileNothingLeaks ==
    frame # NoFrame /\ Leaked = {} =>
        /\ \A i \in DOMAIN frame.fields : frame.fields[i] # "doubtful"
        /\ frame.dispatch = "empty" => frame.layer = "amqp" /\ frame.id = "zero"

(* Whatever arrives, and wherever decoding fails, what a frame owns is     *)
(* released once and nothing else is, until a keep alive leaves a frame    *)
(* behind.  The complaints are of a performative that is not a list        *)
(* (Frame.c:293) and of a body without a descriptor (Frame.c:182).         *)
ReleasedOnce ==
    [][Leaked = {} => faults' \ faults \subseteq {"no cleanup method", "not described"}]_vars

(* A frame this library sends is one this library accepts: the field lists *)
(* of FrameEncode.c fit the generated decoders.                            *)
AcceptsItsOwn == Leaked = {} => ~refused
=============================================================================
