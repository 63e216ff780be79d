----------------------------- MODULE Connection -----------------------------
(***************************************************************************)
(* One connection, client's or server's: the machines of the other modules *)
(* calling each other, the event loop, the application and the peer.       *)
(***************************************************************************)
EXTENDS ConnectionTypes, ConnectionSocket, ConnectionWrite, ConnectionRead,
        ConnectionShutdown, ConnectionNegotiation, ConnectionSasl, ConnectionAmqp,
        ConnectionClient, ConnectionServer

\* amqp_connection_client_state_initialize: nothing runs until the application
\* connects.  amqp_connection_server_state_initialize: the socket is accepted,
\* input and output are enabled and the client's header is awaited.
Init ==
    /\ role \in Roles /\ faults \in FaultSets
    /\ conn = IF role = "client" THEN "initialized" ELSE "waiting_on_client_negotiation_request"
    /\ onShutdown = "default" /\ onTimeout = "default" /\ mode = "unset"
    /\ timer = FALSE /\ flags = {} /\ failures = {} /\ halts = 0 /\ destroyed = FALSE
    /\ addresses = 0 /\ connectWatch = FALSE
    /\ output = 0 /\ stopCallback = FALSE /\ pending = "none" /\ partial = FALSE
    /\ negotiator = "initialized" /\ handshake = "none" /\ sasl = "initialized"
    /\ tunnel = "initialized" /\ frame = "initialized" /\ onFrame = "none"
    /\ amqp = "initialized" /\ fatal = "no"
    /\ \/ /\ role = "client"
          /\ socket = "initialized" /\ fd = FALSE
          /\ protocols \in SUBSET {"tls", "sasl", "amqp"}
          /\ writer = "initialized" /\ writeWatch = "none"
          /\ reader = "initialized" /\ readWatch = "none"
          /\ calls = <<>>
       \/ /\ role = "server"
          /\ socket = "accepted" /\ fd = TRUE
          /\ protocols = {}
          /\ writer = "enabled" /\ writeWatch = "idle"
          /\ reader = "enabled" /\ readWatch = "idle"
          /\ calls = <<Do("negotiator.wait")>>

\* The handler at the head of the stack runs to its next call.
HandlerStep ==
    \/ SocketStep \/ WriterStep \/ ReaderStep \/ ShutdownStep \/ NegotiationStep
    \/ SaslStep \/ AmqpStep \/ ClientStep \/ ServerStep

IllegalState ==
    \/ SocketIllegal \/ WriterIllegal \/ ReaderIllegal \/ ConnectionIllegal
    \/ NegotiatorIllegal \/ SaslIllegal \/ AmqpIllegal \/ ServerIllegal
AssertFails ==
    \/ SocketAssertFails \/ WriterAssertFails \/ ReaderAssertFails
    \/ ConnectionAssertFails \/ NegotiatorAssertFails
Unimplemented ==
    \/ SocketUnimplemented \/ WriterUnimplemented \/ TlsUnimplemented \/ SaslUnimplemented
    \/ AmqpUnimplemented \/ ClientUnimplemented \/ ServerUnimplemented

\* amqp_fatal_program_error, a failed assert or not_implemented
ProcessAborts ==
    \E why \in {"illegal_state", "assert", "not_implemented"} :
        /\ CASE why = "illegal_state" -> IllegalState
             [] why = "assert" -> AssertFails
             [] OTHER -> Unimplemented
        /\ Abort(why)

EventLoop == ConnectEvent \/ WriteEvent \/ ReadEvent \/ TimerExpiry
Application == AppConnect \/ AppShutdown \/ AppDestroy

Terminated == Over /\ UNCHANGED vars

Next == HandlerStep \/ ProcessAborts \/ EventLoop \/ Application \/ Terminated
Spec == Init /\ [][Next]_vars
-----------------------------------------------------------------------------
\* The event loop waits: no handler runs and the connection still exists.
AtRest == calls = <<>> /\ ~Over

(***************************************************************************)
(* ConnectionWrite.c: the writer owns a watcher exactly while it is        *)
(* enabled; the watcher is started only for a buffer that is still being   *)
(* written, and when control returns to the event loop such a buffer       *)
(* always has its watcher started, so that the write is never forgotten.   *)
(***************************************************************************)
WriterConsistent ==
    /\ ~destroyed => (WriterActive <=> writeWatch # "none")
    /\ writeWatch = "active" => output = 1
    /\ output = 1 => writer \in {"writing", "stopping"}
    /\ AtRest /\ writer \in {"writing", "stopping"} => writeWatch = "active"

(***************************************************************************)
(* ConnectionSocket.c: a descriptor is open only in the states that use    *)
(* one, a connected or accepted socket has its descriptor, and when        *)
(* control returns to the event loop a socket still connecting has the     *)
(* watcher that will report the outcome of the attempt.                    *)
(***************************************************************************)
SocketConsistent ==
    /\ fd => socket \in {"connecting", "connected", "accepted"}
    /\ ~destroyed /\ socket \in {"connected", "accepted"} => fd
    /\ connectWatch /\ ~destroyed => socket = "connecting" /\ fd
    /\ AtRest /\ socket = "connecting" => connectWatch

(***************************************************************************)
(* ConnectionRead.c: when control returns to the event loop a reader that  *)
(* is reading has a queued read and a started watcher, whatever chain of   *)
(* callbacks, delayed reads, resets and stops led there.                   *)
(***************************************************************************)
ReadIsAwaited == AtRest /\ reader = "reading" => pending # "none" /\ readWatch = "active"

(***************************************************************************)
(* ConnectionState.c and ConnectionAmqp.c share the timer and its handler: *)
(* a timer left running always finds a handler, so that an expiry never    *)
(* reaches default_timeout.                                                *)
(***************************************************************************)
TimerHasHandler == AtRest /\ timer => onTimeout # "default"

(***************************************************************************)
(* ConnectionState*.c: the layers are established one on top of the other. *)
(* No AMQP header is exchanged over a SASL layer still being negotiated,   *)
(* the AMQP machine runs only over an established tunnel, and the flags    *)
(* the application tests agree with the machines.                          *)
(***************************************************************************)
LayersInOrder ==
    /\ handshake = "amqp" => sasl \in {"initialized", "negotiated"}
    /\ amqp # "initialized" => tunnel = "negotiated" /\ "amqp_connected" \in flags
    /\ "sasl_connected" \in flags => sasl = "negotiated"
    /\ "is_open" \in flags => amqp \in {"opened", "close_sent"}

(***************************************************************************)
(* connection_halt: a connection that is stopped or failed no longer runs  *)
(* and its descriptor and the watcher of a connect are released.           *)
(***************************************************************************)
HaltReleasesSocket ==
    AtRest /\ conn \in HaltedStates =>
        /\ ~fd /\ ~connectWatch
        /\ "running" \notin flags

(***************************************************************************)
(* A connection that is neither idle before connecting nor halted always   *)
(* waits for something: input, room for output, the outcome of a connect   *)
(* or the timer.  The one exception is the code's: after an outcome other  *)
(* than ok, received_sasl_outcome_frame does nothing at all.               *)
(***************************************************************************)
NeverStranded ==
    AtRest /\ conn \notin HaltedStates \cup {"initialized"} =>
        \/ readWatch = "active" /\ pending # "none"
        \/ writeWatch = "active"
        \/ connectWatch
        \/ timer
        \/ conn = "connecting_sasl" /\ sasl = "waiting_on_sasl_challenge_or_outcome"

(***************************************************************************)
(* Once its shutdown began a connection never returns to a state of its    *)
(* establishment, although the machines that establish it are still on the *)
(* stack, or still answered by the peer, when the shutdown begins.         *)
(***************************************************************************)
ShutdownIsFinal ==
    [][(conn \in ShutdownStates \cup HaltedStates
            => conn' \in ShutdownStates \cup HaltedStates)]_vars

(***************************************************************************)
(* No machine of the connection is asked for an operation its state has no *)
(* handler for (amqp_fatal_program_error in the default handlers), as long *)
(* as the network only refuses connections and ends them between frames.   *)
(***************************************************************************)
NoIllegalState == faults \subseteq {"connect_error", "eof"} => fatal # "illegal_state"

(***************************************************************************)
(* No assert() of the connection's code fails, as long as no read or write *)
(* fails and the peer leaves the end of the connection to this side.       *)
(***************************************************************************)
NoAssertFails == faults \subseteq {"connect_error", "write_blocks"} => fatal # "assert"

(***************************************************************************)
(* The process does not abort in a connection, on the networks that do not *)
(* meet one of the disagreements below: no operation arrives in a state    *)
(* without a handler for it, and no assert() fails.                        *)
(***************************************************************************)
NeverAborts == NoIllegalState /\ NoAssertFails

(***************************************************************************)
(* connection_halt, which for a server's connection frees it, runs once.   *)
(* The client owes this to writes that do not fail: begin_connection_close *)
(* goes on after a failed one.                                             *)
(***************************************************************************)
WritesSucceed == "write_error" \notin faults
HaltOnce == role = "server" \/ WritesSucceed => halts <= 1

(***************************************************************************)
(* A halted connection has no timer that could wake it (connection_halt    *)
(* stops it, and no handler unwound after the halt starts it again).       *)
(***************************************************************************)
HaltStopsTimer == WritesSucceed /\ AtRest /\ conn \in HaltedStates => ~timer

(***************************************************************************)
(* connection_halt is the end: it runs once, although several handlers     *)
(* that could run it are on the stack or still to come, and leaves neither *)
(* a descriptor nor a timer behind that could bring the connection back.   *)
(***************************************************************************)
HaltIsClean == HaltOnce /\ HaltReleasesSocket /\ HaltStopsTimer

(***************************************************************************)
(* shutdown_connection, done_while_stopping_output: while the connection   *)
(* waits for output to complete or input to drain, the timer of that stage *)
(* runs and expires into the handler of that stage.  stop_while_writing    *)
(* counts on it: "try to complete write but not at any cost".              *)
(***************************************************************************)
ShutdownStageIsTimed ==
    AtRest /\ conn \in {"stopping_output", "draining_input"} => timer /\ onTimeout = conn

(***************************************************************************)
(* The stages of the shutdown are timed as long as output completes at     *)
(* once: a shutdown that waits for a blocked write still handles frames,   *)
(* and an open frame takes over its timer (run open_while_stopping).       *)
(***************************************************************************)
TimedUnlessBlocked == "write_blocks" \notin faults => ShutdownStageIsTimed

(***************************************************************************)
(* The one timer of a connection serves the idle timeout, the wait for a   *)
(* close frame and two stages of the shutdown: it always expires into a    *)
(* handler (never into default_timeout), and into that of the stage the    *)
(* shutdown is in.                                                         *)
(***************************************************************************)
TimerServes == TimerHasHandler /\ TimedUnlessBlocked

(***************************************************************************)
(* The members of connection->data share their storage: the protocols a    *)
(* client has still to connect lie where shutdown_connection writes its    *)
(* mode.  The protocols are never read once a mode is written, although    *)
(* negotiations under way still end after a shutdown began; and the mode   *)
(* is read only when it was written.                                       *)
(***************************************************************************)
DataHasOneOwner ==
    /\ Running("start_next_protocol") => mode = "unset"
    /\ Running("connection.done") /\ conn \in {"stopping_output", "stopping"} => mode # "unset"

\* The part of its life a connection is in, told from connection->state.
Phase == IF destroyed \/ conn \in ShutdownStates \cup HaltedStates THEN "ending"
         ELSE CASE conn = "initialized" -> "idle"
                [] conn \in {"amqp_tunnel_established", "tunnel_accepted"} -> "established"
                [] OTHER -> "establishing"

(***************************************************************************)
(* A connection implements LifeCycle: it is established once and, when it  *)
(* has begun to end, for good.  A late outcome of an attempt to connect,   *)
(* of a negotiation or of a read changes nothing of this.                  *)
(***************************************************************************)
Life == INSTANCE LifeCycle WITH phase <- Phase
LifeCycleKept == Life!Spec

(***************************************************************************)
(* The descriptor of the socket follows the life of the connection: it is  *)
(* opened only while the connection is being established, the tunnel is    *)
(* established only over an open descriptor, and from then on only the     *)
(* shutdown or the destruction of the connection closes it.                *)
(***************************************************************************)
DescriptorKept ==
    [][/\ fd' /\ ~fd => Phase = "establishing" /\ Phase' = "establishing"
       /\ Phase' = "established" /\ Phase # "established" => fd
       /\ Phase = "established" /\ fd /\ ~fd' => Phase' = "ending"]_vars

-----------------------------------------------------------------------------
\* Disagreements between the code and what its assertions and comments say.

(***************************************************************************)
(* read_done_while_draining_input asserts that it is given the buffer of   *)
(* the connection, also for the read a reset allows after an end of file.  *)
(***************************************************************************)
DrainGetsItsBuffer == Running("connection.read_done") => Argument # "no_buffer"

(***************************************************************************)
(* commence_read_while_reading asserts that no read is queued already.     *)
(***************************************************************************)
OneReadAtATime == Running("reader.commence_read") /\ reader = "reading" => pending = "none"

(***************************************************************************)
(* default_commence_read treats a read in any state but enabled, reading   *)
(* and end of file as a fatal program error.                               *)
(***************************************************************************)
ReadsAreSupported ==
    Running("reader.commence_read") => reader \in {"enabled", "reading", "eof"}

-----------------------------------------------------------------------------
(***************************************************************************)
(* Fairness.  A handler runs to its end (or the process dies); the event   *)
(* loop looks at its timers on every turn, so an expiry is not put off     *)
(* forever by other events.  That the peer does not keep the socket        *)
(* readable at every single read is an assumption of its own.              *)
(***************************************************************************)
LoopFairness == WF_vars(HandlerStep \/ ProcessAborts) /\ SF_vars(TimerExpiry)
BusySpec == Spec /\ LoopFairness
FairSpec == BusySpec /\ SF_vars(ReadWouldBlock)

Ended == conn \in HaltedStates \/ Over

(***************************************************************************)
(* Every event is handled to the end: the mutual calls of the machines, in *)
(* particular the loop of delayed_read_while_reading, return to the event  *)
(* loop.                                                                   *)
(***************************************************************************)
HandlersReturn == calls # <<>> ~> calls = <<>>

(***************************************************************************)
(* Once the application or a failure began the shutdown of the connection, *)
(* or an AMQP close frame was sent or received, the connection halts even  *)
(* when the peer never answers (unless output blocks: TimedUnlessBlocked). *)
(***************************************************************************)
ShutdownCompletes ==
    ("write_blocks" \notin faults /\
        (conn \in ShutdownStates \/ amqp \in {"close_sent", "closed"})) ~> Ended

(***************************************************************************)
(* timeout_while_draining_input says that it also ends the drain of a peer *)
(* that sends forever.                                                     *)
(***************************************************************************)
DrainEnds == conn = "draining_input" ~> conn # "draining_input"
=============================================================================
