--------------------------- MODULE ConnectionBase ---------------------------
(***************************************************************************)
(* The state of one amqp_connection_t (ConnectionState.h) and the calling  *)
(* convention of its state machines.                                       *)
(*                                                                         *)
(* Every machine of a connection (socket, writer, reader, negotiator, ...) *)
(* is a record of function pointers that its transitions overwrite.  The   *)
(* machines call each other synchronously on the thread of the event loop, *)
(* so a handler may be re-entered, or find its own machine in another      *)
(* state, by the time a call it made returns.  That nesting is kept:       *)
(* `calls' is the C stack, as the sequence of calls still to be made       *)
(* before control returns to the event loop.  A handler takes the call at  *)
(* the head and pushes the calls it makes itself; a suffix "..." names the *)
(* code of a handler that follows one of its calls.  The event loop        *)
(* delivers an event only when the stack is empty.                         *)
(***************************************************************************)
EXTENDS Naturals, Sequences, FiniteSets

CONSTANTS
    Roles,         \* the kinds of connection considered
    FaultSets,     \* the networks considered, each the set of failures it shows
    MaxAddresses   \* bound: most addresses a host name lookup returns

AllFaults == {"connect_error", "eof", "partial_eof", "read_error", "write_error", "write_blocks"}

ASSUME RolesAssumption == Roles \subseteq {"client", "server"}
ASSUME FaultSetsAssumption == FaultSets \subseteq SUBSET AllFaults
ASSUME MaxAddressesAssumption == MaxAddresses \in Nat \ {0}

VARIABLES
    role,          \* "client": amqp_connection_create, "server": amqp_connection_accept
    faults,        \* the failures this connection's network shows
    conn,          \* state.connection.name
    onShutdown,    \* state.connection.shutdown, also assigned by the AMQP machine
    onTimeout,     \* state.connection.timeout, also assigned by the AMQP machine
    mode,          \* data.shutdown.mode
    timer,         \* is connection->timer running?  (it repeats until stopped)
    flags,         \* flags
    failures,      \* failure_flags
    halts,         \* calls of connection_halt, saturating at MaxHalts
    destroyed,     \* amqp_connection_state_cleanup has run
    socket,        \* state.socket.name
    fd,            \* is socket.fd an open descriptor?
    addresses,     \* entries left in socket.connect.lookup.iterator
    connectWatch,  \* is there a (started) socket.connect.watcher?
    writer,        \* state.writer.name
    writeWatch,    \* io.write.watcher: "none", "idle" or "active"
    output,        \* buffers queued in io.write.buffer_queue
    stopCallback,  \* is io.write.stopped_callback set?
    reader,        \* state.reader.name
    readWatch,     \* io.read.watcher: "none", "idle" or "active"
    pending,       \* the queued read, named by its callback; "none" when io.read.buffer = 0
    partial,       \* io.read.satisfied > 0
    negotiator,    \* state.negotiator.name
    handshake,     \* the protocol data.handshake.callbacks belong to
    protocols,     \* connection->protocols, then data.handshake.protocols
    sasl,          \* state.sasl.name
    tunnel,        \* state.amqp_tunnel.name
    frame,         \* state.frame.name
    onFrame,       \* io.frame.frame_available_callback
    amqp,          \* state.amqp.name
    calls,         \* the C stack
    fatal          \* why the process died

connVars == <<conn, onShutdown, onTimeout, mode, timer, flags, failures, halts, destroyed>>
socketVars == <<socket, fd, addresses, connectWatch>>
writeVars == <<writer, writeWatch, output, stopCallback>>
readVars == <<reader, readWatch, pending, partial>>
ioVars == <<socketVars, writeVars, readVars>>
protocolVars == <<negotiator, handshake, protocols, sasl, tunnel, frame, onFrame, amqp>>
machines == <<connVars, ioVars, protocolVars>>
environment == <<role, faults>>
vars == <<environment, machines, calls, fatal>>

MaxHalts == 2

-----------------------------------------------------------------------------
Call(op, arg) == [op |-> op, arg |-> arg]
Do(op) == Call(op, "void")

Running(op) == calls # <<>> /\ Head(calls).op = op
Argument == Head(calls).arg

\* The handler at the head of the stack makes the calls cs, in order, and returns.
Return(cs) == calls' = cs \o Tail(calls) /\ UNCHANGED <<fatal, environment>>

\* The event loop, or the application, makes the calls cs.
Invoke(cs) == /\ calls = <<>>
              /\ fatal = "no"
              /\ ~destroyed
              /\ calls' = cs
              /\ UNCHANGED <<fatal, environment>>

\* A handler no state provides, a failed assert() or not_implemented(): abort().
Abort(why) == /\ fatal' = why
              /\ calls' = <<>>
              /\ UNCHANGED <<machines, environment>>

-----------------------------------------------------------------------------
ClientStates == {"initialized", "connecting_socket", "connecting_tls",
                 "connecting_sasl", "connecting_amqp", "amqp_tunnel_established"}
ServerStates == {"waiting_on_client_negotiation_request", "accepting_tls",
                 "accepting_sasl", "waiting_on_amqp_negotiation_request",
                 "accepting_amqp", "tunnel_accepted", "sending_error_message"}
TimeoutStates == {"timeout_stopping_output", "timeout_draining_input"}
ShutdownStates == {"stopping_output", "draining_input", "stopping"} \cup TimeoutStates
HaltedStates == {"stopped", "failed"}

\* Mutant of Enter: the timeout of a stage is forgotten.
EnterUntimed(state) ==
    /\ conn' = state
    /\ onShutdown' = IF state \in HaltedStates \cup TimeoutStates
                     THEN "do_nothing" ELSE "default"
    /\ onTimeout' = "default"

\* A transition of the connection resets every handler, then installs its own.
Enter(state) ==
    /\ conn' = state
    /\ onShutdown' = IF state \in HaltedStates \cup TimeoutStates
                     THEN "do_nothing" ELSE "default"
    /\ onTimeout' = IF state \in {"stopping_output", "draining_input"}
                    THEN state ELSE "default"

\* No code of this connection runs any more.
Over == fatal # "no" \/ destroyed

\* what a client asks a server for: the protocol, or a version of it the
\* server does not support; "unknown" is an unknown protocol id
Requests == {"unparsable", "unknown", "tls", "sasl", "sasl_other", "amqp", "amqp_other"}

\* the SASL frames a peer may send; "_other" names a mechanism with no plugin here
SaslFrames == {"mechanisms", "mechanisms_other", "init", "init_other",
               "challenge", "response", "outcome", "outcome_rejected"}

\* the AMQP frames a peer may send, "other" being any frame of a session
AmqpFrames == {"open", "open_without_hostname", "close", "close_with_error", "empty", "other"}

Watches == {"none", "idle", "active"}
=============================================================================
