-------------------------- MODULE ConnectionTypes ---------------------------
(***************************************************************************)
(* The calls the machines of a connection make of each other, and the      *)
(* values their state takes.                                               *)
(***************************************************************************)
EXTENDS ConnectionBase

\* The arguments of a call: how a read ended, the callback of a read, where a
\* completed read returns to, a protocol, a client's request or a frame.
ReadCallbacks == {"negotiator.read_done", "frame.read_done", "connection.read_done"}
ReadReturns == {"reader.delayed_read", "reader.loop"}
Protocols == {"tls", "sasl", "amqp"}
Arguments == {"void", "all", "none", "no_buffer", "error", "discard"}
             \cup ReadReturns \cup Protocols \cup ReadCallbacks
             \cup Requests \cup SaslFrames \cup AmqpFrames
Operations ==
    {"connect_event", "socket.connect", "socket.try_connect", "socket.done", "socket.fail",
     "socket.shutdown", "write", "writer.enable", "writer.write", "writer.write_complete",
     "writer.continue_write", "writer.fail", "writer.stop", "writer.abort", "read",
     "reader.enable", "reader.commence_read", "reader.continue_read", "reader.delayed_read",
     "reader.loop", "reader.reset", "reader.stop", "reader.fail",
     "connection.begin", "connection.reject", "connection.done", "connection.fail",
     "connection.read_done", "connection.timeout", "connection.shutdown", "connection.cleanup",
     "shutdown.drain", "shutdown.close", "client.connect", "start_next_protocol",
     "negotiator.start", "negotiator.start...", "negotiator.wait", "negotiator.reset",
     "negotiator.send", "negotiator.send...", "negotiator.read_done",
     "tls.connect", "tls.accept", "tls.version_accepted", "tls.version_rejected",
     "amqp_tunnel.connect", "amqp_tunnel.accept", "amqp_tunnel.done",
     "amqp_tunnel.version_accepted", "amqp_tunnel.version_rejected",
     "sasl.connect", "sasl.accept", "sasl.done", "sasl.done...", "sasl.frame", "sasl.init...",
     "sasl.init_failed", "sasl.mechanisms...", "sasl.version_accepted", "sasl.version_rejected",
     "frame.enable", "frame.read", "frame.read_done", "frame_available",
     "amqp.send_open", "amqp.send_open...", "amqp.wait_on_open", "amqp.frame",
     "connection_opened", "begin_connection_close...", "null"}
Calls == {c \in [op : Operations, arg : Arguments] :
             /\ c.op = "reader.commence_read" => c.arg \in ReadCallbacks
             /\ c.op = "read" => c.arg \in ReadReturns
             /\ c.op = "negotiator.start" => c.arg \in Protocols
             /\ c.op = "negotiator.send" => c.arg \in Protocols \cup {"error"}
             /\ c.op \in {"frame.read", "frame_available"}
                    => c.arg \in {"none", "sasl", "amqp", "discard"}}

ConnectionTypeOK ==
    /\ conn \in ClientStates \cup ServerStates \cup ShutdownStates \cup HaltedStates
    /\ onShutdown \in {"default", "do_nothing", "application_close", "in_progress"}
    /\ onTimeout \in {"default", "stopping_output", "draining_input",
                      "opened", "close_sent", "closed"}
    /\ mode \in {"unset", "drain", "close", "abort"}
    /\ timer \in BOOLEAN
    /\ flags \subseteq {"running", "socket_connected", "tls_connected", "sasl_connected",
                        "amqp_connected", "is_client", "is_open", "is_closing"}
    /\ failures \subseteq {"sasl_rejected", "amqp_rejected", "read_error", "write_error",
                           "read_eof", "sasl_error", "amqp_error"}
    /\ halts \in 0 .. MaxHalts
    /\ destroyed \in BOOLEAN
SocketTypeOK ==
    /\ socket \in {"initialized", "resolving", "aborting_lookup", "connecting",
                   "connected", "accepted", "stopped", "failed"}
    /\ fd \in BOOLEAN
    /\ addresses \in 0 .. MaxAddresses
    /\ connectWatch \in BOOLEAN
WriterTypeOK ==
    /\ writer \in {"initialized", "enabled", "writing", "stopping", "stopped", "failed"}
    /\ writeWatch \in Watches
    /\ output \in 0 .. 1
    /\ stopCallback \in BOOLEAN
ReaderTypeOK ==
    /\ reader \in {"initialized", "enabled", "reading", "eof", "eof_alerted",
                   "stopped", "failed"}
    /\ readWatch \in Watches
    /\ pending \in {"none"} \cup ReadCallbacks
    /\ partial \in BOOLEAN
ProtocolTypeOK ==
    /\ negotiator \in {"initialized", "waiting_for_broker_response", "negotiated", "failed",
                       "rejected", "waiting_on_client_request", "waiting_to_send_server_response"}
    /\ handshake \in {"none", "error"} \cup Protocols
    /\ protocols \subseteq Protocols
    /\ sasl \in {"initialized", "waiting_on_sasl_mechanisms", "sending_header_response",
                 "waiting_on_sasl_challenge_or_outcome",
                 "waiting_on_sasl_initial_response_frame", "negotiated", "failed"}
    /\ tunnel \in {"initialized", "sending_header_response", "negotiated", "failed"}
    /\ frame \in {"initialized", "enabled", "reading_frame_header", "reading_frame_body"}
    /\ onFrame \in {"none", "sasl", "amqp", "discard"}
    /\ amqp \in {"initialized", "open_sent", "waiting_for_open_frame", "opened",
                 "close_sent", "closed"}

(***************************************************************************)
(* Type correctness.  Among what it rules out: a second buffer queued      *)
(* behind one still being written, and a read queued with no callback.     *)
(***************************************************************************)
TypeOK ==
    /\ role \in Roles /\ faults \in FaultSets
    /\ ConnectionTypeOK
    /\ SocketTypeOK
    /\ WriterTypeOK
    /\ ReaderTypeOK
    /\ ProtocolTypeOK
    /\ calls \in Seq(Calls)
    /\ fatal \in {"no", "illegal_state", "assert", "not_implemented", "freed"}
=============================================================================
