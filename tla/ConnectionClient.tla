-------------------------- MODULE ConnectionClient --------------------------
(***************************************************************************)
(* ConnectionStateClient.c: a client connects its socket and then the      *)
(* protocols it was asked for, one on top of the other.                    *)
(***************************************************************************)
EXTENDS ConnectionBase

ClientRest == UNCHANGED <<negotiator, handshake, sasl, tunnel, frame, onFrame, amqp, ioVars>>

\* amqp_connection_connect_to
AppConnect ==
    /\ role = "client"
    /\ conn = "initialized"
    /\ Invoke(<<IF "amqp" \in protocols THEN Do("client.connect") ELSE Do("connection.fail")>>)
    /\ UNCHANGED machines

\* connect_while_initialized
ClientConnect ==
    /\ Running("client.connect")
    /\ conn = "initialized"
    /\ Enter("connecting_socket")
    /\ flags' = flags \cup {"running"}
    /\ Return(<<Do("socket.connect")>>)
    /\ UNCHANGED <<protocols, mode, timer, failures, halts, destroyed>>
    /\ ClientRest

\* Mutant of ClientDone: a tunnel that is done is followed by the next whatever
\* the state of the connection.
ClientDoneAlways ==
    /\ Running("connection.done")
    /\ flags' = flags \cup {IF sasl = "negotiated" THEN "sasl_connected" ELSE "socket_connected"}
    /\ Return(IF conn = "connecting_socket"
              THEN <<Do("reader.enable"), Do("writer.enable"), Do("start_next_protocol")>>
              ELSE <<Do("start_next_protocol")>>)
    /\ UNCHANGED <<protocols, conn, onShutdown, onTimeout, mode, timer, failures, halts, destroyed>>
    /\ ClientRest

\* done_while_connecting_socket, _tls and _sasl: what each adds to the flags;
\* enable_io is the first thing done with a connected socket
ClientDone ==
    /\ Running("connection.done")
    /\ conn \in {"connecting_socket", "connecting_tls", "connecting_sasl"}
    /\ flags' = flags \cup {CASE conn = "connecting_socket" -> "socket_connected"
                              [] conn = "connecting_tls" -> "tls_connected"
                              [] OTHER -> "sasl_connected"}
    /\ Return(IF conn = "connecting_socket"
              THEN <<Do("reader.enable"), Do("writer.enable"), Do("start_next_protocol")>>
              ELSE <<Do("start_next_protocol")>>)
    /\ UNCHANGED <<protocols, conn, onShutdown, onTimeout, mode, timer, failures, halts, destroyed>>
    /\ ClientRest

\* start_next_protocol_on_connection: TLS before SASL before AMQP
NextProtocol == CASE "tls" \in protocols -> "tls"
                  [] "sasl" \in protocols -> "sasl"
                  [] "amqp" \in protocols -> "amqp"
                  [] OTHER -> "none"
Connecting(p) == CASE p = "tls" -> "connecting_tls"
                   [] p = "sasl" -> "connecting_sasl"
                   [] OTHER -> "connecting_amqp"
ConnectOf(p) == CASE p = "tls" -> "tls.connect"
                  [] p = "sasl" -> "sasl.connect"
                  [] OTHER -> "amqp_tunnel.connect"

StartNextProtocol ==
    /\ Running("start_next_protocol")
    /\ IF NextProtocol = "none"
       THEN /\ Return(<<Do("connection.fail")>>)
            /\ UNCHANGED <<protocols, conn, onShutdown, onTimeout>>
       ELSE /\ Enter(Connecting(NextProtocol))
            /\ protocols' = protocols \ {NextProtocol}
            /\ Return(<<Do(ConnectOf(NextProtocol))>>)
    /\ UNCHANGED <<mode, timer, flags, failures, halts, destroyed>>
    /\ ClientRest

\* Mutant of ClientAmqpConnected: the state of the connection is not looked at.
ClientAmqpConnectedAlways ==
    /\ Running("connection.done")
    /\ flags' = flags \cup {"amqp_connected", "is_client"}
    /\ Enter("amqp_tunnel_established")
    /\ Return(<<Do("amqp.send_open")>>)
    /\ UNCHANGED <<protocols, mode, timer, failures, halts, destroyed>>
    /\ ClientRest

\* done_while_connecting_amqp
ClientAmqpConnected ==
    /\ Running("connection.done")
    /\ conn = "connecting_amqp"
    /\ flags' = flags \cup {"amqp_connected", "is_client"}
    /\ Enter("amqp_tunnel_established")
    /\ Return(<<Do("amqp.send_open")>>)
    /\ UNCHANGED <<protocols, mode, timer, failures, halts, destroyed>>
    /\ ClientRest

\* fail_while_connecting_sasl, fail_while_connecting_amqp
ClientRejected ==
    /\ Running("connection.fail")
    /\ conn \in {"connecting_sasl", "connecting_amqp"}
    /\ failures' = failures \cup {IF conn = "connecting_sasl" THEN "sasl_rejected"
                                                              ELSE "amqp_rejected"}
    /\ Return(<<Do("shutdown.drain")>>)
    /\ UNCHANGED <<protocols, conn, onShutdown, onTimeout, mode, timer, flags, halts, destroyed>>
    /\ ClientRest

\* fail_while_connecting_socket, fail_while_connecting_tls
ClientUnimplemented ==
    Running("connection.fail") /\ conn \in {"connecting_socket", "connecting_tls"}

ClientStep ==
    \/ ClientConnect \/ ClientDone \/ StartNextProtocol \/ ClientAmqpConnected \/ ClientRejected
=============================================================================
