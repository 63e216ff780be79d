----------------------- MODULE ConnectionNegotiation ------------------------
(***************************************************************************)
(* ConnectionNegotiation.c and Negotiator.c: the exchange of protocol      *)
(* headers; ConnectionAmqpTunnel.c and ConnectionTls.c: two of its users.  *)
(* A header is abstracted to what its reader tells apart.                  *)
(***************************************************************************)
EXTENDS ConnectionBase

\* callbacks.confirm and .reject of a client's handshake for protocol p, then
\* callbacks.confirm of a server's; "null" is a callback that is not set
Accepted(p) == CASE p = "tls" -> "tls.version_accepted"
                 [] p = "sasl" -> "sasl.version_accepted"
                 [] p = "amqp" -> "amqp_tunnel.version_accepted"
                 [] OTHER -> "null"
Rejected(p) == CASE p = "tls" -> "tls.version_rejected"
                 [] p = "sasl" -> "sasl.version_rejected"
                 [] p = "amqp" -> "amqp_tunnel.version_rejected"
                 [] OTHER -> "null"
Sent(p) == CASE p = "sasl" -> "sasl.done"
             [] p = "amqp" -> "amqp_tunnel.done"
             [] p = "error" -> "connection.done"
             [] OTHER -> "null"

\* start_while_initialized, to its write and from there
NegotiatorStart ==
    /\ Running("negotiator.start")
    /\ negotiator = "initialized"
    /\ handshake' = Argument
    /\ Return(<<Do("writer.write"), Do("negotiator.start...")>>)
    /\ UNCHANGED <<negotiator, protocols, sasl, tunnel, frame, onFrame, amqp, connVars, ioVars>>

NegotiatorStarted ==
    /\ Running("negotiator.start...")
    /\ negotiator' = "waiting_for_broker_response"
    /\ Return(<<Call("reader.commence_read", "negotiator.read_done")>>)
    /\ UNCHANGED <<handshake, protocols, sasl, tunnel, frame, onFrame, amqp, connVars, ioVars>>

\* wait_while_initialized
NegotiatorWait ==
    /\ Running("negotiator.wait")
    /\ negotiator = "initialized"
    /\ negotiator' = "waiting_on_client_request"
    /\ handshake' = "none"
    /\ Return(<<Call("reader.commence_read", "negotiator.read_done")>>)
    /\ UNCHANGED <<protocols, sasl, tunnel, frame, onFrame, amqp, connVars, ioVars>>

\* Mutant of NegotiatorReset: the negotiator stays in negotiated.
NegotiatorResetForgotten ==
    /\ Running("negotiator.reset")
    /\ negotiator \in {"initialized", "negotiated"}
    /\ Return(<<>>)
    /\ UNCHANGED machines

\* reset_while_initialized, reset_while_negotiated
NegotiatorReset ==
    /\ Running("negotiator.reset")
    /\ negotiator \in {"initialized", "negotiated"}
    /\ negotiator' = "initialized"
    /\ Return(<<>>)
    /\ UNCHANGED <<handshake, protocols, sasl, tunnel, frame, onFrame, amqp, connVars, ioVars>>

\* read_done_while_waiting_for_broker_response, _while_waiting_on_client_request
NegotiatorReadDone ==
    /\ Running("negotiator.read_done")
    /\ negotiator \in {"waiting_for_broker_response", "waiting_on_client_request"}
    /\ \/ /\ Argument = "none"
          /\ negotiator' = "failed"
          /\ Return(<<Do("connection.shutdown")>>)
       \/ /\ Argument = "all"
          /\ negotiator = "waiting_for_broker_response"
          /\ \/ negotiator' = "negotiated" /\ Return(<<Do(Accepted(handshake))>>)
             \/ negotiator' = "rejected" /\ Return(<<Do(Rejected(handshake))>>)
       \/ /\ Argument = "all"
          /\ negotiator = "waiting_on_client_request"
          /\ negotiator' = "waiting_to_send_server_response"
          /\ \E request \in Requests : Return(<<Call("connection.begin", request)>>)
    /\ UNCHANGED <<handshake, protocols, sasl, tunnel, frame, onFrame, amqp, connVars, ioVars>>

\* send_while_waiting_to_send_server_response, to its write and from there
NegotiatorSend ==
    /\ Running("negotiator.send")
    /\ negotiator = "waiting_to_send_server_response"
    /\ handshake' = Argument
    /\ Return(<<Do("writer.write"), Do("negotiator.send...")>>)
    /\ UNCHANGED <<negotiator, protocols, sasl, tunnel, frame, onFrame, amqp, connVars, ioVars>>

NegotiatorSent ==
    /\ Running("negotiator.send...")
    /\ negotiator' = "negotiated"
    /\ Return(<<Do(Sent(handshake))>>)
    /\ UNCHANGED <<handshake, protocols, sasl, tunnel, frame, onFrame, amqp, connVars, ioVars>>

\* amqp_connect_while_initialized and the TLS machine's start_while_initialized
TunnelConnect ==
    /\ \/ /\ Running("amqp_tunnel.connect")
          /\ tunnel = "initialized"
          /\ Return(<<Do("negotiator.reset"), Call("negotiator.start", "amqp")>>)
       \/ /\ Running("tls.connect")
          /\ Return(<<Call("negotiator.start", "tls")>>)
    /\ UNCHANGED machines

\* amqp_version_accepted, amqp_version_rejected, done_while_sending_header_response
TunnelOutcome ==
    /\ \/ /\ \/ Running("amqp_tunnel.version_accepted")
             \/ Running("amqp_tunnel.done") /\ tunnel = "sending_header_response"
          /\ tunnel' = "negotiated"
          /\ Return(<<Do("connection.done")>>)
       \/ /\ Running("amqp_tunnel.version_rejected")
          /\ tunnel' = "failed"
          /\ Return(<<Do("connection.fail")>>)
    /\ UNCHANGED <<negotiator, handshake, protocols, sasl, frame, onFrame, amqp, connVars, ioVars>>

\* tunnel_accept_while_initialized
TunnelAccept ==
    /\ Running("amqp_tunnel.accept")
    /\ tunnel = "initialized"
    /\ IF Argument = "amqp"
       THEN tunnel' = "sending_header_response" /\ Return(<<Call("negotiator.send", "amqp")>>)
       ELSE tunnel' = "failed" /\ Return(<<Do("connection.reject")>>)
    /\ UNCHANGED <<negotiator, handshake, protocols, sasl, frame, onFrame, amqp, connVars, ioVars>>

\* the default handlers of the negotiator and of the AMQP tunnel
NegotiatorIllegal ==
    \/ Running("negotiator.start") /\ negotiator # "initialized"
    \/ Running("negotiator.wait") /\ negotiator # "initialized"
    \/ Running("negotiator.reset") /\ negotiator \notin {"initialized", "negotiated"}
    \/ Running("negotiator.send") /\ negotiator # "waiting_to_send_server_response"
    \/ /\ Running("negotiator.read_done")
       /\ negotiator \notin {"waiting_for_broker_response", "waiting_on_client_request"}
    \/ Running("amqp_tunnel.connect") /\ tunnel # "initialized"
    \/ Running("amqp_tunnel.accept") /\ tunnel # "initialized"
    \/ Running("amqp_tunnel.done") /\ tunnel # "sending_header_response"

\* both read_done handlers assert that they get the connection's buffer
NegotiatorAssertFails ==
    /\ Running("negotiator.read_done")
    /\ negotiator \in {"waiting_for_broker_response", "waiting_on_client_request"}
    /\ Argument = "no_buffer"

\* ConnectionTls.c: what follows the exchange of headers
TlsUnimplemented ==
    Running("tls.version_accepted") \/ Running("tls.version_rejected") \/ Running("tls.accept")

NegotiationStep ==
    \/ NegotiatorStart \/ NegotiatorStarted \/ NegotiatorWait \/ NegotiatorReset
    \/ NegotiatorReadDone \/ NegotiatorSend \/ NegotiatorSent
    \/ TunnelConnect \/ TunnelOutcome \/ TunnelAccept
=============================================================================
