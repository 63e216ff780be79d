-------------------------- MODULE ConnectionServer --------------------------
(***************************************************************************)
(* ConnectionStateServer.c: a server answers the protocol header of the    *)
(* client and accepts SASL, then AMQP, or AMQP alone.                      *)
(***************************************************************************)
EXTENDS ConnectionBase

ServerRest == UNCHANGED <<ioVars, protocolVars>>

\* reject_protocol_version: answer with the version supported, then drain
RejectProtocolVersion ==
    /\ Enter("sending_error_message")
    /\ Return(<<Call("negotiator.send", "error")>>)

\* begin_while_waiting_on_..., establish_tunnel_after_client_request
ServerBegin ==
    /\ Running("connection.begin")
    /\ \/ /\ conn = "waiting_on_client_negotiation_request"
          /\ \/ /\ Argument = "tls"
                /\ Enter("accepting_tls")
                /\ Return(<<Do("tls.accept")>>)
             \/ /\ Argument \in {"sasl", "sasl_other"}
                /\ Enter("accepting_sasl")
                /\ Return(<<Call("sasl.accept", Argument)>>)
             \/ Argument \in {"unparsable", "unknown"} /\ RejectProtocolVersion
       \/ /\ conn = "waiting_on_amqp_negotiation_request"
          /\ Argument \notin {"amqp", "amqp_other"}
          /\ RejectProtocolVersion
       \/ /\ conn \in {"waiting_on_client_negotiation_request",
                       "waiting_on_amqp_negotiation_request"}
          /\ Argument \in {"amqp", "amqp_other"}
          /\ Enter("accepting_amqp")
          /\ Return(<<Call("amqp_tunnel.accept", Argument)>>)
    /\ UNCHANGED <<mode, timer, flags, failures, halts, destroyed>>
    /\ ServerRest

\* reject_while_accepting_sasl, reject_while_accepting_amqp
ServerReject ==
    /\ Running("connection.reject")
    /\ conn \in {"accepting_sasl", "accepting_amqp"}
    /\ failures' = failures \cup {IF conn = "accepting_sasl" THEN "sasl_rejected"
                                                             ELSE "amqp_rejected"}
    /\ RejectProtocolVersion
    /\ UNCHANGED <<mode, timer, flags, halts, destroyed>>
    /\ ServerRest

\* done_while_sending_error_message
ServerErrorSent ==
    /\ Running("connection.done")
    /\ conn = "sending_error_message"
    /\ Return(<<Do("shutdown.drain")>>)
    /\ UNCHANGED machines

\* done_while_accepting_sasl, done_while_accepting_amqp
ServerDone ==
    /\ Running("connection.done")
    /\ \/ /\ conn = "accepting_sasl"
          /\ Enter("waiting_on_amqp_negotiation_request")
          /\ flags' = flags \cup {"sasl_connected"}
          /\ Return(<<Do("negotiator.reset"), Do("negotiator.wait")>>)
       \/ /\ conn = "accepting_amqp"
          /\ Enter("tunnel_accepted")
          /\ flags' = flags \cup {"amqp_connected"}
          /\ Return(<<Do("amqp.wait_on_open")>>)
    /\ UNCHANGED <<mode, timer, failures, halts, destroyed>>
    /\ ServerRest

\* fail_while_accepting_sasl
ServerSaslFailed ==
    /\ Running("connection.fail")
    /\ conn = "accepting_sasl"
    /\ failures' = failures \cup {"sasl_rejected"}
    /\ Return(<<Do("shutdown.drain")>>)
    /\ UNCHANGED <<conn, onShutdown, onTimeout, mode, timer, flags, halts, destroyed>>
    /\ ServerRest

\* mode.server.begin is the handler the default initialisation installs for
\* mode.client.connect, with which it shares its storage
ServerIllegal ==
    Running("connection.begin") /\ conn \notin {"waiting_on_client_negotiation_request",
                                                "waiting_on_amqp_negotiation_request"}

\* fail_while_accepting_amqp
ServerUnimplemented == Running("connection.fail") /\ conn = "accepting_amqp"

ServerStep == ServerBegin \/ ServerReject \/ ServerErrorSent \/ ServerDone \/ ServerSaslFailed
=============================================================================
