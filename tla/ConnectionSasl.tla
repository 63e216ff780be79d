--------------------------- MODULE ConnectionSasl ---------------------------
(***************************************************************************)
(* ConnectionSasl.c with Sasl/ClientSasl.c and Sasl/ServerSasl.c: the SASL *)
(* layer.  A frame is abstracted to what its handler tells apart.          *)
(***************************************************************************)
EXTENDS ConnectionBase

\* the frames the current state has a handler for
SaslExpected ==
    CASE sasl = "waiting_on_sasl_mechanisms" -> {"mechanisms", "mechanisms_other"}
      [] sasl = "waiting_on_sasl_challenge_or_outcome" -> {"challenge", "outcome", "outcome_rejected"}
      [] sasl = "waiting_on_sasl_initial_response_frame" -> {"init", "init_other"}
      [] OTHER -> {}

ReadSaslFrame == Call("frame.read", "sasl")

\* amqp_connection_failed with a failure flag of the SASL layer, cs its call of
\* connection.fail and what follows
SaslFailed(cs) ==
    /\ failures' = failures \cup {"sasl_error"}
    /\ Return(cs)
    /\ UNCHANGED <<conn, onShutdown, onTimeout, mode, timer, flags, halts, destroyed>>

SaslRest == UNCHANGED <<negotiator, handshake, protocols, tunnel, frame, onFrame, amqp, ioVars>>

\* sasl_connect_while_initialized
SaslConnect ==
    /\ Running("sasl.connect")
    /\ sasl = "initialized"
    /\ Return(<<Do("negotiator.reset"), Call("negotiator.start", "sasl")>>)
    /\ UNCHANGED machines

\* sasl_version_accepted_callback, sasl_version_rejected_callback
SaslVersion ==
    /\ \/ /\ Running("sasl.version_accepted")
          /\ sasl' = "waiting_on_sasl_mechanisms"
          /\ Return(<<Do("frame.enable"), ReadSaslFrame>>)
       \/ /\ Running("sasl.version_rejected")
          /\ sasl' = "failed"
          /\ Return(<<Do("connection.fail")>>)
    /\ UNCHANGED connVars
    /\ SaslRest

\* tunnel_accept_while_initialized
SaslAccept ==
    /\ Running("sasl.accept")
    /\ sasl = "initialized"
    /\ IF Argument = "sasl"
       THEN sasl' = "sending_header_response" /\ Return(<<Call("negotiator.send", "sasl")>>)
       ELSE sasl' = "failed" /\ Return(<<Do("connection.reject")>>)
    /\ UNCHANGED connVars
    /\ SaslRest

\* done_while_sending_header_response: with no plugin registered the encoder
\* fails the connection and there is no frame to send
SaslHeaderSent ==
    /\ Running("sasl.done")
    /\ sasl = "sending_header_response"
    /\ \/ Return(<<Do("writer.write"), Do("sasl.done...")>>) /\ UNCHANGED connVars
       \/ SaslFailed(<<Do("connection.fail")>>)
    /\ UNCHANGED sasl
    /\ SaslRest

SaslMechanismsSent ==
    /\ Running("sasl.done...")
    /\ sasl' = "waiting_on_sasl_initial_response_frame"
    /\ Return(<<Do("frame.enable"), ReadSaslFrame>>)
    /\ UNCHANGED connVars
    /\ SaslRest

\* frame_available_callback: decode the frame and dispatch it to its handler
SaslFrameAvailable ==
    /\ Running("frame_available") /\ Argument = "sasl"
    /\ \/ SaslFailed(<<Do("connection.fail")>>)
       \/ \E f \in SaslFrames : Return(<<Call("sasl.frame", f)>>) /\ UNCHANGED connVars
    /\ UNCHANGED sasl
    /\ SaslRest

\* received_sasl_mechanisms_frame, amqp_sasl_process_mechanisms_frame
SaslMechanisms ==
    /\ Running("sasl.frame") /\ Argument \in SaslExpected
    /\ \/ /\ Argument = "mechanisms"
          /\ Return(<<Do("writer.write"), Do("sasl.mechanisms...")>>)
          /\ UNCHANGED connVars
       \/ Argument = "mechanisms_other" /\ SaslFailed(<<Do("connection.fail")>>)
    /\ UNCHANGED sasl
    /\ SaslRest

SaslInitSent ==
    /\ Running("sasl.mechanisms...")
    /\ sasl' = "waiting_on_sasl_challenge_or_outcome"
    /\ Return(<<ReadSaslFrame>>)
    /\ UNCHANGED connVars
    /\ SaslRest

\* Mutant of SaslOutcome: the code of the outcome is not looked at.
SaslOutcomeUnchecked ==
    /\ Running("sasl.frame") /\ Argument \in SaslExpected
    /\ Argument \in {"outcome", "outcome_rejected"}
    /\ sasl' = IF Argument = "outcome" THEN "negotiated" ELSE sasl
    /\ Return(<<Do("connection.done")>>)
    /\ UNCHANGED connVars
    /\ SaslRest

\* received_sasl_outcome_frame: nothing follows an outcome other than ok
SaslOutcome ==
    /\ Running("sasl.frame") /\ Argument \in SaslExpected
    /\ \/ /\ Argument = "outcome"
          /\ sasl' = "negotiated"
          /\ Return(<<Do("connection.done")>>)
       \/ /\ Argument = "outcome_rejected"
          /\ Return(<<>>)
          /\ UNCHANGED sasl
    /\ UNCHANGED connVars
    /\ SaslRest

\* received_sasl_initial_response_frame, amqp_sasl_process_init_frame: the
\* plugins installed accept every init frame for their mechanism
SaslInit ==
    /\ Running("sasl.frame") /\ Argument \in SaslExpected
    /\ \/ /\ Argument = "init"
          /\ Return(<<Do("writer.write"), Do("sasl.init...")>>)
          /\ UNCHANGED connVars
       \/ Argument = "init_other" /\ SaslFailed(<<Do("connection.fail"), Do("sasl.init_failed")>>)
    /\ UNCHANGED sasl
    /\ SaslRest

SaslOutcomeSent ==
    /\ Running("sasl.init...")
    /\ sasl' = "negotiated"
    /\ Return(<<Do("connection.done")>>)
    /\ UNCHANGED connVars
    /\ SaslRest

\* received_out_of_sequence_sasl_frame
SaslOutOfSequence ==
    /\ Running("sasl.frame") /\ Argument \notin SaslExpected
    /\ SaslFailed(<<Do("connection.fail")>>)
    /\ UNCHANGED sasl
    /\ SaslRest

\* the default handlers
SaslIllegal ==
    \/ Running("sasl.connect") /\ sasl # "initialized"
    \/ Running("sasl.accept") /\ sasl # "initialized"
    \/ Running("sasl.done") /\ sasl # "sending_header_response"

\* a challenge, and what follows an init frame for an unknown mechanism
SaslUnimplemented ==
    \/ Running("sasl.frame") /\ Argument = "challenge" /\ Argument \in SaslExpected
    \/ Running("sasl.init_failed")

SaslStep ==
    \/ SaslConnect \/ SaslVersion \/ SaslAccept \/ SaslHeaderSent \/ SaslMechanismsSent
    \/ SaslFrameAvailable \/ SaslMechanisms \/ SaslInitSent \/ SaslOutcome
    \/ SaslInit \/ SaslOutcomeSent \/ SaslOutOfSequence
=============================================================================
