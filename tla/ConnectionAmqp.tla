--------------------------- MODULE ConnectionAmqp ---------------------------
(***************************************************************************)
(* ConnectionFrameReader.c: frames out of the reader's bytes.              *)
(* ConnectionAmqp.c with Amqp/AmqpFrames.c: the opening, the idle timeouts *)
(* and the closing of the AMQP connection.                                 *)
(***************************************************************************)
EXTENDS ConnectionBase

\* the frames the current state has a handler for
AmqpExpected ==
    CASE amqp = "open_sent" -> {"open", "open_without_hostname", "empty"}
      [] amqp = "waiting_for_open_frame" -> {"open", "open_without_hostname"}
      [] amqp = "opened" -> {"close", "close_with_error", "empty"}
      [] amqp = "close_sent" -> {"close", "close_with_error"}
      [] OTHER -> {}

ReadAmqpFrame == Call("frame.read", "amqp")
Failed(flag) ==
    /\ failures' = failures \cup {flag}
    /\ UNCHANGED <<conn, onShutdown, onTimeout, mode, timer, flags, halts, destroyed>>

FrameRest == UNCHANGED <<negotiator, handshake, protocols, sasl, tunnel, amqp, ioVars>>
AmqpRest == UNCHANGED <<negotiator, handshake, protocols, sasl, tunnel, frame, onFrame, ioVars>>

\* enable_while_initialized, default_enable
FrameEnable ==
    /\ Running("frame.enable")
    /\ frame' = IF frame = "initialized" THEN "enabled" ELSE frame
    /\ Return(<<>>)
    /\ UNCHANGED <<onFrame, connVars>>
    /\ FrameRest

\* read_while_enabled, read_while_reading_frame_header, read_while_reading_frame_body
FrameRead ==
    /\ Running("frame.read")
    /\ \/ /\ frame = "enabled"
          /\ frame' = "reading_frame_header"
          /\ onFrame' = Argument
          /\ Return(<<Call("reader.commence_read", "frame.read_done")>>)
       \/ /\ frame \in {"reading_frame_header", "reading_frame_body"}
          /\ Return(<<>>)
          /\ UNCHANGED <<frame, onFrame>>
    /\ UNCHANGED connVars
    /\ FrameRest

\* read_done_while_reading_frame_header: end of file, a size out of range, a
\* frame of the least size, or a header that announces a body
FrameHeaderRead ==
    /\ Running("frame.read_done")
    /\ frame = "reading_frame_header"
    /\ \/ /\ Argument # "all"
          /\ Return(<<Do("connection.shutdown")>>)
          /\ UNCHANGED <<frame, connVars>>
       \/ /\ Argument = "all"
          /\ Failed("read_error")
          /\ Return(<<Do("connection.fail")>>)
          /\ UNCHANGED frame
       \/ /\ Argument = "all"
          /\ frame' = "enabled"
          /\ Return(<<Call("frame_available", onFrame)>>)
          /\ UNCHANGED connVars
       \/ /\ Argument = "all"
          /\ frame' = "reading_frame_body"
          /\ Return(<<Call("reader.commence_read", "frame.read_done")>>)
          /\ UNCHANGED connVars
    /\ UNCHANGED onFrame
    /\ FrameRest

\* read_done_while_reading_frame_body
FrameBodyRead ==
    /\ Running("frame.read_done")
    /\ frame = "reading_frame_body"
    /\ \/ /\ Argument # "all"
          /\ Failed("read_error")
          /\ Return(<<Do("connection.fail")>>)
          /\ UNCHANGED frame
       \/ /\ Argument = "all"
          /\ frame' = "enabled"
          /\ Return(<<Call("frame_available", onFrame)>>)
          /\ UNCHANGED connVars
    /\ UNCHANGED onFrame
    /\ FrameRest

-----------------------------------------------------------------------------
\* A transition of the AMQP machine; three of its states take over the
\* connection's shutdown and timeout handlers, whatever the connection's state.
EnterAmqp(state) ==
    /\ amqp' = state
    /\ onShutdown' = CASE state = "opened" -> "application_close"
                       [] state \in {"close_sent", "closed"} -> "in_progress"
                       [] OTHER -> onShutdown
    /\ onTimeout' = IF state \in {"opened", "close_sent", "closed"} THEN state ELSE onTimeout

\* send_open_while_initialized, to its write and from there
AmqpSendOpen ==
    /\ Running("amqp.send_open")
    /\ amqp = "initialized"
    /\ Return(<<Do("writer.write"), Do("amqp.send_open...")>>)
    /\ UNCHANGED machines

\* ..., wait_on_open_while_initialized
AmqpAwaitOpen ==
    /\ \/ Running("amqp.send_open...") /\ EnterAmqp("open_sent")
       \/ /\ Running("amqp.wait_on_open")
          /\ amqp = "initialized"
          /\ EnterAmqp("waiting_for_open_frame")
    /\ Return(<<Do("frame.enable"), ReadAmqpFrame>>)
    /\ UNCHANGED <<conn, mode, timer, flags, failures, halts, destroyed>>
    /\ AmqpRest

\* frame_available_callback, discard_frame_after_close_received
AmqpFrameAvailable ==
    /\ Running("frame_available")
    /\ \/ /\ Argument = "amqp"
          /\ Failed("amqp_error")
          /\ Return(<<Do("connection.shutdown")>>)
       \/ /\ Argument = "amqp"
          /\ \E f \in AmqpFrames : Return(<<Call("amqp.frame", f)>>)
          /\ UNCHANGED connVars
       \/ /\ Argument = "discard"
          /\ Return(<<Call("frame.read", "discard")>>)
          /\ UNCHANGED connVars
    /\ UNCHANGED amqp
    /\ AmqpRest

\* open_received_while_waiting_for_open_frame, up to the reply
AmqpOpenRequested ==
    /\ Running("amqp.frame") /\ Argument = "open"
    /\ amqp = "waiting_for_open_frame"
    /\ Return(<<Do("writer.write"), Do("connection_opened")>>)
    /\ UNCHANGED machines

\* open_received_after_open_sent and connection_opened; the idle timer is off
\* when one of the two idle timeouts is zero
AmqpOpened ==
    /\ \/ Running("connection_opened")
       \/ /\ Running("amqp.frame") /\ Argument \in {"open", "open_without_hostname"}
          /\ amqp = "open_sent"
    /\ flags' = flags \cup {"is_open"}
    /\ EnterAmqp("opened")
    /\ timer' \in BOOLEAN
    /\ Return(<<ReadAmqpFrame>>)
    /\ UNCHANGED <<conn, mode, failures, halts, destroyed>>
    /\ AmqpRest

\* keep_alive_while_open_sent, keep_alive_while_opened
AmqpKeepAlive ==
    /\ Running("amqp.frame") /\ Argument = "empty"
    /\ Argument \in AmqpExpected
    /\ Return(<<ReadAmqpFrame>>)
    /\ UNCHANGED machines

\* application_close_while_opened and timeout_expired_while_opened, when the
\* peer was silent for too long: begin_connection_close to its write
BeginConnectionClose ==
    /\ \/ Running("connection.shutdown") /\ onShutdown = "application_close"
       \/ Running("connection.timeout") /\ onTimeout = "opened"
    /\ Return(<<Do("writer.write"), Do("begin_connection_close...")>>)
    /\ UNCHANGED machines

\* Mutant of ConnectionCloseBegun: the wait for the peer's close is not timed.
CloseBegunUntimed ==
    /\ Running("begin_connection_close...")
    /\ EnterAmqp("close_sent")
    /\ flags' = flags \cup {"is_closing"}
    /\ Return(<<ReadAmqpFrame>>)
    /\ UNCHANGED <<timer, conn, mode, failures, halts, destroyed>>
    /\ AmqpRest

\* the rest of begin_connection_close
ConnectionCloseBegun ==
    /\ Running("begin_connection_close...")
    /\ timer' = TRUE
    /\ EnterAmqp("close_sent")
    /\ flags' = flags \cup {"is_closing"}
    /\ Return(<<ReadAmqpFrame>>)
    /\ UNCHANGED <<conn, mode, failures, halts, destroyed>>
    /\ AmqpRest

\* timeout_expired_while_opened: a keep-alive frame is due, or nothing is
IdleTimeout ==
    /\ Running("connection.timeout") /\ onTimeout = "opened"
    /\ Return(<<Do("writer.write")>>) \/ Return(<<>>)
    /\ UNCHANGED machines

\* received_close_while_opened, received_close_after_close_sent,
\* timeout_expiry_while_close_sent
AmqpClosed ==
    /\ \/ /\ Running("amqp.frame") /\ Argument = "close"
          /\ amqp = "opened"
          /\ timer' = TRUE
          /\ Return(<<Call("frame.read", "discard"), Do("writer.write"), Do("shutdown.drain")>>)
       \/ /\ \/ Running("amqp.frame") /\ Argument = "close" /\ amqp = "close_sent"
             \/ Running("connection.timeout") /\ onTimeout = "close_sent"
          /\ Return(<<Do("shutdown.drain")>>)
          /\ UNCHANGED timer
    /\ flags' = flags \ {"is_open", "is_closing"}
    /\ EnterAmqp("closed")
    /\ UNCHANGED <<conn, mode, failures, halts, destroyed>>
    /\ AmqpRest

\* timeout_expiry_while_closed
TimeoutWhileClosed ==
    /\ Running("connection.timeout") /\ onTimeout = "closed"
    /\ Return(<<Do("shutdown.close")>>)
    /\ UNCHANGED machines

\* amqp_received_out_of_sequence_frame
AmqpOutOfSequence ==
    /\ Running("amqp.frame") /\ Argument \notin AmqpExpected
    /\ Failed("amqp_error")
    /\ Return(<<Do("connection.shutdown")>>)
    /\ UNCHANGED amqp
    /\ AmqpRest

\* the default handlers of the frame reader and of the AMQP machine
AmqpIllegal ==
    \/ Running("frame.read") /\ frame = "initialized"
    \/ Running("frame.read_done") /\ frame \notin {"reading_frame_header", "reading_frame_body"}
    \/ Running("amqp.send_open") /\ amqp # "initialized"
    \/ Running("amqp.wait_on_open") /\ amqp # "initialized"

\* an open frame from a client that names no host, a close frame with an error
AmqpUnimplemented ==
    /\ Running("amqp.frame") /\ Argument \in AmqpExpected
    /\ \/ Argument = "open_without_hostname" /\ amqp = "waiting_for_open_frame"
       \/ Argument = "close_with_error"

AmqpStep ==
    \/ FrameEnable \/ FrameRead \/ FrameHeaderRead \/ FrameBodyRead
    \/ AmqpSendOpen \/ AmqpAwaitOpen \/ AmqpFrameAvailable \/ AmqpOpenRequested \/ AmqpOpened
    \/ AmqpKeepAlive \/ BeginConnectionClose \/ ConnectionCloseBegun \/ IdleTimeout
    \/ AmqpClosed \/ TimeoutWhileClosed \/ AmqpOutOfSequence
=============================================================================
