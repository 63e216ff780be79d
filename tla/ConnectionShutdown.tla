------------------------- MODULE ConnectionShutdown -------------------------
(***************************************************************************)
(* ConnectionState.c: the shutdown of a connection.  Output is completed,  *)
(* input is drained or dropped, the socket is closed; a timer bounds each  *)
(* stage.  Connection.c: destruction.                                      *)
(***************************************************************************)
EXTENDS ConnectionBase

Unchanged == UNCHANGED <<ioVars, protocolVars>>

\* Mutant of connection_halt: the timer is left running.
connection_halt_keeps_timer ==
    /\ flags' = flags \ {"running", "socket_connected"}
    /\ halts' = IF halts < MaxHalts THEN halts + 1 ELSE halts
    /\ Return(IF role = "server" THEN <<Do("connection.shutdown"), Do("connection.cleanup")>>
                                 ELSE <<>>)
    /\ UNCHANGED <<timer, mode, failures, destroyed>>

\* connection_halt; a server's connection is taken off the list and destroyed
connection_halt ==
    /\ timer' = FALSE
    /\ flags' = flags \ {"running", "socket_connected"}
    /\ halts' = IF halts < MaxHalts THEN halts + 1 ELSE halts
    /\ Return(IF role = "server" THEN <<Do("connection.shutdown"), Do("connection.cleanup")>>
                                 ELSE <<>>)
    /\ UNCHANGED <<mode, failures, destroyed>>

\* stop_activity, and its tail, which two other handlers repeat
StopInputAndSocket == <<Do("reader.stop"), Do("socket.shutdown")>>
stop_activity == <<Do("writer.abort"), Do("reader.stop"), Do("socket.shutdown")>>

\* Mutant of shutdown_connection: an abort does not enter the state stopping.
shutdown_without_stopping(m) ==
    /\ mode' = m
    /\ IF m = "abort"
       THEN UNCHANGED <<conn, onShutdown, onTimeout>> /\ Return(stop_activity) /\ UNCHANGED timer
       ELSE Enter("stopping_output") /\ Return(<<Do("writer.stop")>>) /\ timer' = TRUE
    /\ UNCHANGED <<flags, failures, halts, destroyed>>

\* shutdown_connection
shutdown_connection(m) ==
    /\ mode' = m
    /\ IF m = "abort"
       THEN Enter("stopping") /\ Return(stop_activity) /\ UNCHANGED timer
       ELSE Enter("stopping_output") /\ Return(<<Do("writer.stop")>>) /\ timer' = TRUE
    /\ UNCHANGED <<flags, failures, halts, destroyed>>

\* the handlers connection.shutdown may point to, but for application_close
ConnectionShutdown ==
    /\ Running("connection.shutdown")
    /\ onShutdown # "application_close"
    /\ Return(IF onShutdown = "default" THEN <<Do("shutdown.close")>> ELSE <<>>)
    /\ UNCHANGED machines

\* default_drain; do_nothing once halted or timed out
ShutdownDrain ==
    /\ Running("shutdown.drain")
    /\ IF conn \in HaltedStates \cup TimeoutStates
       THEN Return(<<>>) /\ UNCHANGED connVars
       ELSE shutdown_connection("drain")
    /\ Unchanged

\* default_close, which no state replaces
ShutdownClose ==
    /\ Running("shutdown.close")
    /\ shutdown_connection("close")
    /\ Unchanged

\* connection.done while the shutdown is in progress
DoneWhileStoppingOutput ==
    /\ Running("connection.done")
    /\ conn = "stopping_output"
    /\ IF mode = "drain"
       THEN /\ timer' = TRUE
            /\ Enter("draining_input")
            /\ Return(<<Do("reader.reset"),
                        Call("reader.commence_read", "connection.read_done")>>)
       ELSE /\ Enter("stopping")
            /\ Return(StopInputAndSocket)
            /\ UNCHANGED timer
    /\ UNCHANGED <<mode, flags, failures, halts, destroyed>>
    /\ Unchanged

DoneWhileStopping ==
    /\ Running("connection.done")
    /\ conn = "stopping"
    /\ Enter(IF mode = "abort" THEN "failed" ELSE "stopped")
    /\ connection_halt
    /\ Unchanged

\* fail_while_stopping, done_or_fail_while_timeout
DoneOrFailWhileTerminating ==
    /\ \/ Running("connection.done") /\ conn \in TimeoutStates
       \/ Running("connection.fail") /\ conn \in TimeoutStates \cup {"stopping"}
    /\ Enter("failed")
    /\ connection_halt
    /\ Unchanged

\* connection.fail in every state that has no handler of its own
DefaultFail ==
    /\ Running("connection.fail")
    /\ conn \notin TimeoutStates \cup {"stopping", "connecting_socket", "connecting_tls",
            "connecting_sasl", "connecting_amqp", "accepting_tls", "accepting_sasl", "accepting_amqp"}
    /\ shutdown_connection("abort")
    /\ Unchanged

\* read_done_while_draining_input: the handler is never reset
ReadDoneWhileDraining ==
    /\ Running("connection.read_done")
    /\ Argument # "no_buffer"
    /\ IF Argument = "all"
       THEN /\ Enter("draining_input")
            /\ Return(<<Call("reader.commence_read", "connection.read_done")>>)
       ELSE /\ Enter("stopping")
            /\ Return(StopInputAndSocket)
    /\ UNCHANGED <<mode, timer, flags, failures, halts, destroyed>>
    /\ Unchanged

\* timer_expiry_handler; the timer repeats
TimerExpiry ==
    /\ Invoke(<<Do("connection.timeout")>>)
    /\ timer
    /\ UNCHANGED machines

\* timeout_while_stopping_output, timeout_while_draining_input
TimeoutWhileStopping ==
    /\ Running("connection.timeout")
    /\ onTimeout \in {"stopping_output", "draining_input"}
    /\ Enter(IF onTimeout = "stopping_output" THEN "timeout_stopping_output"
                                              ELSE "timeout_draining_input")
    /\ Return(stop_activity)
    /\ UNCHANGED <<mode, timer, flags, failures, halts, destroyed>>
    /\ Unchanged

\* amqp_connection_shutdown; the listener shuts down a connection that is running
AppShutdown ==
    /\ Invoke(<<Do("connection.shutdown")>>)
    /\ UNCHANGED machines

\* amqp_connection_destroy, of a client's connection
AppDestroy ==
    /\ role = "client"
    /\ Invoke(<<Do("connection.shutdown"), Do("connection.cleanup")>>)
    /\ UNCHANGED machines

\* amqp_connection_state_cleanup and the free of the connection.  A server's
\* connection is freed by connection_halt, under the handlers that led to it:
\* what they do from there is undefined, they return or the process dies.
Cleanup ==
    /\ Running("connection.cleanup")
    /\ destroyed' = TRUE
    /\ timer' = FALSE
    /\ readWatch' = "none"
    /\ writeWatch' = "none"
    /\ fd' = FALSE
    /\ calls' = <<>>
    /\ fatal' \in {"no"} \cup (IF role = "server" THEN {"freed"} ELSE {})
    /\ UNCHANGED <<conn, onShutdown, onTimeout, mode, flags, failures, halts,
                   socket, addresses, connectWatch, writer, output, stopCallback,
                   reader, pending, partial, protocolVars, environment>>

\* default_done, in the states with no handler for it, and default_timeout
ConnectionIllegal ==
    \/ /\ Running("connection.done")
       /\ conn \in {"initialized", "amqp_tunnel_established", "tunnel_accepted",
                    "waiting_on_client_negotiation_request",
                    "waiting_on_amqp_negotiation_request", "draining_input"} \cup HaltedStates
    \/ Running("connection.timeout") /\ onTimeout = "default"

\* read_done_while_draining_input asserts that it gets the connection's buffer
ConnectionAssertFails == Running("connection.read_done") /\ Argument = "no_buffer"

ShutdownStep ==
    \/ ConnectionShutdown \/ ShutdownDrain \/ ShutdownClose \/ DoneWhileStoppingOutput
    \/ DoneWhileStopping \/ DoneOrFailWhileTerminating \/ DefaultFail
    \/ ReadDoneWhileDraining \/ TimeoutWhileStopping \/ Cleanup
=============================================================================
