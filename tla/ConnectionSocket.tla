-------------------------- MODULE ConnectionSocket --------------------------
(***************************************************************************)
(* IO/ConnectionSocket.c: name lookup, the connection attempts over the    *)
(* addresses found, and the close of the socket.                           *)
(***************************************************************************)
EXTENDS ConnectionBase

\* Mutant of cleanup_everything: the descriptor is not closed.
cleanup_leaks_descriptor ==
    /\ connectWatch' = FALSE
    /\ addresses' = 0
    /\ UNCHANGED fd

\* cleanup_everything: connect watcher, descriptor and address list
cleanup_everything ==
    /\ connectWatch' = FALSE
    /\ fd' = FALSE
    /\ addresses' = 0

\* connection_attempt_failed, with `left' addresses still to be tried
AttemptFailed(left) ==
    /\ fd' = FALSE
    /\ Return(<<IF left > 0 THEN Do("socket.try_connect") ELSE Do("socket.fail")>>)

\* connect_while_initialized: the lookup blocks and is part of the handler
SocketConnect ==
    /\ Running("socket.connect")
    /\ socket = "initialized"
    /\ \/ /\ "connect_error" \in faults
          /\ socket' = "resolving"
          /\ Return(<<Do("socket.fail")>>)
          /\ UNCHANGED addresses
       \/ /\ addresses' \in 1 .. MaxAddresses
          /\ socket' = "connecting"
          /\ Return(<<Do("socket.try_connect")>>)
    /\ UNCHANGED <<fd, connectWatch, connVars, writeVars, readVars, protocolVars>>

\* Mutant of SocketTryConnect: after the last address the first one is tried again.
SocketTryConnectAround ==
    /\ Running("socket.try_connect")
    /\ socket = "connecting"
    /\ addresses > 0
    /\ addresses' = IF addresses > 1 THEN addresses - 1 ELSE MaxAddresses
    /\ \/ "connect_error" \in faults /\ AttemptFailed(addresses') /\ UNCHANGED connectWatch
       \/ fd' = TRUE /\ connectWatch' = TRUE /\ Return(<<>>)
       \/ fd' = TRUE /\ UNCHANGED connectWatch /\ Return(<<Do("socket.done")>>)
    /\ UNCHANGED <<socket, connVars, writeVars, readVars, protocolVars>>

\* attempt_connection_to_next_address
SocketTryConnect ==
    /\ Running("socket.try_connect")
    /\ socket = "connecting"
    /\ addresses > 0
    /\ addresses' = addresses - 1
    /\ \/ "connect_error" \in faults /\ AttemptFailed(addresses - 1) /\ UNCHANGED connectWatch
       \/ fd' = TRUE /\ connectWatch' = TRUE /\ Return(<<>>)
       \/ fd' = TRUE /\ UNCHANGED connectWatch /\ Return(<<Do("socket.done")>>)
    /\ UNCHANGED <<socket, connVars, writeVars, readVars, protocolVars>>

\* connect_event_handler: the outcome of an attempt that was in progress
ConnectEvent ==
    /\ Invoke(<<Do("connect_event")>>)
    /\ connectWatch
    /\ UNCHANGED machines

ConnectOutcome ==
    /\ Running("connect_event")
    /\ connectWatch' = FALSE
    /\ \/ "connect_error" \in faults /\ AttemptFailed(addresses)
       \/ Return(<<Do("socket.done")>>) /\ UNCHANGED fd
    /\ UNCHANGED <<socket, addresses, connVars, writeVars, readVars, protocolVars>>

\* done_while_connecting
SocketDone ==
    /\ Running("socket.done")
    /\ socket = "connecting"
    /\ socket' = "connected"
    /\ addresses' = 0
    /\ Return(<<Do("connection.done")>>)
    /\ UNCHANGED <<fd, connectWatch, connVars, writeVars, readVars, protocolVars>>

\* fail_while_resolving, fail_while_connecting
SocketFail ==
    /\ Running("socket.fail")
    /\ socket \in {"resolving", "connecting"}
    /\ socket' = "failed"
    /\ cleanup_everything
    /\ Return(<<Do("connection.fail")>>)
    /\ UNCHANGED <<connVars, writeVars, readVars, protocolVars>>

\* stop_and_notify_connection_shutdown in every state but resolving
SocketShutdown ==
    /\ Running("socket.shutdown")
    /\ IF socket = "resolving"
       THEN /\ socket' = "aborting_lookup"
            /\ UNCHANGED <<fd, addresses, connectWatch>>
            /\ Return(<<>>)
       ELSE /\ socket' = "stopped"
            /\ cleanup_everything
            /\ Return(<<Do("connection.done")>>)
    /\ UNCHANGED <<connVars, writeVars, readVars, protocolVars>>

\* default_connect, default_try_connect, default_done, default_fail
SocketIllegal ==
    \/ Running("socket.connect") /\ socket # "initialized"
    \/ Running("socket.try_connect") /\ socket # "connecting"
    \/ Running("socket.done") /\ socket \notin {"resolving", "connecting"}
    \/ Running("socket.fail") /\ socket \notin {"resolving", "connecting"}

\* attempt_connection_to_next_address asserts that an address is left
SocketAssertFails ==
    Running("socket.try_connect") /\ socket = "connecting" /\ addresses = 0

\* done_while_resolving
SocketUnimplemented == Running("socket.done") /\ socket = "resolving"

SocketStep ==
    \/ SocketConnect \/ SocketTryConnect \/ ConnectOutcome
    \/ SocketDone \/ SocketFail \/ SocketShutdown
=============================================================================
