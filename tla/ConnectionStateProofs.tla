----------------------- MODULE ConnectionStateProofs ------------------------
(***************************************************************************)
(* The connection's own states: a client's and a server's establishment, and *)
(* the shutdown, which they do not undo.                                   *)
(***************************************************************************)
EXTENDS ConnectionCalls, ConnectionShutdown, ConnectionClient, ConnectionServer

\* The states only lead on: from a connection's creation to its establishment,
\* once, and from anywhere to its end.
Forward ==
    /\ conn \in ShutdownStates \cup HaltedStates => conn' \in ShutdownStates \cup HaltedStates
    /\ conn \in {"amqp_tunnel_established", "tunnel_accepted"}
          => conn' \in {conn} \cup ShutdownStates \cup HaltedStates
    /\ conn = "initialized" => conn' \notin {"amqp_tunnel_established", "tunnel_accepted"}
    /\ conn' = "initialized" => conn = "initialized"

\* The establishment of a server's connection.
LEMMA ServerQuiet ==
    TypeOK /\ ServerStep
        => TypeOK' /\ QuietFor(Special) /\ Forward /\ UNCHANGED <<destroyed, ioVars>>
<1> SUFFICES ASSUME TypeOK, ServerStep
             PROVE  TypeOK' /\ QuietFor(Special) /\ Forward /\ UNCHANGED <<destroyed, ioVars>>
  OBVIOUS
<1>0. calls # <<>> /\ Head(calls).op \notin Special /\ UNCHANGED fatal => Shapes(Special)
  BY StackTop, QuietReturn
<1>t. ConnectionTypeOK /\ SocketTypeOK /\ WriterTypeOK /\ ReaderTypeOK /\ ProtocolTypeOK
  BY DEF TypeOK
<1> USE DEF machines, ioVars, ServerRest, RejectProtocolVersion, Enter, Forward,
            ClientStates, ServerStates, ShutdownStates, HaltedStates, TimeoutStates, Protocols
<1>1. CASE ServerBegin
  <2>1. QuietFor(Special) /\ calls' \in Seq(Calls)
    BY <1>1, <1>0, QuietDo, QuietCall, QuietArgument
    DEF ServerBegin, Return, Running, Argument, Shapes, Quiet, Special, IoOps,
        WriterHeads, SocketHeads, ReadOps, Starts, Requests
  <2>2. ConnectionTypeOK'
    BY <1>1, <1>t
    DEF ServerBegin, ConnectionTypeOK, connVars
  <2> QED
    BY <1>1, <2>1, <2>2, Untouched
    DEF ServerBegin, Return, TypeOK, environment, connVars
<1>2. CASE ServerReject
  <2>1. QuietFor(Special) /\ calls' \in Seq(Calls)
    BY <1>2, <1>0, QuietDo, QuietCall
    DEF ServerReject, Return, Running, Argument, Shapes, Quiet, Special, IoOps,
        WriterHeads, SocketHeads, ReadOps, Starts
  <2>2. ConnectionTypeOK'
    BY <1>2, <1>t
    DEF ServerReject, ConnectionTypeOK, connVars
  <2> QED
    BY <1>2, <2>1, <2>2, Untouched
    DEF ServerReject, Return, TypeOK, environment, connVars
<1>3. CASE ServerErrorSent
  <2>1. QuietFor(Special) /\ calls' \in Seq(Calls)
    BY <1>3, <1>0, QuietDo, QuietCall
    DEF ServerErrorSent, Return, Running, Argument, Shapes, Quiet, Special, IoOps,
        WriterHeads, SocketHeads, ReadOps, Starts
  <2>2. ConnectionTypeOK'
    BY <1>3, <1>t
    DEF ServerErrorSent, ConnectionTypeOK, connVars
  <2> QED
    BY <1>3, <2>1, <2>2, Untouched
    DEF ServerErrorSent, Return, TypeOK, environment, connVars
<1>4. CASE ServerDone
  <2>1. QuietFor(Special) /\ calls' \in Seq(Calls)
    BY <1>4, <1>0, QuietDo, QuietCall
    DEF ServerDone, Return, Running, Argument, Shapes, Quiet, Special, IoOps,
        WriterHeads, SocketHeads, ReadOps, Starts
  <2>2. ConnectionTypeOK'
    BY <1>4, <1>t
    DEF ServerDone, ConnectionTypeOK, connVars
  <2> QED
    BY <1>4, <2>1, <2>2, Untouched
    DEF ServerDone, Return, TypeOK, environment, connVars
<1>5. CASE ServerSaslFailed
  <2>1. QuietFor(Special) /\ calls' \in Seq(Calls)
    BY <1>5, <1>0, QuietDo, QuietCall, ZenonT(60)
    DEF ServerSaslFailed, Return, Running, Argument, Shapes, Quiet, Special, IoOps,
        WriterHeads, SocketHeads, ReadOps, Starts
  <2>2. ConnectionTypeOK'
    BY <1>5, <1>t
    DEF ServerSaslFailed, ConnectionTypeOK, connVars
  <2> QED
    BY <1>5, <2>1, <2>2, Untouched
    DEF ServerSaslFailed, Return, TypeOK, environment, connVars
<1> QED  BY <1>1, <1>2, <1>3, <1>4, <1>5 DEF ServerStep

\* connection_halt keeps the types of what it assigns.
LEMMA HaltTypes ==
    ConnectionTypeOK /\ connection_halt
        => /\ flags' \subseteq flags /\ timer' = FALSE /\ halts' \in 0 .. MaxHalts
           /\ UNCHANGED <<mode, failures, destroyed, fatal, environment>>
BY DEF ConnectionTypeOK, connection_halt, Return, MaxHalts

\* The shutdown, but for the cleanup that ends it.
LEMMA ShutdownQuiet ==
    TypeOK /\ ShutdownStep
        => Cleanup \/ (TypeOK' /\ QuietFor(Special) /\ Forward /\ UNCHANGED <<destroyed, ioVars>>)
<1> SUFFICES ASSUME TypeOK, ShutdownStep
             PROVE  Cleanup \/ (TypeOK' /\ QuietFor(Special) /\ Forward /\ UNCHANGED <<destroyed, ioVars>>)
  OBVIOUS
<1>0. calls # <<>> /\ Head(calls).op \notin Special /\ UNCHANGED fatal => Shapes(Special)
  BY StackTop, QuietReturn
<1>t. ConnectionTypeOK /\ SocketTypeOK /\ WriterTypeOK /\ ReaderTypeOK /\ ProtocolTypeOK
  BY DEF TypeOK
<1> USE DEF machines, ioVars, Unchanged, shutdown_connection, stop_activity,
            StopInputAndSocket, MaxHalts, ReadCallbacks, Enter, Forward, ClientStates, ServerStates, ShutdownStates, HaltedStates, TimeoutStates
<1>1. CASE ConnectionShutdown
  <2>1. QuietFor(Special) /\ calls' \in Seq(Calls)
    BY <1>1, <1>0, QuietDo, QuietCall
    DEF ConnectionShutdown, Return, Running, Argument, Shapes, Quiet, Special, IoOps,
        WriterHeads, SocketHeads, ReadOps, Starts
  <2>2. ConnectionTypeOK'
    BY <1>1, <1>t
    DEF ConnectionShutdown, ConnectionTypeOK, connVars
  <2> QED
    BY <1>1, <2>1, <2>2, Untouched
    DEF ConnectionShutdown, Return, TypeOK, environment, connVars
<1>2. CASE ShutdownDrain
  <2>1. QuietFor(Special) /\ calls' \in Seq(Calls)
    BY <1>2, <1>0, QuietDo, QuietCall
    DEF ShutdownDrain, Return, Running, Argument, Shapes, Quiet, Special, IoOps,
        WriterHeads, SocketHeads, ReadOps, Starts
  <2>2. ConnectionTypeOK'
    <3>1. (conn \in ClientStates \cup ServerStates \cup ShutdownStates \cup HaltedStates)'
      BY <1>2, <1>t DEF ShutdownDrain, ConnectionTypeOK, connVars
    <3>2. (onShutdown \in {"default", "do_nothing", "application_close", "in_progress"})'
      BY <1>2, <1>t DEF ShutdownDrain, ConnectionTypeOK, connVars
    <3>3. (onTimeout \in {"default", "stopping_output", "draining_input", "opened", "close_sent", "closed"})'
      BY <1>2, <1>t DEF ShutdownDrain, ConnectionTypeOK, connVars
    <3>4. (mode \in {"unset", "drain", "close", "abort"})'
      BY <1>2, <1>t DEF ShutdownDrain, ConnectionTypeOK, connVars
    <3>5. (timer \in BOOLEAN)'
      BY <1>2, <1>t DEF ShutdownDrain, ConnectionTypeOK, connVars
    <3>6. (flags \subseteq {"running", "socket_connected", "tls_connected", "sasl_connected", "amqp_connected", "is_client", "is_open", "is_closing"})'
      BY <1>2, <1>t DEF ShutdownDrain, ConnectionTypeOK, connVars
    <3>7. (failures \subseteq {"sasl_rejected", "amqp_rejected", "read_error", "write_error", "read_eof", "sasl_error", "amqp_error"})'
      BY <1>2, <1>t DEF ShutdownDrain, ConnectionTypeOK, connVars
    <3>8. (halts \in 0 .. MaxHalts)'
      BY <1>2, <1>t DEF ShutdownDrain, ConnectionTypeOK, connVars
    <3>9. (destroyed \in BOOLEAN)'
      BY <1>2, <1>t DEF ShutdownDrain, ConnectionTypeOK, connVars
    <3> QED  BY <3>1, <3>2, <3>3, <3>4, <3>5, <3>6, <3>7, <3>8,
                <3>9 DEF ConnectionTypeOK
  <2> QED
    BY <1>2, <2>1, <2>2, Untouched
    DEF ShutdownDrain, Return, TypeOK, environment, connVars
<1>3. CASE ShutdownClose
  <2>1. QuietFor(Special) /\ calls' \in Seq(Calls)
    BY <1>3, <1>0, QuietDo, QuietCall
    DEF ShutdownClose, Return, Running, Argument, Shapes, Quiet, Special, IoOps,
        WriterHeads, SocketHeads, ReadOps, Starts
  <2>2. ConnectionTypeOK'
    BY <1>3, <1>t
    DEF ShutdownClose, ConnectionTypeOK, connVars
  <2> QED
    BY <1>3, <2>1, <2>2, Untouched
    DEF ShutdownClose, Return, TypeOK, environment, connVars
<1>4. CASE DoneWhileStoppingOutput
  <2>1. QuietFor(Special) /\ calls' \in Seq(Calls)
    BY <1>4, <1>0, QuietDo, QuietCall
    DEF DoneWhileStoppingOutput, Return, Running, Argument, Shapes, Quiet, Special,
        IoOps, WriterHeads, SocketHeads, ReadOps, Starts
  <2>2. ConnectionTypeOK'
    BY <1>4, <1>t, ZenonT(60)
    DEF DoneWhileStoppingOutput, ConnectionTypeOK, connVars
  <2> QED
    BY <1>4, <2>1, <2>2, Untouched
    DEF DoneWhileStoppingOutput, Return, TypeOK, environment, connVars
<1>5. CASE DoneWhileStopping
  <2>1. QuietFor(Special) /\ calls' \in Seq(Calls)
    BY <1>5, <1>0, QuietDo, QuietCall
    DEF DoneWhileStopping, Return, Running, Argument, Shapes, Quiet, Special, IoOps,
        WriterHeads, SocketHeads, ReadOps, Starts, connection_halt
  <2>2. ConnectionTypeOK'
    BY <1>5, <1>t, HaltTypes, ZenonT(60)
    DEF DoneWhileStopping, ConnectionTypeOK, connVars
  <2> QED
    BY <1>5, <2>1, <2>2, Untouched, HaltTypes
    DEF DoneWhileStopping, Return, TypeOK, environment, connVars
<1>6. CASE DoneOrFailWhileTerminating
  <2>1. QuietFor(Special) /\ calls' \in Seq(Calls)
    BY <1>6, <1>0, QuietDo, QuietCall
    DEF DoneOrFailWhileTerminating, Return, Running, Argument, Shapes, Quiet, Special,
        IoOps, WriterHeads, SocketHeads, ReadOps, Starts, connection_halt
  <2>2. ConnectionTypeOK'
    BY <1>6, <1>t, HaltTypes
    DEF DoneOrFailWhileTerminating, ConnectionTypeOK, connVars
  <2> QED
    BY <1>6, <2>1, <2>2, Untouched, HaltTypes
    DEF DoneOrFailWhileTerminating, Return, TypeOK, environment, connVars
<1>7. CASE DefaultFail
  <2>1. QuietFor(Special) /\ calls' \in Seq(Calls)
    BY <1>7, <1>0, QuietDo, QuietCall
    DEF DefaultFail, Return, Running, Argument, Shapes, Quiet, Special, IoOps,
        WriterHeads, SocketHeads, ReadOps, Starts
  <2>2. ConnectionTypeOK'
    BY <1>7, <1>t
    DEF DefaultFail, ConnectionTypeOK, connVars
  <2> QED
    BY <1>7, <2>1, <2>2, Untouched
    DEF DefaultFail, Return, TypeOK, environment, connVars
<1>8. CASE ReadDoneWhileDraining
  <2>1. QuietFor(Special) /\ calls' \in Seq(Calls)
    BY <1>8, <1>0, QuietDo, QuietCall
    DEF ReadDoneWhileDraining, Return, Running, Argument, Shapes, Quiet, Special,
        IoOps, WriterHeads, SocketHeads, ReadOps, Starts
  <2>2. ConnectionTypeOK'
    BY <1>8, <1>t
    DEF ReadDoneWhileDraining, ConnectionTypeOK, connVars
  <2> QED
    BY <1>8, <2>1, <2>2, Untouched
    DEF ReadDoneWhileDraining, Return, TypeOK, environment, connVars
<1>9. CASE TimeoutWhileStopping
  <2>1. QuietFor(Special) /\ calls' \in Seq(Calls)
    BY <1>9, <1>0, QuietDo, QuietCall
    DEF TimeoutWhileStopping, Return, Running, Argument, Shapes, Quiet, Special, IoOps,
        WriterHeads, SocketHeads, ReadOps, Starts
  <2>2. ConnectionTypeOK'
    BY <1>9, <1>t
    DEF TimeoutWhileStopping, ConnectionTypeOK, connVars
  <2> QED
    BY <1>9, <2>1, <2>2, Untouched
    DEF TimeoutWhileStopping, Return, TypeOK, environment, connVars
<1>10. CASE Cleanup
  BY <1>10
<1> QED  BY <1>1, <1>2, <1>3, <1>4, <1>5, <1>6, <1>7, <1>8, <1>9, <1>10 DEF ShutdownStep

\* The establishment of a client's connection, which makes the calls of Starts.
LEMMA ClientQuiet ==
    TypeOK /\ ClientStep
        => TypeOK' /\ QuietFor(IoOps) /\ UNCHANGED <<destroyed, ioVars>>
<1> SUFFICES ASSUME TypeOK, ClientStep
             PROVE  TypeOK' /\ QuietFor(IoOps) /\ UNCHANGED <<destroyed, ioVars>>
  OBVIOUS
<1>0. calls # <<>> /\ Head(calls).op \notin IoOps /\ UNCHANGED fatal => Shapes(IoOps)
  BY StackTop, QuietReturn
<1>t. ConnectionTypeOK /\ SocketTypeOK /\ WriterTypeOK /\ ReaderTypeOK /\ ProtocolTypeOK
  BY DEF TypeOK
<1> USE DEF machines, ioVars, ClientRest, NextProtocol, Connecting, ConnectOf,
            Protocols, Enter, Forward, ClientStates, ServerStates, ShutdownStates, HaltedStates, TimeoutStates
<1>1. CASE ClientConnect
  <2>1. QuietFor(IoOps) /\ calls' \in Seq(Calls)
    BY <1>1, <1>0, StartCalls, QuietDo
    DEF ClientConnect, Return, Running, Argument, Shapes, Special, IoOps, WriterHeads,
        SocketHeads, ReadOps, Starts
  <2>2. ConnectionTypeOK'
    BY <1>1, <1>t
    DEF ClientConnect, ConnectionTypeOK, connVars
  <2>3. ProtocolTypeOK'
    BY <1>1, <1>t
    DEF ClientConnect, ProtocolTypeOK, protocolVars
  <2> QED
    BY <1>1, <2>1, <2>2, <2>3, Untouched
    DEF ClientConnect, Return, TypeOK, environment, connVars
<1>2. CASE ClientDone
  <2>1. QuietFor(IoOps) /\ calls' \in Seq(Calls)
    BY <1>2, <1>0, StartCalls, QuietDo
    DEF ClientDone, Return, Running, Argument, Shapes, Special, IoOps, WriterHeads,
        SocketHeads, ReadOps, Starts
  <2>2. ConnectionTypeOK'
    BY <1>2, <1>t
    DEF ClientDone, ConnectionTypeOK, connVars
  <2>3. ProtocolTypeOK'
    BY <1>2, <1>t
    DEF ClientDone, ProtocolTypeOK, protocolVars
  <2> QED
    BY <1>2, <2>1, <2>2, <2>3, Untouched
    DEF ClientDone, Return, TypeOK, environment, connVars
<1>3. CASE StartNextProtocol
  <2>1. QuietFor(IoOps) /\ calls' \in Seq(Calls)
    BY <1>3, <1>0, StartCalls, QuietDo
    DEF StartNextProtocol, Return, Running, Argument, Shapes, Special, IoOps,
        WriterHeads, SocketHeads, ReadOps, Starts
  <2>2. ConnectionTypeOK'
    BY <1>3, <1>t
    DEF StartNextProtocol, ConnectionTypeOK, connVars
  <2>3. ProtocolTypeOK'
    BY <1>3, <1>t
    DEF StartNextProtocol, ProtocolTypeOK, protocolVars
  <2> QED
    BY <1>3, <2>1, <2>2, <2>3, Untouched
    DEF StartNextProtocol, Return, TypeOK, environment, connVars
<1>4. CASE ClientAmqpConnected
  <2>1. QuietFor(IoOps) /\ calls' \in Seq(Calls)
    BY <1>4, <1>0, StartCalls, QuietDo
    DEF ClientAmqpConnected, Return, Running, Argument, Shapes, Special, IoOps,
        WriterHeads, SocketHeads, ReadOps, Starts
  <2>2. ConnectionTypeOK'
    BY <1>4, <1>t
    DEF ClientAmqpConnected, ConnectionTypeOK, connVars
  <2>3. ProtocolTypeOK'
    BY <1>4, <1>t
    DEF ClientAmqpConnected, ProtocolTypeOK, protocolVars
  <2> QED
    BY <1>4, <2>1, <2>2, <2>3, Untouched
    DEF ClientAmqpConnected, Return, TypeOK, environment, connVars
<1>5. CASE ClientRejected
  <2>1. QuietFor(IoOps) /\ calls' \in Seq(Calls)
    BY <1>5, <1>0, StartCalls, QuietDo
    DEF ClientRejected, Return, Running, Argument, Shapes, Special, IoOps, WriterHeads,
        SocketHeads, ReadOps, Starts
  <2>2. ConnectionTypeOK'
    BY <1>5, <1>t
    DEF ClientRejected, ConnectionTypeOK, connVars
  <2>3. ProtocolTypeOK'
    BY <1>5, <1>t
    DEF ClientRejected, ProtocolTypeOK, protocolVars
  <2> QED
    BY <1>5, <2>1, <2>2, <2>3, Untouched
    DEF ClientRejected, Return, TypeOK, environment, connVars
<1> QED  BY <1>1, <1>2, <1>3, <1>4, <1>5 DEF ClientStep

-----------------------------------------------------------------------------
\* s starts with the call of start_next_protocol and has no other call of Starts.
StartsAt(s) == s # <<>> /\ Head(s).op = "start_next_protocol" /\ Ops(Tail(s)) \cap Starts = {}

\* start_next_protocol_on_connection runs right after its caller looked at the
\* state: only the two enable calls of enable_io come in between.
StartInv ==
    \/ NoCall(Starts)
    \/ /\ conn \in {"connecting_socket", "connecting_tls", "connecting_sasl"}
       /\ \/ StartsAt(calls)
          \/ HeadIn({"writer.enable"}) /\ StartsAt(Tail(calls))
          \/ /\ HeadIn({"reader.enable"}) /\ Tail(calls) # <<>>
             /\ Head(Tail(calls)).op = "writer.enable" /\ StartsAt(Tail(Tail(calls)))

\* A handler that neither is nor makes a call of Starts leaves none on the stack:
\* if there is one, it is at the head.
LEMMA StartFrame ==
    TypeOK /\ StartInv /\ QuietFor(Starts) => StartInv'
<1> SUFFICES ASSUME TypeOK, StartInv, QuietFor(Starts)
             PROVE  StartInv'
  OBVIOUS
<1>1. ~HeadIn(Starts) /\ (~Nested(Starts) => NoCall(Starts)')
  BY Returned
<1>2. NoCall(Starts)
  BY <1>1 DEF StartInv, HeadIn, Starts, StartsAt
<1>3. ~Nested(Starts)
  BY <1>2, StackTop, NoCallHead DEF NoCall, Nested
<1> QED  BY <1>1, <1>3 DEF StartInv

\* The two enable calls are taken off the stack, with the state unchanged.
LEMMA StartPopped ==
    TypeOK /\ StartInv /\ Pop /\ UNCHANGED conn
           /\ Head(calls).op \in {"reader.enable", "writer.enable", "reader.reset"}
        => StartInv'
<1> SUFFICES ASSUME TypeOK, StartInv, Pop, UNCHANGED conn,
                    Head(calls).op \in {"reader.enable", "writer.enable", "reader.reset"}
             PROVE  StartInv'
  OBVIOUS
<1>1. calls # <<>> /\ calls' = Tail(calls)
  BY DEF Pop
<1>2. CASE NoCall(Starts)
  <2>1. Ops(Tail(calls)) \cap Starts = {}
    BY <1>1, <1>2, StackTop, NoCallHead DEF NoCall
  <2> QED  BY <1>1, <2>1 DEF StartInv, NoCall
<1>3. CASE ~NoCall(Starts)
  BY <1>1, <1>3 DEF StartInv, HeadIn, StartsAt
<1> QED  BY <1>2, <1>3

\* A client starts a protocol only while it connects, and not after a shutdown
\* began: StartInv tells so of the call of start_next_protocol.
LEMMA ClientStepInv ==
    TypeOK /\ StartInv /\ ClientStep => StartInv' /\ Forward
<1> SUFFICES ASSUME TypeOK, StartInv, ClientStep
             PROVE  StartInv' /\ Forward
  OBVIOUS
<1> USE DEF Forward, ShutdownStates, HaltedStates, TimeoutStates
<1>a. Starts \subseteq Special
  BY DEF Special
<1>b. ASSUME calls # <<>>, ~Nested(Starts), NEW a \in Quiet, calls' = <<a>> \o Tail(calls)
      PROVE  StartInv'
  <2>1. <<a>> \in Seq(Calls) /\ Ops(<<a>>) \cap Starts = {}
    BY <1>a DEF Quiet, QuietCalls, Ops
  <2>2. \A cs \in Seq(Calls) : Ops(cs \o Tail(calls)) = Ops(cs) \cup Ops(Tail(calls))
    BY <1>b, StackTop, ReturnStack
  <2>3. Ops(calls') = Ops(<<a>>) \cup Ops(Tail(calls))
    BY <1>b, <2>1, <2>2, Zenon
  <2> QED  BY <2>1, <2>3, <1>b DEF StartInv, NoCall, Nested
<1>c. ~HeadIn(Starts) \/ HeadIn({"start_next_protocol"}) => ~Nested(Starts)
  <2>1. CASE NoCall(Starts)
    BY <2>1, StackTop, NoCallHead DEF NoCall, Nested
  <2>2. CASE ~NoCall(Starts)
    BY <2>2 DEF StartInv, HeadIn, StartsAt, Nested, Starts
  <2> QED  BY <2>1, <2>2
<1>1. CASE ClientConnect
  <2>1. calls # <<>> /\ Head(calls).op = "client.connect" /\ conn = "initialized"
        /\ conn' = "connecting_socket"
        /\ calls' = <<Do("socket.connect")>> \o Tail(calls)
    BY <1>1 DEF ClientConnect, Running, Return, Enter
  <2>2. ~Nested(Starts)
    BY <2>1, <1>c DEF HeadIn, Starts
  <2> QED  BY <2>1, <2>2, <1>b, QuietDo
<1>2. CASE ClientDone
  <2>1. /\ calls # <<>> /\ Head(calls).op = "connection.done"
        /\ conn \in {"connecting_socket", "connecting_tls", "connecting_sasl"} /\ conn' = conn
    BY <1>2 DEF ClientDone, Running
  <2>2. ~Nested(Starts)
    BY <2>1, <1>c DEF HeadIn, Starts
  <2> DEFINE t == Tail(calls)
             re == Do("reader.enable")
             we == Do("writer.enable")
             sn == Do("start_next_protocol")
  <2>3. t \in Seq(Calls) /\ Ops(t) \cap Starts = {}
    BY <2>1, <2>2, StackTop DEF Nested
  <2>4. /\ re \in Calls /\ re.op = "reader.enable"
        /\ we \in Calls /\ we.op = "writer.enable"
        /\ sn \in Calls /\ sn.op = "start_next_protocol"
    BY DEF Do, Call, Calls, Operations, Arguments
  <2>5. \/ calls' = <<re, we, sn>> \o t
        \/ calls' = <<sn>> \o t
    BY <1>2 DEF ClientDone, Return
  <2> HIDE DEF t, re, we, sn
  <2>6. <<sn>> \o t # <<>> /\ Head(<<sn>> \o t) = sn /\ Tail(<<sn>> \o t) = t
    BY <2>3, <2>4
  <2>7. StartsAt(<<sn>> \o t)
    BY <2>3, <2>4, <2>6 DEF StartsAt
  <2>8. CASE calls' = <<sn>> \o t
    BY <2>7, <2>8, <2>1 DEF StartInv
  <2>9. CASE calls' = <<re, we, sn>> \o t
    <3>1. calls' # <<>> /\ Head(calls') = re /\ Tail(calls') = <<we, sn>> \o t
      BY <2>9, <2>3, <2>4
    <3>2. /\ <<we, sn>> \o t # <<>> /\ Head(<<we, sn>> \o t) = we
          /\ Tail(<<we, sn>> \o t) = <<sn>> \o t
      BY <2>3, <2>4
    <3> QED  BY <3>1, <3>2, <2>1, <2>4, <2>7 DEF StartInv, HeadIn
  <2> QED  BY <2>1, <2>5, <2>8, <2>9
<1>3. CASE StartNextProtocol
  <2>1. calls # <<>> /\ Head(calls).op = "start_next_protocol"
    BY <1>3 DEF StartNextProtocol, Running
  <2>2. ~Nested(Starts)
    BY <2>1, <1>c DEF HeadIn
  <2>3. conn \in {"connecting_socket", "connecting_tls", "connecting_sasl"}
    <3>1. ~NoCall(Starts)
      BY <2>1, StackTop, NoCallHead DEF NoCall, Starts
    <3> QED  BY <3>1 DEF StartInv
  <2>4. \E a \in Quiet : calls' = <<a>> \o Tail(calls)
    <3>1. CASE NextProtocol = "none"
      BY <1>3, <3>1, QuietDo DEF StartNextProtocol, Return
    <3>2. CASE NextProtocol # "none"
      <4>1. calls' = <<Do(ConnectOf(NextProtocol))>> \o Tail(calls)
        BY <1>3, <3>2 DEF StartNextProtocol, Return
      <4>2. Do(ConnectOf(NextProtocol)) \in Quiet
        BY QuietDo DEF ConnectOf
      <4> QED  BY <4>1, <4>2
    <3> QED  BY <3>1, <3>2
  <2>5. conn' \in {conn, "connecting_tls", "connecting_sasl", "connecting_amqp"}
    BY <1>3 DEF StartNextProtocol, Enter, Connecting
  <2> QED  BY <2>1, <2>2, <2>3, <2>4, <2>5, <1>b
<1>4. CASE ClientAmqpConnected
  <2>1. calls # <<>> /\ Head(calls).op = "connection.done" /\ conn = "connecting_amqp"
        /\ conn' = "amqp_tunnel_established"
        /\ calls' = <<Do("amqp.send_open")>> \o Tail(calls)
    BY <1>4 DEF ClientAmqpConnected, Running, Return, Enter
  <2>2. ~Nested(Starts)
    BY <2>1, <1>c DEF HeadIn, Starts
  <2> QED  BY <2>1, <2>2, <1>b, QuietDo
<1>5. CASE ClientRejected
  <2>1. calls # <<>> /\ Head(calls).op = "connection.fail" /\ conn' = conn
        /\ calls' = <<Do("shutdown.drain")>> \o Tail(calls)
    BY <1>5 DEF ClientRejected, Running, Return
  <2>2. ~Nested(Starts)
    BY <2>1, <1>c DEF HeadIn, Starts
  <2> QED  BY <2>1, <2>2, <1>b, QuietDo
<1> QED  BY <1>1, <1>2, <1>3, <1>4, <1>5 DEF ClientStep
=============================================================================
