----------------------- MODULE ConnectionLayerProofs ------------------------
(***************************************************************************)
(* The negotiator, SASL and AMQP keep the types and make only quiet calls. *)
(***************************************************************************)
EXTENDS ConnectionCalls, ConnectionNegotiation, ConnectionSasl, ConnectionAmqp

\* The negotiator and the tunnels above it.
LEMMA NegotiationQuiet ==
    TypeOK /\ NegotiationStep
        => TypeOK' /\ QuietFor(Special) /\ UNCHANGED <<conn, destroyed, ioVars>>
<1> SUFFICES ASSUME TypeOK, NegotiationStep
             PROVE  TypeOK' /\ QuietFor(Special) /\ UNCHANGED <<conn, destroyed, ioVars>>
  OBVIOUS
<1>0. calls # <<>> /\ Head(calls).op \notin Special /\ UNCHANGED fatal => Shapes(Special)
  BY StackTop, QuietReturn
<1>t. ConnectionTypeOK /\ SocketTypeOK /\ WriterTypeOK /\ ReaderTypeOK /\ ProtocolTypeOK
  BY DEF TypeOK
<1> USE DEF machines, ioVars, Accepted, Rejected, Sent, ReadCallbacks, Protocols
<1>1. CASE NegotiatorStart
  <2>1. QuietFor(Special) /\ calls' \in Seq(Calls)
    BY <1>1, <1>0, QuietDo, QuietCall
    DEF NegotiatorStart, Return, Running, Argument, Shapes, Quiet, Special, IoOps,
        WriterHeads, SocketHeads, ReadOps, Starts
  <2>2. ProtocolTypeOK'
    BY <1>1, <1>t, StackTop
    DEF NegotiatorStart, ProtocolTypeOK, protocolVars, Running, Argument, Calls
  <2> QED
    BY <1>1, <2>1, <2>2, Untouched
    DEF NegotiatorStart, Return, TypeOK, environment, connVars
<1>2. CASE NegotiatorStarted
  <2>1. QuietFor(Special) /\ calls' \in Seq(Calls)
    BY <1>2, <1>0, QuietDo, QuietCall
    DEF NegotiatorStarted, Return, Running, Argument, Shapes, Quiet, Special, IoOps,
        WriterHeads, SocketHeads, ReadOps, Starts
  <2>2. ProtocolTypeOK'
    BY <1>2, <1>t
    DEF NegotiatorStarted, ProtocolTypeOK, protocolVars
  <2> QED
    BY <1>2, <2>1, <2>2, Untouched
    DEF NegotiatorStarted, Return, TypeOK, environment, connVars
<1>3. CASE NegotiatorWait
  <2>1. QuietFor(Special) /\ calls' \in Seq(Calls)
    BY <1>3, <1>0, QuietDo, QuietCall
    DEF NegotiatorWait, Return, Running, Argument, Shapes, Quiet, Special, IoOps,
        WriterHeads, SocketHeads, ReadOps, Starts
  <2>2. ProtocolTypeOK'
    BY <1>3, <1>t
    DEF NegotiatorWait, ProtocolTypeOK, protocolVars
  <2> QED
    BY <1>3, <2>1, <2>2, Untouched
    DEF NegotiatorWait, Return, TypeOK, environment, connVars
<1>4. CASE NegotiatorReset
  <2>1. QuietFor(Special) /\ calls' \in Seq(Calls)
    BY <1>4, <1>0, QuietDo, QuietCall
    DEF NegotiatorReset, Return, Running, Argument, Shapes, Quiet, Special, IoOps,
        WriterHeads, SocketHeads, ReadOps, Starts
  <2>2. ProtocolTypeOK'
    BY <1>4, <1>t
    DEF NegotiatorReset, ProtocolTypeOK, protocolVars
  <2> QED
    BY <1>4, <2>1, <2>2, Untouched
    DEF NegotiatorReset, Return, TypeOK, environment, connVars
<1>5. CASE NegotiatorReadDone
  <2>1. QuietFor(Special) /\ calls' \in Seq(Calls)
    BY <1>5, <1>0, QuietDo, QuietCall, QuietArgument
    DEF NegotiatorReadDone, Return, Running, Argument, Shapes, Quiet, Special, IoOps,
        WriterHeads, SocketHeads, ReadOps, Starts
  <2>2. ProtocolTypeOK'
    BY <1>5, <1>t
    DEF NegotiatorReadDone, ProtocolTypeOK, protocolVars
  <2> QED
    BY <1>5, <2>1, <2>2, Untouched
    DEF NegotiatorReadDone, Return, TypeOK, environment, connVars
<1>6. CASE NegotiatorSend
  <2>1. QuietFor(Special) /\ calls' \in Seq(Calls)
    BY <1>6, <1>0, QuietDo, QuietCall
    DEF NegotiatorSend, Return, Running, Argument, Shapes, Quiet, Special, IoOps,
        WriterHeads, SocketHeads, ReadOps, Starts
  <2>2. ProtocolTypeOK'
    BY <1>6, <1>t, StackTop
    DEF NegotiatorSend, ProtocolTypeOK, protocolVars, Running, Argument, Calls
  <2> QED
    BY <1>6, <2>1, <2>2, Untouched
    DEF NegotiatorSend, Return, TypeOK, environment, connVars
<1>7. CASE NegotiatorSent
  <2>1. QuietFor(Special) /\ calls' \in Seq(Calls)
    BY <1>7, <1>0, QuietDo, QuietCall
    DEF NegotiatorSent, Return, Running, Argument, Shapes, Quiet, Special, IoOps,
        WriterHeads, SocketHeads, ReadOps, Starts
  <2>2. ProtocolTypeOK'
    BY <1>7, <1>t
    DEF NegotiatorSent, ProtocolTypeOK, protocolVars
  <2> QED
    BY <1>7, <2>1, <2>2, Untouched
    DEF NegotiatorSent, Return, TypeOK, environment, connVars
<1>8. CASE TunnelConnect
  <2>1. QuietFor(Special) /\ calls' \in Seq(Calls)
    BY <1>8, <1>0, QuietDo, QuietCall
    DEF TunnelConnect, Return, Running, Argument, Shapes, Quiet, Special, IoOps,
        WriterHeads, SocketHeads, ReadOps, Starts
  <2>2. ProtocolTypeOK'
    BY <1>8, <1>t
    DEF TunnelConnect, ProtocolTypeOK, protocolVars
  <2> QED
    BY <1>8, <2>1, <2>2, Untouched
    DEF TunnelConnect, Return, TypeOK, environment, connVars
<1>9. CASE TunnelOutcome
  <2>1. QuietFor(Special) /\ calls' \in Seq(Calls)
    BY <1>9, <1>0, QuietDo, QuietCall
    DEF TunnelOutcome, Return, Running, Argument, Shapes, Quiet, Special, IoOps,
        WriterHeads, SocketHeads, ReadOps, Starts
  <2>2. ProtocolTypeOK'
    BY <1>9, <1>t
    DEF TunnelOutcome, ProtocolTypeOK, protocolVars
  <2> QED
    BY <1>9, <2>1, <2>2, Untouched
    DEF TunnelOutcome, Return, TypeOK, environment, connVars
<1>10. CASE TunnelAccept
  <2>1. QuietFor(Special) /\ calls' \in Seq(Calls)
    BY <1>10, <1>0, QuietDo, QuietCall
    DEF TunnelAccept, Return, Running, Argument, Shapes, Quiet, Special, IoOps,
        WriterHeads, SocketHeads, ReadOps, Starts
  <2>2. ProtocolTypeOK'
    BY <1>10, <1>t
    DEF TunnelAccept, ProtocolTypeOK, protocolVars
  <2> QED
    BY <1>10, <2>1, <2>2, Untouched
    DEF TunnelAccept, Return, TypeOK, environment, connVars
<1> QED  BY <1>1, <1>2, <1>3, <1>4, <1>5, <1>6, <1>7, <1>8, <1>9,
            <1>10 DEF NegotiationStep

\* The SASL layer.
LEMMA SaslQuiet ==
    TypeOK /\ SaslStep
        => TypeOK' /\ QuietFor(Special) /\ UNCHANGED <<conn, destroyed, ioVars>>
<1> SUFFICES ASSUME TypeOK, SaslStep
             PROVE  TypeOK' /\ QuietFor(Special) /\ UNCHANGED <<conn, destroyed, ioVars>>
  OBVIOUS
<1>0. calls # <<>> /\ Head(calls).op \notin Special /\ UNCHANGED fatal => Shapes(Special)
  BY StackTop, QuietReturn
<1>t. ConnectionTypeOK /\ SocketTypeOK /\ WriterTypeOK /\ ReaderTypeOK /\ ProtocolTypeOK
  BY DEF TypeOK
<1> USE DEF machines, ioVars, SaslRest, SaslFailed, ReadSaslFrame, Protocols
<1>1. CASE SaslConnect
  <2>1. QuietFor(Special) /\ calls' \in Seq(Calls)
    BY <1>1, <1>0, QuietDo, QuietCall
    DEF SaslConnect, Return, Running, Argument, Shapes, Quiet, Special, IoOps,
        WriterHeads, SocketHeads, ReadOps, Starts
  <2>2. ConnectionTypeOK'
    BY <1>1, <1>t
    DEF SaslConnect, ConnectionTypeOK, connVars
  <2>3. ProtocolTypeOK'
    BY <1>1, <1>t
    DEF SaslConnect, ProtocolTypeOK, protocolVars
  <2> QED
    BY <1>1, <2>1, <2>2, <2>3, Untouched
    DEF SaslConnect, Return, TypeOK, environment, connVars
<1>2. CASE SaslVersion
  <2>1. QuietFor(Special) /\ calls' \in Seq(Calls)
    BY <1>2, <1>0, QuietDo, QuietCall
    DEF SaslVersion, Return, Running, Argument, Shapes, Quiet, Special, IoOps,
        WriterHeads, SocketHeads, ReadOps, Starts
  <2>2. ConnectionTypeOK'
    BY <1>2, <1>t
    DEF SaslVersion, ConnectionTypeOK, connVars
  <2>3. ProtocolTypeOK'
    BY <1>2, <1>t
    DEF SaslVersion, ProtocolTypeOK, protocolVars
  <2> QED
    BY <1>2, <2>1, <2>2, <2>3, Untouched
    DEF SaslVersion, Return, TypeOK, environment, connVars
<1>3. CASE SaslAccept
  <2>1. QuietFor(Special) /\ calls' \in Seq(Calls)
    BY <1>3, <1>0, QuietDo, QuietCall
    DEF SaslAccept, Return, Running, Argument, Shapes, Quiet, Special, IoOps,
        WriterHeads, SocketHeads, ReadOps, Starts
  <2>2. ConnectionTypeOK'
    BY <1>3, <1>t
    DEF SaslAccept, ConnectionTypeOK, connVars
  <2>3. ProtocolTypeOK'
    BY <1>3, <1>t
    DEF SaslAccept, ProtocolTypeOK, protocolVars
  <2> QED
    BY <1>3, <2>1, <2>2, <2>3, Untouched
    DEF SaslAccept, Return, TypeOK, environment, connVars
<1>4. CASE SaslHeaderSent
  <2>1. QuietFor(Special) /\ calls' \in Seq(Calls)
    BY <1>4, <1>0, QuietDo, QuietCall
    DEF SaslHeaderSent, Return, Running, Argument, Shapes, Quiet, Special, IoOps,
        WriterHeads, SocketHeads, ReadOps, Starts
  <2>2. ConnectionTypeOK'
    BY <1>4, FailureNoted
    DEF SaslHeaderSent, connVars
  <2>3. ProtocolTypeOK'
    BY <1>4, <1>t
    DEF SaslHeaderSent, ProtocolTypeOK, protocolVars
  <2> QED
    BY <1>4, <2>1, <2>2, <2>3, Untouched
    DEF SaslHeaderSent, Return, TypeOK, environment, connVars
<1>5. CASE SaslMechanismsSent
  <2>1. QuietFor(Special) /\ calls' \in Seq(Calls)
    BY <1>5, <1>0, QuietDo, QuietCall
    DEF SaslMechanismsSent, Return, Running, Argument, Shapes, Quiet, Special, IoOps,
        WriterHeads, SocketHeads, ReadOps, Starts
  <2>2. ConnectionTypeOK'
    BY <1>5, <1>t
    DEF SaslMechanismsSent, ConnectionTypeOK, connVars
  <2>3. ProtocolTypeOK'
    BY <1>5, <1>t
    DEF SaslMechanismsSent, ProtocolTypeOK, protocolVars
  <2> QED
    BY <1>5, <2>1, <2>2, <2>3, Untouched
    DEF SaslMechanismsSent, Return, TypeOK, environment, connVars
<1>6. CASE SaslFrameAvailable
  <2>1. QuietFor(Special) /\ calls' \in Seq(Calls)
    BY <1>6, <1>0, QuietDo, QuietCall, QuietArgument
    DEF SaslFrameAvailable, Return, Running, Argument, Shapes, Quiet, Special, IoOps,
        WriterHeads, SocketHeads, ReadOps, Starts
  <2>2. ConnectionTypeOK'
    BY <1>6, FailureNoted
    DEF SaslFrameAvailable, connVars
  <2>3. ProtocolTypeOK'
    BY <1>6, <1>t
    DEF SaslFrameAvailable, ProtocolTypeOK, protocolVars
  <2> QED
    BY <1>6, <2>1, <2>2, <2>3, Untouched
    DEF SaslFrameAvailable, Return, TypeOK, environment, connVars
<1>7. CASE SaslMechanisms
  <2>1. QuietFor(Special) /\ calls' \in Seq(Calls)
    BY <1>7, <1>0, QuietDo, QuietCall
    DEF SaslMechanisms, Return, Running, Argument, Shapes, Quiet, Special, IoOps,
        WriterHeads, SocketHeads, ReadOps, Starts
  <2>2. ConnectionTypeOK'
    BY <1>7, FailureNoted
    DEF SaslMechanisms, connVars
  <2>3. ProtocolTypeOK'
    BY <1>7, <1>t
    DEF SaslMechanisms, ProtocolTypeOK, protocolVars
  <2> QED
    BY <1>7, <2>1, <2>2, <2>3, Untouched
    DEF SaslMechanisms, Return, TypeOK, environment, connVars
<1>8. CASE SaslInitSent
  <2>1. QuietFor(Special) /\ calls' \in Seq(Calls)
    BY <1>8, <1>0, QuietDo, QuietCall
    DEF SaslInitSent, Return, Running, Argument, Shapes, Quiet, Special, IoOps,
        WriterHeads, SocketHeads, ReadOps, Starts
  <2>2. ConnectionTypeOK'
    BY <1>8, <1>t
    DEF SaslInitSent, ConnectionTypeOK, connVars
  <2>3. ProtocolTypeOK'
    BY <1>8, <1>t
    DEF SaslInitSent, ProtocolTypeOK, protocolVars
  <2> QED
    BY <1>8, <2>1, <2>2, <2>3, Untouched
    DEF SaslInitSent, Return, TypeOK, environment, connVars
<1>9. CASE SaslOutcome
  <2>1. QuietFor(Special) /\ calls' \in Seq(Calls)
    BY <1>9, <1>0, QuietDo, QuietCall
    DEF SaslOutcome, Return, Running, Argument, Shapes, Quiet, Special, IoOps,
        WriterHeads, SocketHeads, ReadOps, Starts
  <2>2. ConnectionTypeOK'
    BY <1>9, <1>t
    DEF SaslOutcome, ConnectionTypeOK, connVars
  <2>3. ProtocolTypeOK'
    BY <1>9, <1>t
    DEF SaslOutcome, ProtocolTypeOK, protocolVars
  <2> QED
    BY <1>9, <2>1, <2>2, <2>3, Untouched
    DEF SaslOutcome, Return, TypeOK, environment, connVars
<1>10. CASE SaslInit
  <2>1. QuietFor(Special) /\ calls' \in Seq(Calls)
    BY <1>10, <1>0, QuietDo, QuietCall
    DEF SaslInit, Return, Running, Argument, Shapes, Quiet, Special, IoOps,
        WriterHeads, SocketHeads, ReadOps, Starts
  <2>2. ConnectionTypeOK'
    BY <1>10, FailureNoted
    DEF SaslInit, connVars
  <2>3. ProtocolTypeOK'
    BY <1>10, <1>t
    DEF SaslInit, ProtocolTypeOK, protocolVars
  <2> QED
    BY <1>10, <2>1, <2>2, <2>3, Untouched
    DEF SaslInit, Return, TypeOK, environment, connVars
<1>11. CASE SaslOutcomeSent
  <2>1. QuietFor(Special) /\ calls' \in Seq(Calls)
    BY <1>11, <1>0, QuietDo, QuietCall
    DEF SaslOutcomeSent, Return, Running, Argument, Shapes, Quiet, Special, IoOps,
        WriterHeads, SocketHeads, ReadOps, Starts
  <2>2. ConnectionTypeOK'
    BY <1>11, <1>t
    DEF SaslOutcomeSent, ConnectionTypeOK, connVars
  <2>3. ProtocolTypeOK'
    BY <1>11, <1>t
    DEF SaslOutcomeSent, ProtocolTypeOK, protocolVars
  <2> QED
    BY <1>11, <2>1, <2>2, <2>3, Untouched
    DEF SaslOutcomeSent, Return, TypeOK, environment, connVars
<1>12. CASE SaslOutOfSequence
  <2>1. QuietFor(Special) /\ calls' \in Seq(Calls)
    BY <1>12, <1>0, QuietDo, QuietCall
    DEF SaslOutOfSequence, Return, Running, Argument, Shapes, Quiet, Special, IoOps,
        WriterHeads, SocketHeads, ReadOps, Starts
  <2>2. ConnectionTypeOK'
    BY <1>12, <1>t
    DEF SaslOutOfSequence, ConnectionTypeOK, connVars
  <2>3. ProtocolTypeOK'
    BY <1>12, <1>t
    DEF SaslOutOfSequence, ProtocolTypeOK, protocolVars
  <2> QED
    BY <1>12, <2>1, <2>2, <2>3, Untouched
    DEF SaslOutOfSequence, Return, TypeOK, environment, connVars
<1> QED  BY <1>1, <1>2, <1>3, <1>4, <1>5, <1>6, <1>7, <1>8, <1>9, <1>10, <1>11,
            <1>12 DEF SaslStep

\* The frame reader and the AMQP layer.
LEMMA AmqpQuiet ==
    TypeOK /\ AmqpStep
        => TypeOK' /\ QuietFor(Special) /\ UNCHANGED <<conn, destroyed, ioVars>>
<1> SUFFICES ASSUME TypeOK, AmqpStep
             PROVE  TypeOK' /\ QuietFor(Special) /\ UNCHANGED <<conn, destroyed, ioVars>>
  OBVIOUS
<1>0. calls # <<>> /\ Head(calls).op \notin Special /\ UNCHANGED fatal => Shapes(Special)
  BY StackTop, QuietReturn
<1>t. ConnectionTypeOK /\ SocketTypeOK /\ WriterTypeOK /\ ReaderTypeOK /\ ProtocolTypeOK
  BY DEF TypeOK
<1> USE DEF machines, ioVars, FrameRest, AmqpRest, Failed, EnterAmqp, ReadAmqpFrame,
            ReadCallbacks
<1>1. CASE FrameEnable
  <2>1. QuietFor(Special) /\ calls' \in Seq(Calls)
    BY <1>1, <1>0, QuietDo, QuietCall
    DEF FrameEnable, Return, Running, Argument, Shapes, Quiet, Special, IoOps,
        WriterHeads, SocketHeads, ReadOps, Starts
  <2>2. ConnectionTypeOK'
    BY <1>1, <1>t
    DEF FrameEnable, ConnectionTypeOK, connVars
  <2>3. ProtocolTypeOK'
    BY <1>1, <1>t
    DEF FrameEnable, ProtocolTypeOK, protocolVars
  <2> QED
    BY <1>1, <2>1, <2>2, <2>3, Untouched
    DEF FrameEnable, Return, TypeOK, environment, connVars
<1>2. CASE FrameRead
  <2>1. QuietFor(Special) /\ calls' \in Seq(Calls)
    BY <1>2, <1>0, QuietDo, QuietCall
    DEF FrameRead, Return, Running, Argument, Shapes, Quiet, Special, IoOps,
        WriterHeads, SocketHeads, ReadOps, Starts
  <2>2. ConnectionTypeOK'
    BY <1>2, <1>t, StackTop
    DEF FrameRead, ConnectionTypeOK, connVars, Running, Argument, Calls
  <2>3. ProtocolTypeOK'
    BY <1>2, <1>t, StackTop
    DEF FrameRead, ProtocolTypeOK, protocolVars, Running, Argument, Calls
  <2> QED
    BY <1>2, <2>1, <2>2, <2>3, Untouched
    DEF FrameRead, Return, TypeOK, environment, connVars
<1>3. CASE FrameHeaderRead
  <2>1. QuietFor(Special) /\ calls' \in Seq(Calls)
    BY <1>3, <1>0, QuietDo, QuietCall
    DEF FrameHeaderRead, Return, Running, Argument, Shapes, Quiet, Special, IoOps,
        WriterHeads, SocketHeads, ReadOps, Starts, TypeOK, ProtocolTypeOK
  <2>2. ConnectionTypeOK'
    BY <1>3, FailureNoted
    DEF FrameHeaderRead, connVars
  <2>3. ProtocolTypeOK'
    BY <1>3, <1>t
    DEF FrameHeaderRead, ProtocolTypeOK, protocolVars
  <2> QED
    BY <1>3, <2>1, <2>2, <2>3, Untouched
    DEF FrameHeaderRead, Return, TypeOK, environment, connVars
<1>4. CASE FrameBodyRead
  <2>1. QuietFor(Special) /\ calls' \in Seq(Calls)
    BY <1>4, <1>0, QuietDo, QuietCall
    DEF FrameBodyRead, Return, Running, Argument, Shapes, Quiet, Special, IoOps,
        WriterHeads, SocketHeads, ReadOps, Starts, TypeOK, ProtocolTypeOK
  <2>2. ConnectionTypeOK'
    BY <1>4, FailureNoted
    DEF FrameBodyRead, connVars
  <2>3. ProtocolTypeOK'
    BY <1>4, <1>t
    DEF FrameBodyRead, ProtocolTypeOK, protocolVars
  <2> QED
    BY <1>4, <2>1, <2>2, <2>3, Untouched
    DEF FrameBodyRead, Return, TypeOK, environment, connVars
<1>5. CASE AmqpSendOpen
  <2>1. QuietFor(Special) /\ calls' \in Seq(Calls)
    BY <1>5, <1>0, QuietDo, QuietCall
    DEF AmqpSendOpen, Return, Running, Argument, Shapes, Quiet, Special, IoOps,
        WriterHeads, SocketHeads, ReadOps, Starts
  <2>2. ConnectionTypeOK'
    BY <1>5, <1>t
    DEF AmqpSendOpen, ConnectionTypeOK, connVars
  <2>3. ProtocolTypeOK'
    BY <1>5, <1>t
    DEF AmqpSendOpen, ProtocolTypeOK, protocolVars
  <2> QED
    BY <1>5, <2>1, <2>2, <2>3, Untouched
    DEF AmqpSendOpen, Return, TypeOK, environment, connVars
<1>6. CASE AmqpAwaitOpen
  <2>1. QuietFor(Special) /\ calls' \in Seq(Calls)
    BY <1>6, <1>0, QuietDo, QuietCall
    DEF AmqpAwaitOpen, Return, Running, Argument, Shapes, Quiet, Special, IoOps,
        WriterHeads, SocketHeads, ReadOps, Starts
  <2>2. ConnectionTypeOK'
    BY <1>6, <1>t
    DEF AmqpAwaitOpen, ConnectionTypeOK, connVars
  <2>3. ProtocolTypeOK'
    BY <1>6, <1>t
    DEF AmqpAwaitOpen, ProtocolTypeOK, protocolVars
  <2> QED
    BY <1>6, <2>1, <2>2, <2>3, Untouched
    DEF AmqpAwaitOpen, Return, TypeOK, environment, connVars
<1>7. CASE AmqpFrameAvailable
  <2>1. QuietFor(Special) /\ calls' \in Seq(Calls)
    BY <1>7, <1>0, QuietDo, QuietCall, QuietArgument
    DEF AmqpFrameAvailable, Return, Running, Argument, Shapes, Quiet, Special, IoOps,
        WriterHeads, SocketHeads, ReadOps, Starts
  <2>2. ConnectionTypeOK'
    BY <1>7, FailureNoted
    DEF AmqpFrameAvailable, connVars
  <2>3. ProtocolTypeOK'
    BY <1>7, <1>t
    DEF AmqpFrameAvailable, ProtocolTypeOK, protocolVars
  <2> QED
    BY <1>7, <2>1, <2>2, <2>3, Untouched
    DEF AmqpFrameAvailable, Return, TypeOK, environment, connVars
<1>8. CASE AmqpOpenRequested
  <2>1. QuietFor(Special) /\ calls' \in Seq(Calls)
    BY <1>8, <1>0, QuietDo, QuietCall
    DEF AmqpOpenRequested, Return, Running, Argument, Shapes, Quiet, Special, IoOps,
        WriterHeads, SocketHeads, ReadOps, Starts
  <2>2. ConnectionTypeOK'
    BY <1>8, <1>t
    DEF AmqpOpenRequested, ConnectionTypeOK, connVars
  <2>3. ProtocolTypeOK'
    BY <1>8, <1>t
    DEF AmqpOpenRequested, ProtocolTypeOK, protocolVars
  <2> QED
    BY <1>8, <2>1, <2>2, <2>3, Untouched
    DEF AmqpOpenRequested, Return, TypeOK, environment, connVars
<1>9. CASE AmqpOpened
  <2>1. QuietFor(Special) /\ calls' \in Seq(Calls)
    BY <1>9, <1>0, QuietDo, QuietCall, ZenonT(60)
    DEF AmqpOpened, Return, Running, Argument, Shapes, Quiet, Special, IoOps,
        WriterHeads, SocketHeads, ReadOps, Starts
  <2>2. ConnectionTypeOK'
    BY <1>9, <1>t
    DEF AmqpOpened, ConnectionTypeOK, connVars
  <2>3. ProtocolTypeOK'
    BY <1>9, <1>t
    DEF AmqpOpened, ProtocolTypeOK, protocolVars
  <2> QED
    BY <1>9, <2>1, <2>2, <2>3, Untouched
    DEF AmqpOpened, Return, TypeOK, environment, connVars
<1>10. CASE AmqpKeepAlive
  <2>1. QuietFor(Special) /\ calls' \in Seq(Calls)
    BY <1>10, <1>0, QuietDo, QuietCall
    DEF AmqpKeepAlive, Return, Running, Argument, Shapes, Quiet, Special, IoOps,
        WriterHeads, SocketHeads, ReadOps, Starts
  <2>2. ConnectionTypeOK'
    BY <1>10, <1>t
    DEF AmqpKeepAlive, ConnectionTypeOK, connVars
  <2>3. ProtocolTypeOK'
    BY <1>10, <1>t
    DEF AmqpKeepAlive, ProtocolTypeOK, protocolVars
  <2> QED
    BY <1>10, <2>1, <2>2, <2>3, Untouched
    DEF AmqpKeepAlive, Return, TypeOK, environment, connVars
<1>11. CASE BeginConnectionClose
  <2>1. QuietFor(Special) /\ calls' \in Seq(Calls)
    BY <1>11, <1>0, QuietDo, QuietCall
    DEF BeginConnectionClose, Return, Running, Argument, Shapes, Quiet, Special, IoOps,
        WriterHeads, SocketHeads, ReadOps, Starts
  <2>2. ConnectionTypeOK'
    BY <1>11, <1>t
    DEF BeginConnectionClose, ConnectionTypeOK, connVars
  <2>3. ProtocolTypeOK'
    BY <1>11, <1>t
    DEF BeginConnectionClose, ProtocolTypeOK, protocolVars
  <2> QED
    BY <1>11, <2>1, <2>2, <2>3, Untouched
    DEF BeginConnectionClose, Return, TypeOK, environment, connVars
<1>12. CASE ConnectionCloseBegun
  <2>1. QuietFor(Special) /\ calls' \in Seq(Calls)
    BY <1>12, <1>0, QuietDo, QuietCall, ZenonT(60)
    DEF ConnectionCloseBegun, Return, Running, Argument, Shapes, Quiet, Special, IoOps,
        WriterHeads, SocketHeads, ReadOps, Starts
  <2>2. ConnectionTypeOK'
    BY <1>12, <1>t
    DEF ConnectionCloseBegun, ConnectionTypeOK, connVars
  <2>3. ProtocolTypeOK'
    BY <1>12, <1>t
    DEF ConnectionCloseBegun, ProtocolTypeOK, protocolVars
  <2> QED
    BY <1>12, <2>1, <2>2, <2>3, Untouched
    DEF ConnectionCloseBegun, Return, TypeOK, environment, connVars
<1>13. CASE IdleTimeout
  <2>1. QuietFor(Special) /\ calls' \in Seq(Calls)
    BY <1>13, <1>0, QuietDo, QuietCall
    DEF IdleTimeout, Return, Running, Argument, Shapes, Quiet, Special, IoOps,
        WriterHeads, SocketHeads, ReadOps, Starts
  <2>2. ConnectionTypeOK'
    BY <1>13, <1>t
    DEF IdleTimeout, ConnectionTypeOK, connVars
  <2>3. ProtocolTypeOK'
    BY <1>13, <1>t
    DEF IdleTimeout, ProtocolTypeOK, protocolVars
  <2> QED
    BY <1>13, <2>1, <2>2, <2>3, Untouched
    DEF IdleTimeout, Return, TypeOK, environment, connVars
<1>14. CASE AmqpClosed
  <2>1. QuietFor(Special) /\ calls' \in Seq(Calls)
    BY <1>14, <1>0, QuietDo, QuietCall
    DEF AmqpClosed, Return, Running, Argument, Shapes, Quiet, Special, IoOps,
        WriterHeads, SocketHeads, ReadOps, Starts
  <2>2. ConnectionTypeOK'
    BY <1>14, <1>t
    DEF AmqpClosed, ConnectionTypeOK, connVars
  <2>3. ProtocolTypeOK'
    BY <1>14, <1>t
    DEF AmqpClosed, ProtocolTypeOK, protocolVars
  <2> QED
    BY <1>14, <2>1, <2>2, <2>3, Untouched
    DEF AmqpClosed, Return, TypeOK, environment, connVars
<1>15. CASE TimeoutWhileClosed
  <2>1. QuietFor(Special) /\ calls' \in Seq(Calls)
    BY <1>15, <1>0, QuietDo, QuietCall
    DEF TimeoutWhileClosed, Return, Running, Argument, Shapes, Quiet, Special, IoOps,
        WriterHeads, SocketHeads, ReadOps, Starts
  <2>2. ConnectionTypeOK'
    BY <1>15, <1>t
    DEF TimeoutWhileClosed, ConnectionTypeOK, connVars
  <2>3. ProtocolTypeOK'
    BY <1>15, <1>t
    DEF TimeoutWhileClosed, ProtocolTypeOK, protocolVars
  <2> QED
    BY <1>15, <2>1, <2>2, <2>3, Untouched
    DEF TimeoutWhileClosed, Return, TypeOK, environment, connVars
<1>16. CASE AmqpOutOfSequence
  <2>1. QuietFor(Special) /\ calls' \in Seq(Calls)
    BY <1>16, <1>0, QuietDo, QuietCall
    DEF AmqpOutOfSequence, Return, Running, Argument, Shapes, Quiet, Special, IoOps,
        WriterHeads, SocketHeads, ReadOps, Starts
  <2>2. ConnectionTypeOK'
    BY <1>16, <1>t
    DEF AmqpOutOfSequence, ConnectionTypeOK, connVars
  <2>3. ProtocolTypeOK'
    BY <1>16, <1>t
    DEF AmqpOutOfSequence, ProtocolTypeOK, protocolVars
  <2> QED
    BY <1>16, <2>1, <2>2, <2>3, Untouched
    DEF AmqpOutOfSequence, Return, TypeOK, environment, connVars
<1> QED  BY <1>1, <1>2, <1>3, <1>4, <1>5, <1>6, <1>7, <1>8, <1>9, <1>10, <1>11, <1>12,
            <1>13, <1>14, <1>15, <1>16 DEF AmqpStep
=============================================================================
