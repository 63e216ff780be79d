------------------------- MODULE ConnectionIoProofs -------------------------
(***************************************************************************)
(* The socket, the writer and the reader: the invariant of each, kept by its *)
(* own steps and by the steps that leave it alone.                         *)
(***************************************************************************)
EXTENDS ConnectionCalls, ConnectionSocket, ConnectionWrite, ConnectionRead

\* A buffer is queued only while the writer works on it.
Buffered == output = 1 => writer \in {"writing", "stopping"}

\* The socket.
LEMMA SocketQuiet ==
    TypeOK /\ SocketStep
        => TypeOK' /\ QuietFor(NotSocket) /\ UNCHANGED <<connVars, writeVars, readVars>>
<1> SUFFICES ASSUME TypeOK, SocketStep
             PROVE  TypeOK' /\ QuietFor(NotSocket) /\ UNCHANGED <<connVars, writeVars, readVars>>
  OBVIOUS
<1>0. calls # <<>> /\ Head(calls).op \notin NotSocket /\ UNCHANGED fatal => Shapes(NotSocket)
  BY StackTop, QuietReturn
<1>t. ConnectionTypeOK /\ SocketTypeOK /\ WriterTypeOK /\ ReaderTypeOK /\ ProtocolTypeOK
  BY DEF TypeOK
<1> USE DEF machines, ioVars, AttemptFailed, cleanup_everything
<1>1. CASE SocketConnect
  <2>1. QuietFor(NotSocket) /\ calls' \in Seq(Calls)
    BY <1>1, <1>0, IoCalls, QuietDo
    DEF SocketConnect, Return, Running, Argument, Shapes, NotSocket, Special, IoOps,
        WriterHeads, SocketHeads, ReadOps, Starts
  <2>2. SocketTypeOK'
    BY <1>1, <1>t, MaxAddressesAssumption
    DEF SocketConnect, SocketTypeOK, socketVars
  <2> QED
    BY <1>1, <2>1, <2>2, Untouched, MaxAddressesAssumption
    DEF SocketConnect, Return, TypeOK, environment, connVars
<1>2. CASE SocketTryConnect
  <2>1. QuietFor(NotSocket) /\ calls' \in Seq(Calls)
    BY <1>2, <1>0, IoCalls, QuietDo
    DEF SocketTryConnect, Return, Running, Argument, Shapes, NotSocket, Special, IoOps,
        WriterHeads, SocketHeads, ReadOps, Starts
  <2>2. SocketTypeOK'
    <3>1. (socket \in {"initialized", "resolving", "aborting_lookup", "connecting", "connected", "accepted", "stopped", "failed"})'
      BY <1>2, <1>t, MaxAddressesAssumption DEF SocketTryConnect, SocketTypeOK,
         socketVars
    <3>2. (fd \in BOOLEAN)'
      BY <1>2, <1>t, MaxAddressesAssumption DEF SocketTryConnect, SocketTypeOK,
         socketVars
    <3>3. (addresses \in 0 .. MaxAddresses)'
      BY <1>2, <1>t, MaxAddressesAssumption DEF SocketTryConnect, SocketTypeOK,
         socketVars
    <3>4. (connectWatch \in BOOLEAN)'
      BY <1>2, <1>t, MaxAddressesAssumption DEF SocketTryConnect, SocketTypeOK,
         socketVars
    <3> QED  BY <3>1, <3>2, <3>3, <3>4 DEF SocketTypeOK
  <2> QED
    BY <1>2, <2>1, <2>2, Untouched, MaxAddressesAssumption
    DEF SocketTryConnect, Return, TypeOK, environment, connVars
<1>3. CASE ConnectOutcome
  <2>1. QuietFor(NotSocket) /\ calls' \in Seq(Calls)
    BY <1>3, <1>0, IoCalls, QuietDo
    DEF ConnectOutcome, Return, Running, Argument, Shapes, NotSocket, Special, IoOps,
        WriterHeads, SocketHeads, ReadOps, Starts
  <2>2. SocketTypeOK'
    BY <1>3, <1>t
    DEF ConnectOutcome, SocketTypeOK, socketVars
  <2> QED
    BY <1>3, <2>1, <2>2, Untouched
    DEF ConnectOutcome, Return, TypeOK, environment, connVars
<1>4. CASE SocketDone
  <2>1. QuietFor(NotSocket) /\ calls' \in Seq(Calls)
    BY <1>4, <1>0, IoCalls, QuietDo
    DEF SocketDone, Return, Running, Argument, Shapes, NotSocket, Special, IoOps,
        WriterHeads, SocketHeads, ReadOps, Starts
  <2>2. SocketTypeOK'
    BY <1>4, <1>t, MaxAddressesAssumption
    DEF SocketDone, SocketTypeOK, socketVars
  <2> QED
    BY <1>4, <2>1, <2>2, Untouched, MaxAddressesAssumption
    DEF SocketDone, Return, TypeOK, environment, connVars
<1>5. CASE SocketFail
  <2>1. QuietFor(NotSocket) /\ calls' \in Seq(Calls)
    BY <1>5, <1>0, IoCalls, QuietDo
    DEF SocketFail, Return, Running, Argument, Shapes, NotSocket, Special, IoOps,
        WriterHeads, SocketHeads, ReadOps, Starts
  <2>2. SocketTypeOK'
    <3>1. (socket \in {"initialized", "resolving", "aborting_lookup", "connecting", "connected", "accepted", "stopped", "failed"})'
      BY <1>5, <1>t, MaxAddressesAssumption DEF SocketFail, SocketTypeOK, socketVars
    <3>2. (fd \in BOOLEAN)'
      BY <1>5, <1>t, MaxAddressesAssumption DEF SocketFail, SocketTypeOK, socketVars
    <3>3. (addresses \in 0 .. MaxAddresses)'
      BY <1>5, <1>t, MaxAddressesAssumption DEF SocketFail, SocketTypeOK, socketVars
    <3>4. (connectWatch \in BOOLEAN)'
      BY <1>5, <1>t, MaxAddressesAssumption DEF SocketFail, SocketTypeOK, socketVars
    <3> QED  BY <3>1, <3>2, <3>3, <3>4 DEF SocketTypeOK
  <2> QED
    BY <1>5, <2>1, <2>2, Untouched, MaxAddressesAssumption
    DEF SocketFail, Return, TypeOK, environment, connVars
<1>6. CASE SocketShutdown
  <2>1. QuietFor(NotSocket) /\ calls' \in Seq(Calls)
    BY <1>6, <1>0, IoCalls, QuietDo
    DEF SocketShutdown, Return, Running, Argument, Shapes, NotSocket, Special, IoOps,
        WriterHeads, SocketHeads, ReadOps, Starts
  <2>2. SocketTypeOK'
    <3>1. (socket \in {"initialized", "resolving", "aborting_lookup", "connecting", "connected", "accepted", "stopped", "failed"})'
      BY <1>6, <1>t, MaxAddressesAssumption DEF SocketShutdown, SocketTypeOK, socketVars
    <3>2. (fd \in BOOLEAN)'
      BY <1>6, <1>t, MaxAddressesAssumption DEF SocketShutdown, SocketTypeOK, socketVars
    <3>3. (addresses \in 0 .. MaxAddresses)'
      BY <1>6, <1>t, MaxAddressesAssumption DEF SocketShutdown, SocketTypeOK, socketVars
    <3>4. (connectWatch \in BOOLEAN)'
      BY <1>6, <1>t, MaxAddressesAssumption DEF SocketShutdown, SocketTypeOK, socketVars
    <3> QED  BY <3>1, <3>2, <3>3, <3>4 DEF SocketTypeOK
  <2> QED
    BY <1>6, <2>1, <2>2, Untouched, MaxAddressesAssumption
    DEF SocketShutdown, Return, TypeOK, environment, connVars
<1> QED  BY <1>1, <1>2, <1>3, <1>4, <1>5, <1>6 DEF SocketStep

\* The writer, once it is enabled.  Buffered is needed for the type of output.
LEMMA WriterQuiet ==
    TypeOK /\ Buffered /\ WriterStep
        => WriterEnable \/ (TypeOK' /\ QuietFor(NotWriter) /\ UNCHANGED <<conn, destroyed, socketVars, readVars>>)
<1> SUFFICES ASSUME TypeOK, Buffered, WriterStep
             PROVE  WriterEnable \/ (TypeOK' /\ QuietFor(NotWriter) /\ UNCHANGED <<conn, destroyed, socketVars, readVars>>)
  OBVIOUS
<1>0. calls # <<>> /\ Head(calls).op \notin NotWriter /\ UNCHANGED fatal => Shapes(NotWriter)
  BY StackTop, QuietReturn
<1>t. ConnectionTypeOK /\ SocketTypeOK /\ WriterTypeOK /\ ReaderTypeOK /\ ProtocolTypeOK
  BY DEF TypeOK
<1> USE DEF machines, ioVars, WriterActive, cleanup_write_resources,
            call_done_callback, Watches, Buffered
<1>1. CASE WriterWrite
  <2>1. QuietFor(NotWriter) /\ calls' \in Seq(Calls)
    BY <1>1, <1>0, IoCalls, QuietDo
    DEF WriterWrite, Return, Running, Argument, Shapes, NotWriter, Special, IoOps,
        WriterHeads, SocketHeads, ReadOps, Starts
  <2>2. ConnectionTypeOK'
    BY <1>1, <1>t
    DEF WriterWrite, ConnectionTypeOK, connVars
  <2>3. WriterTypeOK'
    BY <1>1, <1>t
    DEF WriterWrite, WriterTypeOK, writeVars
  <2> QED
    BY <1>1, <2>1, <2>2, <2>3, Untouched
    DEF WriterWrite, Return, TypeOK, environment, connVars
<1>2. CASE WriteAll
  <2>1. QuietFor(NotWriter) /\ calls' \in Seq(Calls)
    BY <1>2, <1>0, IoCalls, QuietDo
    DEF WriteAll, Return, Running, Argument, Shapes, NotWriter, Special, IoOps,
        WriterHeads, SocketHeads, ReadOps, Starts
  <2>2. ConnectionTypeOK'
    BY <1>2, <1>t
    DEF WriteAll, ConnectionTypeOK, connVars
  <2>3. WriterTypeOK'
    BY <1>2, <1>t
    DEF WriteAll, WriterTypeOK, writeVars
  <2> QED
    BY <1>2, <2>1, <2>2, <2>3, Untouched
    DEF WriteAll, Return, TypeOK, environment, connVars
<1>3. CASE WriteWouldBlock
  <2>1. QuietFor(NotWriter) /\ calls' \in Seq(Calls)
    BY <1>3, <1>0, IoCalls, QuietDo
    DEF WriteWouldBlock, Return, Running, Argument, Shapes, NotWriter, Special, IoOps,
        WriterHeads, SocketHeads, ReadOps, Starts
  <2>2. ConnectionTypeOK'
    BY <1>3, <1>t
    DEF WriteWouldBlock, ConnectionTypeOK, connVars
  <2>3. WriterTypeOK'
    BY <1>3, <1>t
    DEF WriteWouldBlock, WriterTypeOK, writeVars
  <2> QED
    BY <1>3, <2>1, <2>2, <2>3, Untouched
    DEF WriteWouldBlock, Return, TypeOK, environment, connVars
<1>4. CASE WriteError
  <2>1. QuietFor(NotWriter) /\ calls' \in Seq(Calls)
    BY <1>4, <1>0, IoCalls, QuietDo
    DEF WriteError, Return, Running, Argument, Shapes, NotWriter, Special, IoOps,
        WriterHeads, SocketHeads, ReadOps, Starts
  <2>2. ConnectionTypeOK'
    BY <1>4, <1>t
    DEF WriteError, ConnectionTypeOK, connVars
  <2>3. WriterTypeOK'
    BY <1>4, <1>t
    DEF WriteError, WriterTypeOK, writeVars
  <2> QED
    BY <1>4, <2>1, <2>2, <2>3, Untouched
    DEF WriteError, Return, TypeOK, environment, connVars
<1>5. CASE WriteComplete
  <2>1. QuietFor(NotWriter) /\ calls' \in Seq(Calls)
    BY <1>5, <1>0, IoCalls, QuietDo
    DEF WriteComplete, Return, Running, Argument, Shapes, NotWriter, Special, IoOps,
        WriterHeads, SocketHeads, ReadOps, Starts
  <2>2. ConnectionTypeOK'
    BY <1>5, <1>t
    DEF WriteComplete, ConnectionTypeOK, connVars
  <2>3. WriterTypeOK'
    BY <1>5, <1>t
    DEF WriteComplete, WriterTypeOK, writeVars
  <2> QED
    BY <1>5, <2>1, <2>2, <2>3, Untouched
    DEF WriteComplete, Return, TypeOK, environment, connVars
<1>6. CASE WriterContinue
  <2>1. QuietFor(NotWriter) /\ calls' \in Seq(Calls)
    BY <1>6, <1>0, IoCalls, QuietDo
    DEF WriterContinue, Return, Running, Argument, Shapes, NotWriter, Special, IoOps,
        WriterHeads, SocketHeads, ReadOps, Starts
  <2>2. ConnectionTypeOK'
    BY <1>6, <1>t
    DEF WriterContinue, ConnectionTypeOK, connVars
  <2>3. WriterTypeOK'
    BY <1>6, <1>t
    DEF WriterContinue, WriterTypeOK, writeVars
  <2> QED
    BY <1>6, <2>1, <2>2, <2>3, Untouched
    DEF WriterContinue, Return, TypeOK, environment, connVars
<1>7. CASE WriterFail
  <2>1. QuietFor(NotWriter) /\ calls' \in Seq(Calls)
    BY <1>7, <1>0, IoCalls, QuietDo
    DEF WriterFail, Return, Running, Argument, Shapes, NotWriter, Special, IoOps,
        WriterHeads, SocketHeads, ReadOps, Starts
  <2>2. ConnectionTypeOK'
    BY <1>7, <1>t
    DEF WriterFail, ConnectionTypeOK, connVars
  <2>3. WriterTypeOK'
    BY <1>7, <1>t
    DEF WriterFail, WriterTypeOK, writeVars
  <2> QED
    BY <1>7, <2>1, <2>2, <2>3, Untouched
    DEF WriterFail, Return, TypeOK, environment, connVars
<1>8. CASE WriterStop
  <2>1. QuietFor(NotWriter) /\ calls' \in Seq(Calls)
    BY <1>8, <1>0, IoCalls, QuietDo
    DEF WriterStop, Return, Running, Argument, Shapes, NotWriter, Special, IoOps,
        WriterHeads, SocketHeads, ReadOps, Starts
  <2>2. ConnectionTypeOK'
    BY <1>8, <1>t
    DEF WriterStop, ConnectionTypeOK, connVars
  <2>3. WriterTypeOK'
    <3>1. (writer \in {"initialized", "enabled", "writing", "stopping", "stopped", "failed"})'
      BY <1>8, <1>t DEF WriterStop, WriterTypeOK, writeVars
    <3>2. (writeWatch \in Watches)'
      BY <1>8, <1>t DEF WriterStop, WriterTypeOK, writeVars
    <3>3. (output \in 0 .. 1)'
      BY <1>8, <1>t DEF WriterStop, WriterTypeOK, writeVars
    <3>4. (stopCallback \in BOOLEAN)'
      BY <1>8, <1>t DEF WriterStop, WriterTypeOK, writeVars
    <3> QED  BY <3>1, <3>2, <3>3, <3>4 DEF WriterTypeOK
  <2> QED
    BY <1>8, <2>1, <2>2, <2>3, Untouched
    DEF WriterStop, Return, TypeOK, environment, connVars
<1>9. CASE WriterAbort
  <2>1. QuietFor(NotWriter) /\ calls' \in Seq(Calls)
    BY <1>9, <1>0, IoCalls, QuietDo
    DEF WriterAbort, Return, Running, Argument, Shapes, NotWriter, Special, IoOps,
        WriterHeads, SocketHeads, ReadOps, Starts
  <2>2. ConnectionTypeOK'
    BY <1>9, <1>t
    DEF WriterAbort, ConnectionTypeOK, connVars
  <2>3. WriterTypeOK'
    BY <1>9, <1>t
    DEF WriterAbort, WriterTypeOK, writeVars
  <2> QED
    BY <1>9, <2>1, <2>2, <2>3, Untouched
    DEF WriterAbort, Return, TypeOK, environment, connVars
<1>10. CASE WriterEnable
  BY <1>10
<1> QED  BY <1>1, <1>2, <1>3, <1>4, <1>5, <1>6, <1>7, <1>8, <1>9, <1>10 DEF WriterStep

\* The reader, once it is enabled.
LEMMA ReaderQuiet ==
    TypeOK /\ ReaderStep
        => ReaderEnable \/ (TypeOK' /\ QuietFor(NotReader) /\ UNCHANGED <<conn, destroyed, socketVars, writeVars>>)
<1> SUFFICES ASSUME TypeOK, ReaderStep
             PROVE  ReaderEnable \/ (TypeOK' /\ QuietFor(NotReader) /\ UNCHANGED <<conn, destroyed, socketVars, writeVars>>)
  OBVIOUS
<1>0. calls # <<>> /\ Head(calls).op \notin NotReader /\ UNCHANGED fatal => Shapes(NotReader)
  BY StackTop, QuietReturn
<1>t. ConnectionTypeOK /\ SocketTypeOK /\ WriterTypeOK /\ ReaderTypeOK /\ ProtocolTypeOK
  BY DEF TypeOK
<1> USE DEF machines, ioVars, ReaderActive, cleanup_reader, Watches
<1>1. CASE CommenceRead
  <2>1. QuietFor(NotReader) /\ calls' \in Seq(Calls)
    BY <1>1, <1>0, IoCalls, QuietDo, QuietArgument, StackTop
    DEF CommenceRead, Return, Running, Argument, Shapes, NotReader, Special, IoOps,
        WriterHeads, SocketHeads, ReadOps, Starts, TypeOK, ReaderTypeOK, ReadCallbacks, ReadReturns, Calls
  <2>2. ConnectionTypeOK'
    BY <1>1, <1>t, StackTop
    DEF CommenceRead, ConnectionTypeOK, connVars, Running, Argument, Calls
  <2>3. ReaderTypeOK'
    BY <1>1, <1>t, StackTop
    DEF CommenceRead, ReaderTypeOK, readVars, Running, Argument, Calls
  <2> QED
    BY <1>1, <2>1, <2>2, <2>3, Untouched
    DEF CommenceRead, Return, TypeOK, environment, connVars
<1>2. CASE ReadAll
  <2>1. QuietFor(NotReader) /\ calls' \in Seq(Calls)
    BY <1>2, <1>0, IoCalls, QuietDo, QuietArgument, StackTop
    DEF ReadAll, Return, Running, Argument, Shapes, NotReader, Special, IoOps,
        WriterHeads, SocketHeads, ReadOps, Starts, TypeOK, ReaderTypeOK, ReadCallbacks, ReadReturns, Calls
  <2>2. ConnectionTypeOK'
    BY <1>2, <1>t
    DEF ReadAll, ConnectionTypeOK, connVars
  <2>3. ReaderTypeOK'
    BY <1>2, <1>t
    DEF ReadAll, ReaderTypeOK, readVars
  <2> QED
    BY <1>2, <2>1, <2>2, <2>3, Untouched
    DEF ReadAll, Return, TypeOK, environment, connVars
<1>3. CASE ReadWouldBlock
  <2>1. QuietFor(NotReader) /\ calls' \in Seq(Calls)
    BY <1>3, <1>0, IoCalls, QuietDo
    DEF ReadWouldBlock, Return, Running, Argument, Shapes, NotReader, Special, IoOps,
        WriterHeads, SocketHeads, ReadOps, Starts
  <2>2. ConnectionTypeOK'
    BY <1>3, <1>t
    DEF ReadWouldBlock, ConnectionTypeOK, connVars
  <2>3. ReaderTypeOK'
    BY <1>3, <1>t
    DEF ReadWouldBlock, ReaderTypeOK, readVars
  <2> QED
    BY <1>3, <2>1, <2>2, <2>3, Untouched
    DEF ReadWouldBlock, Return, TypeOK, environment, connVars
<1>4. CASE ReadEof
  <2>1. QuietFor(NotReader) /\ calls' \in Seq(Calls)
    BY <1>4, <1>0, IoCalls, QuietDo, QuietArgument
    DEF ReadEof, Return, Running, Argument, Shapes, NotReader, Special, IoOps,
        WriterHeads, SocketHeads, ReadOps, Starts, TypeOK, ReaderTypeOK, ReadCallbacks, ReadReturns, Calls
  <2>2. ConnectionTypeOK'
    <3>1. (conn \in ClientStates \cup ServerStates \cup ShutdownStates \cup HaltedStates)'
      BY <1>4, <1>t DEF ReadEof, ConnectionTypeOK, connVars
    <3>2. (onShutdown \in {"default", "do_nothing", "application_close", "in_progress"})'
      BY <1>4, <1>t DEF ReadEof, ConnectionTypeOK, connVars
    <3>3. (onTimeout \in {"default", "stopping_output", "draining_input", "opened", "close_sent", "closed"})'
      BY <1>4, <1>t DEF ReadEof, ConnectionTypeOK, connVars
    <3>4. (mode \in {"unset", "drain", "close", "abort"})'
      BY <1>4, <1>t DEF ReadEof, ConnectionTypeOK, connVars
    <3>5. (timer \in BOOLEAN)'
      BY <1>4, <1>t DEF ReadEof, ConnectionTypeOK, connVars
    <3>6. (flags \subseteq {"running", "socket_connected", "tls_connected", "sasl_connected", "amqp_connected", "is_client", "is_open", "is_closing"})'
      BY <1>4, <1>t DEF ReadEof, ConnectionTypeOK, connVars
    <3>7. (failures \subseteq {"sasl_rejected", "amqp_rejected", "read_error", "write_error", "read_eof", "sasl_error", "amqp_error"})'
      BY <1>4, <1>t DEF ReadEof, ConnectionTypeOK, connVars
    <3>8. (halts \in 0 .. MaxHalts)'
      BY <1>4, <1>t DEF ReadEof, ConnectionTypeOK, connVars
    <3>9. (destroyed \in BOOLEAN)'
      BY <1>4, <1>t DEF ReadEof, ConnectionTypeOK, connVars
    <3> QED  BY <3>1, <3>2, <3>3, <3>4, <3>5, <3>6, <3>7, <3>8,
                <3>9 DEF ConnectionTypeOK
  <2>3. ReaderTypeOK'
    BY <1>4, <1>t
    DEF ReadEof, ReaderTypeOK, readVars
  <2> QED
    BY <1>4, <2>1, <2>2, <2>3, Untouched
    DEF ReadEof, Return, TypeOK, environment, connVars
<1>5. CASE ReadError
  <2>1. QuietFor(NotReader) /\ calls' \in Seq(Calls)
    BY <1>5, <1>0, IoCalls, QuietDo, ZenonT(60)
    DEF ReadError, Return, Running, Argument, Shapes, NotReader, Special, IoOps,
        WriterHeads, SocketHeads, ReadOps, Starts
  <2>2. ConnectionTypeOK'
    BY <1>5, <1>t
    DEF ReadError, ConnectionTypeOK, connVars
  <2>3. ReaderTypeOK'
    BY <1>5, <1>t
    DEF ReadError, ReaderTypeOK, readVars
  <2> QED
    BY <1>5, <2>1, <2>2, <2>3, Untouched
    DEF ReadError, Return, TypeOK, environment, connVars
<1>6. CASE DelayedRead
  <2>1. QuietFor(NotReader) /\ calls' \in Seq(Calls)
    BY <1>6, <1>0, IoCalls, QuietDo
    DEF DelayedRead, Return, Running, Argument, Shapes, NotReader, Special, IoOps,
        WriterHeads, SocketHeads, ReadOps, Starts, ReadReturns
  <2>2. ConnectionTypeOK'
    BY <1>6, <1>t
    DEF DelayedRead, ConnectionTypeOK, connVars
  <2>3. ReaderTypeOK'
    BY <1>6, <1>t
    DEF DelayedRead, ReaderTypeOK, readVars
  <2> QED
    BY <1>6, <2>1, <2>2, <2>3, Untouched
    DEF DelayedRead, Return, TypeOK, environment, connVars
<1>7. CASE DelayedReadIgnored
  <2>1. QuietFor(NotReader) /\ calls' \in Seq(Calls)
    BY <1>7, <1>0, IoCalls, QuietDo
    DEF DelayedReadIgnored, Return, Running, Argument, Shapes, NotReader, Special,
        IoOps, WriterHeads, SocketHeads, ReadOps, Starts
  <2>2. ConnectionTypeOK'
    BY <1>7, <1>t
    DEF DelayedReadIgnored, ConnectionTypeOK, connVars
  <2>3. ReaderTypeOK'
    BY <1>7, <1>t
    DEF DelayedReadIgnored, ReaderTypeOK, readVars
  <2> QED
    BY <1>7, <2>1, <2>2, <2>3, Untouched
    DEF DelayedReadIgnored, Return, TypeOK, environment, connVars
<1>8. CASE ReaderContinue
  <2>1. QuietFor(NotReader) /\ calls' \in Seq(Calls)
    BY <1>8, <1>0, IoCalls, QuietDo
    DEF ReaderContinue, Return, Running, Argument, Shapes, NotReader, Special, IoOps,
        WriterHeads, SocketHeads, ReadOps, Starts, ReadReturns
  <2>2. ConnectionTypeOK'
    BY <1>8, <1>t
    DEF ReaderContinue, ConnectionTypeOK, connVars
  <2>3. ReaderTypeOK'
    BY <1>8, <1>t
    DEF ReaderContinue, ReaderTypeOK, readVars
  <2> QED
    BY <1>8, <2>1, <2>2, <2>3, Untouched
    DEF ReaderContinue, Return, TypeOK, environment, connVars
<1>9. CASE ReaderReset
  <2>1. QuietFor(NotReader) /\ calls' \in Seq(Calls)
    BY <1>9, <1>0, IoCalls, QuietDo
    DEF ReaderReset, Return, Running, Argument, Shapes, NotReader, Special, IoOps,
        WriterHeads, SocketHeads, ReadOps, Starts
  <2>2. ConnectionTypeOK'
    BY <1>9, <1>t
    DEF ReaderReset, ConnectionTypeOK, connVars
  <2>3. ReaderTypeOK'
    BY <1>9, <1>t
    DEF ReaderReset, ReaderTypeOK, readVars
  <2> QED
    BY <1>9, <2>1, <2>2, <2>3, Untouched
    DEF ReaderReset, Return, TypeOK, environment, connVars
<1>10. CASE ReaderStop
  <2>1. QuietFor(NotReader) /\ calls' \in Seq(Calls)
    BY <1>10, <1>0, IoCalls, QuietDo
    DEF ReaderStop, Return, Running, Argument, Shapes, NotReader, Special, IoOps,
        WriterHeads, SocketHeads, ReadOps, Starts
  <2>2. ConnectionTypeOK'
    BY <1>10, <1>t
    DEF ReaderStop, ConnectionTypeOK, connVars
  <2>3. ReaderTypeOK'
    BY <1>10, <1>t
    DEF ReaderStop, ReaderTypeOK, readVars
  <2> QED
    BY <1>10, <2>1, <2>2, <2>3, Untouched
    DEF ReaderStop, Return, TypeOK, environment, connVars
<1>11. CASE ReaderFail
  <2>1. QuietFor(NotReader) /\ calls' \in Seq(Calls)
    BY <1>11, <1>0, IoCalls, QuietDo
    DEF ReaderFail, Return, Running, Argument, Shapes, NotReader, Special, IoOps,
        WriterHeads, SocketHeads, ReadOps, Starts
  <2>2. ConnectionTypeOK'
    BY <1>11, <1>t
    DEF ReaderFail, ConnectionTypeOK, connVars
  <2>3. ReaderTypeOK'
    BY <1>11, <1>t
    DEF ReaderFail, ReaderTypeOK, readVars
  <2> QED
    BY <1>11, <2>1, <2>2, <2>3, Untouched
    DEF ReaderFail, Return, TypeOK, environment, connVars
<1>12. CASE ReaderEnable
  BY <1>12
<1> QED  BY <1>1, <1>2, <1>3, <1>4, <1>5, <1>6, <1>7, <1>8, <1>9, <1>10, <1>11,
            <1>12 DEF ReaderStep

-----------------------------------------------------------------------------
\* The calls that write are made at the end of their handlers, so they are never
\* beneath another one; a buffer whose watcher is not started has such a call.
WriterInv ==
    /\ ~Nested(WriterHeads)
    /\ ~destroyed => (WriterActive <=> writeWatch # "none")
    /\ writeWatch = "active" => output = 1
    /\ Buffered
    /\ Running("write") => writeWatch # "active"
    /\ Running("writer.write_complete") => output = 0
    /\ ~Over /\ writer \in {"writing", "stopping"}
          => writeWatch = "active" \/ HeadIn(WriterHeads)

\* A handler that neither is nor makes a call that writes, and leaves the
\* writer alone, keeps the writer's invariant.
LEMMA WriterFrame ==
    TypeOK /\ StackInv /\ WriterInv /\ QuietFor(WriterHeads)
           /\ UNCHANGED <<destroyed, writeVars>> /\ calls' \in Seq(Calls)
        => WriterInv'
<1> SUFFICES ASSUME TypeOK, StackInv, WriterInv, QuietFor(WriterHeads),
                    UNCHANGED <<destroyed, writeVars>>, calls' \in Seq(Calls)
             PROVE  WriterInv'
  OBVIOUS
<1>1. NoCall(WriterHeads)' /\ ~HeadIn(WriterHeads)
  BY Returned DEF WriterInv
<1>2. ~Nested(WriterHeads)' /\ ~HeadIn(WriterHeads)'
  BY <1>1, NoCallHead DEF NoCall, Nested, HeadIn
<1>3. ~Running("write")' /\ ~Running("writer.write_complete")'
  BY <1>2 DEF Running, HeadIn, WriterHeads
<1>4. UNCHANGED fatal
  BY DEF QuietFor
<1> QED  BY <1>1, <1>2, <1>3, <1>4 DEF WriterInv, WriterActive, Buffered, Over,
            writeVars

\* What is at the head of the stack after the writer made the call op last.
LEMMA WriterPushed ==
    ASSUME TypeOK, calls # <<>>, ~Nested(WriterHeads), NEW op \in WriterHeads,
           calls' = <<Do(op)>> \o Tail(calls)
    PROVE  ~Nested(WriterHeads)' /\ HeadIn(WriterHeads)' /\ \A o : Running(o)' => o = op
<1>1. Do(op) \in Calls /\ Do(op).op = op
  BY DEF WriterHeads, Do, Call, Calls, Operations, Arguments
<1>2. calls' # <<>> /\ Head(calls') = Do(op) /\ Tail(calls') = Tail(calls)
  BY <1>1, Pushed
<1> QED  BY <1>1, <1>2, ZenonT(60) DEF Nested, HeadIn, Running

\* Each step of the writer keeps its invariant.
LEMMA WriterStepInv ==
    TypeOK /\ StackInv /\ WriterInv /\ WriterStep => WriterInv'
<1> SUFFICES ASSUME TypeOK, StackInv, WriterInv, WriterStep
             PROVE  WriterInv'
  OBVIOUS
<1>a. ~Nested(WriterHeads) /\ (calls # <<>> => fatal = "no" /\ ~destroyed)
  BY DEF WriterInv, StackInv, Over
<1>b. Buffered /\ output \in 0 .. 1 /\ writeWatch \in Watches
  BY DEF WriterInv, TypeOK, WriterTypeOK
<1>c. ASSUME \/ calls' = <<>> \o Tail(calls)
             \/ calls' = <<Do("connection.done")>> \o Tail(calls)
             \/ calls' = <<Do("connection.fail")>> \o Tail(calls),
             calls # <<>>
      PROVE  /\ ~Nested(WriterHeads)' /\ ~HeadIn(WriterHeads)'
             /\ ~Running("write")' /\ ~Running("writer.write_complete")'
  <2>1. WriterHeads \subseteq Special
    BY DEF Special, IoOps
  <2>2. ~Nested(WriterHeads)' /\ ~HeadIn(WriterHeads)'
    BY <1>a, <1>c, <2>1, QuietDo, ReturnedFrom
  <2> QED  BY <2>2 DEF Running, HeadIn, WriterHeads
<1> USE DEF WriterInv, Buffered, WriterActive, Over, connVars, cleanup_write_resources,
            call_done_callback
<1>1. CASE WriterWrite
  <2>1. calls # <<>> /\ calls' = <<Do("write")>> \o Tail(calls)
    BY <1>1 DEF WriterWrite, Running, Return
  <2>2. ~Nested(WriterHeads)' /\ HeadIn(WriterHeads)' /\ \A o : Running(o)' => o = "write"
    BY <2>1, <1>a, WriterPushed DEF WriterHeads
  <2> QED  BY <1>1, <1>a, <1>b, <2>1, <2>2 DEF WriterWrite, Running, Return, machines,
              ioVars, writeVars, HeadIn, WriterHeads
<1>2. CASE WriteAll
  <2>1. calls # <<>> /\ calls' = <<Do("writer.write_complete")>> \o Tail(calls)
    BY <1>2 DEF WriteAll, Running, Return
  <2>2. ~Nested(WriterHeads)' /\ HeadIn(WriterHeads)' /\ \A o : Running(o)' => o = "writer.write_complete"
    BY <2>1, <1>a, WriterPushed DEF WriterHeads
  <2> QED  BY <1>2, <1>a, <1>b, <2>1, <2>2 DEF WriteAll, Running, Return, machines,
              ioVars, writeVars, HeadIn, WriterHeads
<1>3. CASE WriteWouldBlock
  <2>1. calls # <<>> /\ (\/ calls' = <<>> \o Tail(calls)
                          \/ calls' = <<Do("connection.done")>> \o Tail(calls)
                          \/ calls' = <<Do("connection.fail")>> \o Tail(calls))
    BY <1>3 DEF WriteWouldBlock, Running, Return
  <2>2. /\ ~Nested(WriterHeads)' /\ ~HeadIn(WriterHeads)'
        /\ ~Running("write")' /\ ~Running("writer.write_complete")'
    BY <2>1, <1>c
  <2> QED  BY <1>3, <1>a, <1>b, <2>1, <2>2 DEF WriteWouldBlock, Running, Return,
              HeadIn, WriterHeads, Watches
<1>4. CASE WriteError
  <2>1. calls # <<>> /\ calls' = <<Do("writer.fail")>> \o Tail(calls)
    BY <1>4 DEF WriteError, Running, Return
  <2>2. ~Nested(WriterHeads)' /\ HeadIn(WriterHeads)' /\ \A o : Running(o)' => o = "writer.fail"
    BY <2>1, <1>a, WriterPushed DEF WriterHeads
  <2> QED  BY <1>4, <1>a, <1>b, <2>1, <2>2 DEF WriteError, Running, Return, machines,
              ioVars, writeVars, HeadIn, WriterHeads
<1>5. CASE WriteComplete
  <2>1. calls # <<>> /\ (\/ calls' = <<>> \o Tail(calls)
                          \/ calls' = <<Do("connection.done")>> \o Tail(calls)
                          \/ calls' = <<Do("connection.fail")>> \o Tail(calls))
    BY <1>5 DEF WriteComplete, Running, Return
  <2>2. /\ ~Nested(WriterHeads)' /\ ~HeadIn(WriterHeads)'
        /\ ~Running("write")' /\ ~Running("writer.write_complete")'
    BY <2>1, <1>c
  <2> QED  BY <1>5, <1>a, <1>b, <2>1, <2>2 DEF WriteComplete, Running, Return, HeadIn,
              WriterHeads, Watches
<1>6. CASE WriterFail
  <2>1. calls # <<>> /\ (\/ calls' = <<>> \o Tail(calls)
                          \/ calls' = <<Do("connection.done")>> \o Tail(calls)
                          \/ calls' = <<Do("connection.fail")>> \o Tail(calls))
    BY <1>6 DEF WriterFail, Running, Return
  <2>2. /\ ~Nested(WriterHeads)' /\ ~HeadIn(WriterHeads)'
        /\ ~Running("write")' /\ ~Running("writer.write_complete")'
    BY <2>1, <1>c
  <2> QED  BY <1>6, <1>a, <1>b, <2>1, <2>2 DEF WriterFail, Running, Return, HeadIn,
              WriterHeads, Watches
<1>7. CASE WriterStop
  <2>1. calls # <<>> /\ (\/ calls' = <<>> \o Tail(calls)
                          \/ calls' = <<Do("connection.done")>> \o Tail(calls)
                          \/ calls' = <<Do("connection.fail")>> \o Tail(calls))
    BY <1>7 DEF WriterStop, Running, Return
  <2>2. /\ ~Nested(WriterHeads)' /\ ~HeadIn(WriterHeads)'
        /\ ~Running("write")' /\ ~Running("writer.write_complete")'
    BY <2>1, <1>c
  <2> QED  BY <1>7, <1>a, <1>b, <2>1, <2>2 DEF WriterStop, Running, Return, HeadIn,
              WriterHeads, Watches
<1>8. CASE WriterAbort
  <2>1. calls # <<>> /\ (\/ calls' = <<>> \o Tail(calls)
                          \/ calls' = <<Do("connection.done")>> \o Tail(calls)
                          \/ calls' = <<Do("connection.fail")>> \o Tail(calls))
    BY <1>8 DEF WriterAbort, Running, Return
  <2>2. /\ ~Nested(WriterHeads)' /\ ~HeadIn(WriterHeads)'
        /\ ~Running("write")' /\ ~Running("writer.write_complete")'
    BY <2>1, <1>c
  <2> QED  BY <1>8, <1>a, <1>b, <2>1, <2>2 DEF WriterAbort, Running, Return, HeadIn,
              WriterHeads, Watches
<1>9. CASE WriterContinue
  <2>1. CASE writer = "enabled"
    <3>1. calls # <<>> /\ calls' = <<>> \o Tail(calls)
      BY <1>9, <2>1 DEF WriterContinue, Running, Return
    <3>2. /\ ~Nested(WriterHeads)' /\ ~HeadIn(WriterHeads)'
          /\ ~Running("write")' /\ ~Running("writer.write_complete")'
      BY <3>1, <1>c
    <3> QED  BY <1>9, <2>1, <1>a, <1>b, <3>1, <3>2 DEF WriterContinue, Return
  <2>2. CASE writer # "enabled"
    <3>1. calls # <<>> /\ calls' = <<Do("write")>> \o Tail(calls)
      BY <1>9, <2>2 DEF WriterContinue, Running, Return
    <3>2. ~Nested(WriterHeads)' /\ HeadIn(WriterHeads)' /\ \A o : Running(o)' => o = "write"
      BY <3>1, <1>a, WriterPushed DEF WriterHeads
    <3> QED  BY <1>9, <2>2, <1>a, <1>b, <3>1, <3>2 DEF WriterContinue, Return
  <2> QED  BY <2>1, <2>2
<1>10. CASE WriterEnable
  <2>1. calls # <<>> /\ calls' = <<>> \o Tail(calls)
    BY <1>10 DEF WriterEnable, Running, Return
  <2>2. /\ ~Nested(WriterHeads)' /\ ~HeadIn(WriterHeads)'
        /\ ~Running("write")' /\ ~Running("writer.write_complete")'
    BY <2>1, <1>c
  <2> QED  BY <1>10, <1>a, <1>b, <2>1, <2>2 DEF WriterEnable, Return
<1> QED  BY <1>1, <1>2, <1>3, <1>4, <1>5, <1>6, <1>7, <1>8, <1>9, <1>10 DEF WriterStep

-----------------------------------------------------------------------------
\* The same of the calls that connect the socket.
SocketInv ==
    /\ ~Nested(SocketHeads)
    /\ fd => socket \in {"connecting", "connected", "accepted"}
    /\ ~destroyed /\ socket \in {"connected", "accepted"} => fd
    /\ connectWatch /\ ~destroyed => socket = "connecting" /\ fd
    /\ Running("socket.try_connect") => ~connectWatch /\ ~fd
    /\ Running("socket.done") => fd /\ ~connectWatch
    /\ Running("connect_event") => connectWatch
    /\ ~Over /\ socket = "connecting" => connectWatch \/ HeadIn(SocketHeads)

\* The same for the socket.
LEMMA SocketFrame ==
    TypeOK /\ StackInv /\ SocketInv /\ QuietFor(SocketHeads)
           /\ UNCHANGED <<destroyed, socketVars>> /\ calls' \in Seq(Calls)
        => SocketInv'
<1> SUFFICES ASSUME TypeOK, StackInv, SocketInv, QuietFor(SocketHeads),
                    UNCHANGED <<destroyed, socketVars>>, calls' \in Seq(Calls)
             PROVE  SocketInv'
  OBVIOUS
<1>1. NoCall(SocketHeads)' /\ ~HeadIn(SocketHeads)
  BY Returned DEF SocketInv
<1>2. ~Nested(SocketHeads)' /\ ~HeadIn(SocketHeads)'
  BY <1>1, NoCallHead DEF NoCall, Nested, HeadIn
<1>3. /\ ~Running("socket.try_connect")' /\ ~Running("socket.done")'
      /\ ~Running("connect_event")'
  BY <1>2 DEF Running, HeadIn, SocketHeads
<1>4. UNCHANGED fatal
  BY DEF QuietFor
<1> QED  BY <1>1, <1>2, <1>3, <1>4 DEF SocketInv, Over, socketVars

\* What is at the head of the stack after the socket made the call op last.
LEMMA SocketPushed ==
    ASSUME TypeOK, calls # <<>>, ~Nested(SocketHeads), NEW op \in SocketHeads,
           calls' = <<Do(op)>> \o Tail(calls)
    PROVE  ~Nested(SocketHeads)' /\ HeadIn(SocketHeads)' /\ \A o : Running(o)' => o = op
<1>1. Do(op) \in Calls /\ Do(op).op = op
  BY DEF SocketHeads, Do, Call, Calls, Operations, Arguments
<1>2. calls' # <<>> /\ Head(calls') = Do(op) /\ Tail(calls') = Tail(calls)
  BY <1>1, Pushed
<1> QED  BY <1>1, <1>2, ZenonT(60) DEF Nested, HeadIn, Running

\* Each step of the socket keeps its invariant.
LEMMA SocketStepInv ==
    TypeOK /\ StackInv /\ SocketInv /\ SocketStep => SocketInv'
<1> SUFFICES ASSUME TypeOK, StackInv, SocketInv, SocketStep
             PROVE  SocketInv'
  OBVIOUS
<1>a. ~Nested(SocketHeads) /\ (calls # <<>> => fatal = "no" /\ ~destroyed)
  BY DEF SocketInv, StackInv, Over
<1>b. fd \in BOOLEAN /\ connectWatch \in BOOLEAN
  BY DEF TypeOK, SocketTypeOK
<1>c. ASSUME calls' = <<>> \o Tail(calls) \/ calls' = <<Do("connection.done")>> \o Tail(calls)
             \/ calls' = <<Do("connection.fail")>> \o Tail(calls),
             calls # <<>>
      PROVE  /\ ~Nested(SocketHeads)' /\ ~HeadIn(SocketHeads)'
             /\ ~Running("socket.try_connect")' /\ ~Running("socket.done")'
             /\ ~Running("connect_event")'
  <2>1. SocketHeads \subseteq Special
    BY DEF Special, IoOps
  <2>2. ~Nested(SocketHeads)' /\ ~HeadIn(SocketHeads)'
    BY <1>a, <1>c, <2>1, QuietDo, ReturnedFrom
  <2> QED  BY <2>2 DEF Running, HeadIn, SocketHeads
\* the three calls the socket makes of itself
<1>d. ASSUME NEW op \in {"socket.try_connect", "socket.done", "socket.fail"},
             calls # <<>>, calls' = <<Do(op)>> \o Tail(calls)
      PROVE  ~Nested(SocketHeads)' /\ HeadIn(SocketHeads)' /\ \A o : Running(o)' => o = op
  BY <1>a, <1>d, SocketPushed DEF SocketHeads
<1> USE DEF SocketInv, Over, connVars, cleanup_everything
<1>1. CASE SocketConnect
  <2>0. calls # <<>>
    BY <1>1 DEF SocketConnect, Running
  <2>1. CASE calls' = <<Do("socket.try_connect")>> \o Tail(calls)
    <3>1. ~Nested(SocketHeads)' /\ HeadIn(SocketHeads)' /\ \A o : Running(o)' => o = "socket.try_connect"
      BY <2>0, <2>1, <1>d
    <3>2. ~fd' /\ ~connectWatch' /\ socket' = "connecting" /\ UNCHANGED <<fatal, destroyed>>
      BY <1>1, <2>1, <1>a, <1>b DEF SocketConnect, Running, AttemptFailed, Return, Do,
         Call
    <3> QED  BY <1>1, <1>a, <1>b, <2>0, <3>1, <3>2 DEF SocketConnect, Return
  <2>2. CASE calls' = <<Do("socket.fail")>> \o Tail(calls)
    <3>1. ~Nested(SocketHeads)' /\ HeadIn(SocketHeads)' /\ \A o : Running(o)' => o = "socket.fail"
      BY <2>0, <2>2, <1>d
    <3>2. ~fd' /\ ~connectWatch' /\ socket' \in {"resolving", "connecting"} /\ UNCHANGED <<fatal, destroyed>>
      BY <1>1, <2>2, <1>a, <1>b DEF SocketConnect, Running, AttemptFailed, Return, Do,
         Call
    <3> QED  BY <1>1, <1>a, <1>b, <2>0, <3>1, <3>2 DEF SocketConnect, Return
  <2> QED  BY <1>1, <2>1, <2>2 DEF SocketConnect, AttemptFailed, Return
<1>2. CASE SocketTryConnect
  <2>0. calls # <<>>
    BY <1>2 DEF SocketTryConnect, Running
  <2>1. CASE calls' = <<Do("socket.try_connect")>> \o Tail(calls)
    <3>1. ~Nested(SocketHeads)' /\ HeadIn(SocketHeads)' /\ \A o : Running(o)' => o = "socket.try_connect"
      BY <2>0, <2>1, <1>d
    <3>2. ~fd' /\ ~connectWatch' /\ socket' = "connecting" /\ UNCHANGED <<fatal, destroyed>>
      BY <1>2, <2>1, <1>a, <1>b DEF SocketTryConnect, Running, AttemptFailed, Return,
         Do, Call
    <3> QED  BY <1>2, <1>a, <1>b, <2>0, <3>1, <3>2 DEF SocketTryConnect, Return
  <2>2. CASE calls' = <<Do("socket.fail")>> \o Tail(calls)
    <3>1. ~Nested(SocketHeads)' /\ HeadIn(SocketHeads)' /\ \A o : Running(o)' => o = "socket.fail"
      BY <2>0, <2>2, <1>d
    <3>2. ~fd' /\ ~connectWatch' /\ socket' \in {"resolving", "connecting"} /\ UNCHANGED <<fatal, destroyed>>
      BY <1>2, <2>2, <1>a, <1>b DEF SocketTryConnect, Running, AttemptFailed, Return,
         Do, Call
    <3> QED  BY <1>2, <1>a, <1>b, <2>0, <3>1, <3>2 DEF SocketTryConnect, Return
  <2>3. CASE calls' = <<Do("socket.done")>> \o Tail(calls)
    <3>1. ~Nested(SocketHeads)' /\ HeadIn(SocketHeads)' /\ \A o : Running(o)' => o = "socket.done"
      BY <2>0, <2>3, <1>d
    <3>2. fd' /\ ~connectWatch' /\ socket' = "connecting" /\ UNCHANGED <<fatal, destroyed>>
      BY <1>2, <2>3, <1>a, <1>b DEF SocketTryConnect, Running, AttemptFailed, Return,
         Do, Call
    <3> QED  BY <1>2, <1>a, <1>b, <2>0, <3>1, <3>2 DEF SocketTryConnect, Return
  <2>4. CASE calls' = <<>> \o Tail(calls)
    <3>1. /\ ~Nested(SocketHeads)' /\ ~HeadIn(SocketHeads)'
          /\ ~Running("socket.try_connect")' /\ ~Running("socket.done")' /\ ~Running("connect_event")'
      BY <2>0, <2>4, <1>c
    <3>2. fd' /\ connectWatch' /\ socket' = "connecting" /\ UNCHANGED <<fatal, destroyed>>
      BY <1>2, <2>4, <1>a, <1>b DEF SocketTryConnect, Running, AttemptFailed, Return,
         Do, Call
    <3> QED  BY <1>2, <1>a, <1>b, <2>0, <3>1, <3>2 DEF SocketTryConnect, Return
  <2> QED  BY <1>2, <2>1, <2>2, <2>3, <2>4 DEF SocketTryConnect, AttemptFailed, Return
<1>3. CASE ConnectOutcome
  <2>0. calls # <<>>
    BY <1>3 DEF ConnectOutcome, Running
  <2>1. CASE calls' = <<Do("socket.try_connect")>> \o Tail(calls)
    <3>1. ~Nested(SocketHeads)' /\ HeadIn(SocketHeads)' /\ \A o : Running(o)' => o = "socket.try_connect"
      BY <2>0, <2>1, <1>d
    <3>2. ~fd' /\ ~connectWatch' /\ socket' = "connecting" /\ UNCHANGED <<fatal, destroyed>>
      BY <1>3, <2>1, <1>a, <1>b DEF ConnectOutcome, Running, AttemptFailed, Return, Do,
         Call
    <3> QED  BY <1>3, <1>a, <1>b, <2>0, <3>1, <3>2 DEF ConnectOutcome, Return
  <2>2. CASE calls' = <<Do("socket.fail")>> \o Tail(calls)
    <3>1. ~Nested(SocketHeads)' /\ HeadIn(SocketHeads)' /\ \A o : Running(o)' => o = "socket.fail"
      BY <2>0, <2>2, <1>d
    <3>2. ~fd' /\ ~connectWatch' /\ socket' \in {"resolving", "connecting"} /\ UNCHANGED <<fatal, destroyed>>
      BY <1>3, <2>2, <1>a, <1>b DEF ConnectOutcome, Running, AttemptFailed, Return, Do,
         Call
    <3> QED  BY <1>3, <1>a, <1>b, <2>0, <3>1, <3>2 DEF ConnectOutcome, Return
  <2>3. CASE calls' = <<Do("socket.done")>> \o Tail(calls)
    <3>1. ~Nested(SocketHeads)' /\ HeadIn(SocketHeads)' /\ \A o : Running(o)' => o = "socket.done"
      BY <2>0, <2>3, <1>d
    <3>2. fd' /\ ~connectWatch' /\ socket' = "connecting" /\ UNCHANGED <<fatal, destroyed>>
      BY <1>3, <2>3, <1>a, <1>b DEF ConnectOutcome, Running, AttemptFailed, Return, Do,
         Call
    <3> QED  BY <1>3, <1>a, <1>b, <2>0, <3>1, <3>2 DEF ConnectOutcome, Return
  <2> QED  BY <1>3, <2>1, <2>2, <2>3 DEF ConnectOutcome, AttemptFailed, Return
<1>4. CASE SocketDone
  <2>1. calls # <<>> /\ (\/ calls' = <<>> \o Tail(calls)
                          \/ calls' = <<Do("connection.done")>> \o Tail(calls)
                          \/ calls' = <<Do("connection.fail")>> \o Tail(calls))
    BY <1>4 DEF SocketDone, Running, Return
  <2>2. /\ ~Nested(SocketHeads)' /\ ~HeadIn(SocketHeads)'
        /\ ~Running("socket.try_connect")' /\ ~Running("socket.done")' /\ ~Running("connect_event")'
    BY <2>1, <1>c
  <2> QED  BY <1>4, <1>a, <1>b, <2>1, <2>2 DEF SocketDone, Running, Return, HeadIn,
              SocketHeads
<1>5. CASE SocketFail
  <2>1. calls # <<>> /\ (\/ calls' = <<>> \o Tail(calls)
                          \/ calls' = <<Do("connection.done")>> \o Tail(calls)
                          \/ calls' = <<Do("connection.fail")>> \o Tail(calls))
    BY <1>5 DEF SocketFail, Running, Return
  <2>2. /\ ~Nested(SocketHeads)' /\ ~HeadIn(SocketHeads)'
        /\ ~Running("socket.try_connect")' /\ ~Running("socket.done")' /\ ~Running("connect_event")'
    BY <2>1, <1>c
  <2> QED  BY <1>5, <1>a, <1>b, <2>1, <2>2 DEF SocketFail, Running, Return, HeadIn,
              SocketHeads
<1>6. CASE SocketShutdown
  <2>1. calls # <<>> /\ (\/ calls' = <<>> \o Tail(calls)
                          \/ calls' = <<Do("connection.done")>> \o Tail(calls)
                          \/ calls' = <<Do("connection.fail")>> \o Tail(calls))
    BY <1>6 DEF SocketShutdown, Running, Return
  <2>2. /\ ~Nested(SocketHeads)' /\ ~HeadIn(SocketHeads)'
        /\ ~Running("socket.try_connect")' /\ ~Running("socket.done")' /\ ~Running("connect_event")'
    BY <2>1, <1>c
  <2> QED  BY <1>6, <1>a, <1>b, <2>1, <2>2 DEF SocketShutdown, Running, Return, HeadIn,
              SocketHeads
<1> QED  BY <1>1, <1>2, <1>3, <1>4, <1>5, <1>6 DEF SocketStep

-----------------------------------------------------------------------------
\* A read not awaited by the event loop is served by a call, at any depth.
ReadInv ==
    ~Over /\ reader = "reading" =>
        (pending # "none" /\ readWatch = "active") \/ ~NoCall(ReadOps)

\* A handler that neither is nor makes a call that reads, and leaves the reader
\* alone, keeps the reader's invariant.
LEMMA ReadFrame ==
    TypeOK /\ StackInv /\ ReadInv /\ QuietFor(ReadOps) /\ UNCHANGED <<destroyed, readVars>>
        => ReadInv'
<1> SUFFICES ASSUME TypeOK, StackInv, ReadInv, QuietFor(ReadOps), UNCHANGED <<destroyed, readVars>>
             PROVE  ReadInv'
  OBVIOUS
<1>1. (~NoCall(ReadOps) => ~NoCall(ReadOps)') /\ UNCHANGED fatal
  BY Returned DEF QuietFor
<1> QED  BY <1>1 DEF ReadInv, Over, readVars

\* A call that reads was pushed, on its own or beneath a callback.
LEMMA ReadPushed ==
    ASSUME TypeOK, calls # <<>>, NEW a \in Calls, a.op \in ReadOps, NEW b \in Calls,
           calls' = <<a>> \o Tail(calls) \/ calls' = <<b, a>> \o Tail(calls)
    PROVE  ~NoCall(ReadOps)'
<1>1. <<a>> \in Seq(Calls) /\ <<b, a>> \in Seq(Calls)
  OBVIOUS
<1>2. \A cs \in Seq(Calls) : Ops(cs \o Tail(calls)) = Ops(cs) \cup Ops(Tail(calls))
  BY StackTop, ReturnStack
<1>3. a.op \in Ops(<<a>>) /\ a.op \in Ops(<<b, a>>)
  BY DEF Ops
<1> QED  BY <1>1, <1>2, <1>3, Zenon DEF NoCall

\* Each step of the reader keeps its invariant.
LEMMA ReaderStepInv ==
    TypeOK /\ StackInv /\ ReadInv /\ ReaderStep => ReadInv'
<1> SUFFICES ASSUME TypeOK, StackInv, ReadInv, ReaderStep
             PROVE  ReadInv'
  OBVIOUS
<1>a. calls # <<>> => fatal = "no" /\ ~destroyed /\ Head(calls) \in Calls
  BY StackTop DEF StackInv, Over
<1>b. \A r \in ReadReturns : /\ Call("read", r) \in Calls /\ Call("read", r).op \in ReadOps
                            /\ Do(r) \in Calls /\ Do(r).op \in ReadOps
  BY DEF Call, Do, Calls, Operations, Arguments, ReadOps, ReadReturns
<1>c. Do("reader.fail") \in Calls /\ Do("reader.fail").op \in ReadOps
  BY DEF Call, Do, Calls, Operations, Arguments, ReadOps
<1> USE DEF ReadInv, Over
<1>1. CASE CommenceRead
  <2>1. CASE reader = "enabled"
    <3>1. calls # <<>> /\ calls' = <<Call("read", "reader.delayed_read")>> \o Tail(calls)
      BY <1>1, <2>1 DEF CommenceRead, Running, Return
    <3> QED  BY <3>1, <1>b, ReadPushed DEF ReadReturns
  <2>2. CASE reader = "reading"
    <3>1. calls # <<>> /\ calls' = <<>> \o Tail(calls) /\ ~NoCall(ReadOps)
      BY <1>1, <1>a, <2>2 DEF CommenceRead, ReaderActive, Running, Return
    <3>2. <<>> \in Seq(Calls) /\ Ops(<<>>) = {}
      BY DEF Ops
    <3>3. Ops(calls') = Ops(Tail(calls)) /\ Ops(calls) = {Head(calls).op} \cup Ops(Tail(calls))
      BY <3>1, <3>2, StackTop, ReturnStack
    <3>4. Head(calls).op \notin ReadOps
      BY <1>1 DEF CommenceRead, Running, ReadOps
    <3> QED  BY <3>1, <3>3, <3>4 DEF NoCall
  <2>3. CASE reader = "eof"
    BY <1>1, <2>3 DEF CommenceRead, ReaderActive
  <2> QED  BY <1>1, <2>1, <2>2, <2>3 DEF CommenceRead, ReaderActive
<1>2. CASE ReadAll
  <2>1. calls # <<>> /\ Argument \in ReadReturns
    BY <1>2, <1>a DEF ReadAll, Running, Argument, Calls
  <2>2. Call(pending, "all") \in Calls
    BY <1>2, QuietArgument DEF ReadAll, TypeOK, ReaderTypeOK, Quiet, QuietCalls
  <2>3. calls' = <<Call(pending, "all"), Do(Argument)>> \o Tail(calls)
    BY <1>2 DEF ReadAll, Return
  <2> QED  BY <2>1, <2>2, <2>3, <1>b, ReadPushed, ZenonT(60)
<1>3. CASE ReadWouldBlock
  BY <1>3 DEF ReadWouldBlock
<1>4. CASE ReadEof
  BY <1>4 DEF ReadEof
<1>5. CASE ReadError
  <2>1. calls # <<>> /\ calls' = <<Do("reader.fail")>> \o Tail(calls)
    BY <1>5 DEF ReadError, Running, Return
  <2> QED  BY <2>1, <1>c, ReadPushed
<1>6. CASE DelayedRead
  <2>1. CASE pending # "none"
    <3>1. calls # <<>> /\ calls' = <<Call("read", "reader.loop")>> \o Tail(calls)
      BY <1>6, <2>1 DEF DelayedRead, Running, Return
    <3> QED  BY <3>1, <1>b, ReadPushed DEF ReadReturns
  <2> QED  BY <1>6, <2>1 DEF DelayedRead
<1>7. CASE DelayedReadIgnored
  BY <1>7 DEF DelayedReadIgnored, machines, ioVars, readVars
<1>8. CASE ReaderContinue
  <2>1. CASE reader = "reading"
    <3>1. calls # <<>> /\ calls' = <<Call("read", "reader.delayed_read")>> \o Tail(calls)
      BY <1>8, <2>1 DEF ReaderContinue, Running, Return
    <3> QED  BY <3>1, <1>b, ReadPushed DEF ReadReturns
  <2> QED  BY <1>8, <2>1 DEF ReaderContinue
<1>9. CASE ReaderReset
  BY <1>9 DEF ReaderReset
<1>10. CASE ReaderStop
  BY <1>10 DEF ReaderStop, ReaderActive
<1>11. CASE ReaderFail
  BY <1>11 DEF ReaderFail
<1>12. CASE ReaderEnable
  BY <1>12 DEF ReaderEnable
<1> QED  BY <1>1, <1>2, <1>3, <1>4, <1>5, <1>6, <1>7, <1>8, <1>9, <1>10, <1>11,
            <1>12 DEF ReaderStep
=============================================================================
