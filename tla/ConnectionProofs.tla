-------------------------- MODULE ConnectionProofs --------------------------
(***************************************************************************)
(* Invariants of a connection, for every set of roles, every network and   *)
(* every number of addresses.                                              *)
(***************************************************************************)
EXTENDS Connection, ConnectionIoProofs, ConnectionLayerProofs, ConnectionStateProofs

(***************************************************************************)
(* The inductive invariant.  The properties of Connection speak of the     *)
(* event loop's turns; its conjuncts say what holds in between, while the  *)
(* handlers that will restore the balance are still on the stack.          *)
(***************************************************************************)
Inv == TypeOK /\ StackInv /\ WriterInv /\ SocketInv /\ ReadInv /\ StartInv

\* The state of the connection is left alone by the handlers of the other machines.
LEMMA StateKept ==
    UNCHANGED conn => Forward
BY DEF Forward

\* What the handlers of one machine leave to the invariants of the others.
LEMMA OthersKept ==
    ASSUME Inv, calls' \in Seq(Calls), UNCHANGED destroyed
    PROVE  /\ QuietFor(WriterHeads) /\ UNCHANGED writeVars => WriterInv'
           /\ QuietFor(SocketHeads) /\ UNCHANGED socketVars => SocketInv'
           /\ QuietFor(ReadOps) /\ UNCHANGED readVars => ReadInv'
           /\ QuietFor(Starts) => StartInv'
           /\ calls # <<>> /\ UNCHANGED fatal => StackInv'
<1>1. calls # <<>> /\ UNCHANGED fatal => StackInv'
  BY DEF Inv, StackInv, Over
<1> QED  BY <1>1, WriterFrame, SocketFrame, ReadFrame, StartFrame DEF Inv

\* The writer and the reader are enabled by enable_io, before the first protocol.
LEMMA EnableInv ==
    Inv /\ (WriterEnable \/ ReaderEnable) => Inv' /\ Forward /\ (destroyed => destroyed')
<1> SUFFICES ASSUME Inv, WriterEnable \/ ReaderEnable
             PROVE  Inv' /\ Forward /\ (destroyed => destroyed')
  OBVIOUS
<1>0. TypeOK /\ StackInv /\ WriterInv /\ SocketInv /\ ReadInv /\ StartInv
  BY DEF Inv
<1>1. /\ calls # <<>> /\ calls' = <<>> \o Tail(calls)
      /\ Head(calls).op \in {"reader.enable", "writer.enable", "reader.reset"}
      /\ UNCHANGED <<fatal, environment, connVars, socketVars, protocolVars>>
  BY DEF WriterEnable, ReaderEnable, Running, Return
<1>2. UNCHANGED <<conn, destroyed>>
  BY <1>1 DEF connVars
<1>3. Head(calls).op \notin IoOps
  BY <1>1 DEF IoOps, WriterHeads, SocketHeads, ReadOps
<1>4. QuietFor(IoOps) /\ Pop /\ calls' \in Seq(Calls)
  BY <1>0, <1>1, <1>3, PopQuiet
<1>5. StartInv'
  BY <1>0, <1>1, <1>2, <1>4, StartPopped
<1>6. StackInv' /\ SocketInv'
  BY <1>1, <1>2, <1>4, OthersKept, QuietParts
<1>7. CASE WriterEnable
  <2>1. UNCHANGED readVars
    BY <1>7 DEF WriterEnable
  <2>2. WriterTypeOK'
    BY <1>0, <1>7 DEF WriterEnable, TypeOK, WriterTypeOK, Watches
  <2>3. TypeOK'
    BY <1>0, <1>1, <1>4, <2>1, <2>2, Untouched DEF TypeOK, environment
  <2>4. ReadInv'
    BY <1>2, <1>4, <2>1, OthersKept, QuietParts
  <2>5. WriterInv'
    BY <1>0, <1>7, WriterStepInv DEF WriterStep
  <2> QED  BY <1>2, <1>5, <1>6, <2>3, <2>4, <2>5, StateKept DEF Inv
<1>8. CASE ReaderEnable
  <2>1. UNCHANGED writeVars
    BY <1>8 DEF ReaderEnable
  <2>2. ReaderTypeOK'
    BY <1>0, <1>8 DEF ReaderEnable, TypeOK, ReaderTypeOK, Watches
  <2>3. TypeOK'
    BY <1>0, <1>1, <1>4, <2>1, <2>2, Untouched DEF TypeOK, environment
  <2>4. WriterInv'
    BY <1>2, <1>4, <2>1, OthersKept, QuietParts
  <2>5. ReadInv'
    BY <1>0, <1>8, ReaderStepInv DEF ReaderStep
  <2> QED  BY <1>2, <1>5, <1>6, <2>3, <2>4, <2>5, StateKept DEF Inv
<1> QED  BY <1>7, <1>8

\* The end of the connection: nothing is left on the stack.
LEMMA CleanupInv ==
    Inv /\ Cleanup => Inv' /\ Forward /\ (destroyed => destroyed')
<1> SUFFICES ASSUME Inv, Cleanup
             PROVE  Inv' /\ Forward /\ (destroyed => destroyed')
  OBVIOUS
<1>0. TypeOK /\ StackInv /\ WriterInv /\ SocketInv /\ ReadInv /\ StartInv
  BY DEF Inv
<1>1. calls' = <<>> /\ destroyed' = TRUE
  BY DEF Cleanup
<1>2. StackInv' /\ ReadInv' /\ StartInv'
  BY <1>1, EmptyStack DEF StackInv, ReadInv, StartInv, Over, NoCall
<1>3. WriterInv'
  BY <1>0, <1>1 DEF Cleanup, WriterInv, Nested, Running, Over, Buffered
<1>4. SocketInv'
  BY <1>0, <1>1 DEF Cleanup, SocketInv, Nested, Running, Over
<1>5. ConnectionTypeOK'
  BY <1>0 DEF Cleanup, TypeOK, ConnectionTypeOK
<1>6. SocketTypeOK'
  BY <1>0 DEF Cleanup, TypeOK, SocketTypeOK
<1>7. WriterTypeOK'
  BY <1>0 DEF Cleanup, TypeOK, WriterTypeOK, Watches
<1>8. ReaderTypeOK'
  BY <1>0 DEF Cleanup, TypeOK, ReaderTypeOK, Watches
<1>9. ProtocolTypeOK'
  BY <1>0, Untouched DEF Cleanup
<1>10. fatal' \in {"no", "freed"} /\ UNCHANGED <<environment, conn>>
  BY DEF Cleanup
<1>11. TypeOK'
  BY <1>0, <1>1, <1>5, <1>6, <1>7, <1>8, <1>9, <1>10, EmptyStack DEF TypeOK, environment
<1> QED  BY <1>1, <1>2, <1>3, <1>4, <1>10, <1>11, StateKept DEF Inv

\* The machines are at rest when the event loop or the application calls; only
\* the outcome of a connect is a call the invariants speak of.
LEMMA InvokedInv ==
    ASSUME Inv, UNCHANGED machines, NEW cs \in Seq(Calls), Invoke(cs),
           Ops(cs) \cap NotSocket = {},
           Ops(cs) \cap SocketHeads = {} \/ (cs = <<Do("connect_event")>> /\ connectWatch)
    PROVE  Inv' /\ Forward /\ (destroyed => destroyed')
<1>0. TypeOK /\ StackInv /\ WriterInv /\ SocketInv /\ ReadInv /\ StartInv
  BY DEF Inv
<1>1. calls = <<>> /\ calls' = cs /\ fatal = "no" /\ ~destroyed /\ UNCHANGED <<fatal, environment>>
  BY DEF Invoke
<1>2. UNCHANGED <<connVars, socketVars, writeVars, readVars, protocolVars>>
  BY DEF machines, ioVars
<1>3. UNCHANGED <<conn, destroyed>>
  BY <1>2 DEF connVars
<1>4. TypeOK'
  BY <1>0, <1>1, <1>2, Untouched DEF TypeOK, environment
<1>5. /\ Ops(cs) \cap WriterHeads = {} /\ Ops(cs) \cap ReadOps = {} /\ Ops(cs) \cap Starts = {}
      /\ cs # <<>> => /\ Ops(Tail(cs)) \cap WriterHeads = {}
                      /\ Head(cs).op \notin WriterHeads
  BY NoCallHead DEF NotSocket
<1>6. StackInv'
  BY <1>1, <1>3 DEF StackInv, Over
<1>7. StartInv'
  BY <1>1, <1>5 DEF StartInv, NoCall
<1>8. ReadInv'
  BY <1>0, <1>1, <1>2, <1>3, EmptyStack DEF ReadInv, NoCall, Over, readVars
<1>9. WriterInv'
  <2>1. ~Nested(WriterHeads)' /\ ~Running("write")' /\ ~Running("writer.write_complete")'
    BY <1>1, <1>5 DEF Nested, Running, WriterHeads
  <2>2. ~HeadIn(WriterHeads)
    BY <1>1 DEF HeadIn
  <2> QED  BY <1>0, <1>1, <1>2, <1>3, <2>1, <2>2
           DEF WriterInv, Buffered, WriterActive, Over, writeVars
<1>10. SocketInv'
  <2>1. socket = "connecting" => connectWatch
    BY <1>0, <1>1 DEF SocketInv, HeadIn, Over
  <2>2. CASE Ops(cs) \cap SocketHeads = {}
    <3>1. /\ ~Nested(SocketHeads)' /\ ~Running("socket.try_connect")'
          /\ ~Running("socket.done")' /\ ~Running("connect_event")'
      <4>1. cs # <<>> => Ops(Tail(cs)) \cap SocketHeads = {} /\ Head(cs).op \notin SocketHeads
        BY <2>2, NoCallHead
      <4> QED  BY <1>1, <4>1 DEF Nested, Running, SocketHeads
    <3> QED  BY <1>0, <1>1, <1>2, <1>3, <2>1, <3>1 DEF SocketInv, Over, socketVars
  <2>3. CASE cs = <<Do("connect_event")>> /\ connectWatch
    <3>1. cs # <<>> /\ Head(cs).op = "connect_event" /\ Tail(cs) = <<>>
      BY <2>3 DEF Do, Call
    <3>2. /\ ~Nested(SocketHeads)' /\ ~Running("socket.try_connect")' /\ ~Running("socket.done")'
      BY <1>1, <3>1, EmptyStack DEF Nested, Running
    <3> QED  BY <1>0, <1>1, <1>2, <1>3, <2>1, <2>3, <3>2 DEF SocketInv, Over, socketVars
  <2> QED  BY <2>2, <2>3
<1> QED  BY <1>3, <1>4, <1>6, <1>7, <1>8, <1>9, <1>10, StateKept DEF Inv

\* Every event, and every call of the application, keeps the invariant.
LEMMA EventInv ==
    Inv /\ (EventLoop \/ Application) => Inv' /\ Forward /\ (destroyed => destroyed')
<1> SUFFICES ASSUME Inv, EventLoop \/ Application
             PROVE  Inv' /\ Forward /\ (destroyed => destroyed')
  OBVIOUS
<1>0. UNCHANGED machines
  BY DEF EventLoop, Application, ConnectEvent, WriteEvent, ReadEvent, TimerExpiry,
         AppConnect, AppShutdown, AppDestroy
<1>1. ASSUME NEW a \in Quiet PROVE <<a>> \in Seq(Calls) /\ Ops(<<a>>) \cap Special = {}
  BY <1>1 DEF Quiet, QuietCalls, Ops
<1>2. ASSUME NEW a \in Quiet, NEW b \in Quiet
      PROVE  <<a, b>> \in Seq(Calls) /\ Ops(<<a, b>>) \cap Special = {}
  BY <1>2 DEF Quiet, QuietCalls, Ops
<1>3. ASSUME NEW cs \in Seq(Calls), Ops(cs) \cap Special = {}, Invoke(cs)
      PROVE  Inv' /\ Forward /\ (destroyed => destroyed')
  <2>1. Ops(cs) \cap NotSocket = {} /\ Ops(cs) \cap SocketHeads = {}
    BY <1>3 DEF Special, IoOps, NotSocket
  <2> QED  BY <1>0, <1>3, <2>1, InvokedInv
<1>4. CASE ConnectEvent
  <2> DEFINE cs == <<Do("connect_event")>>
  <2>1. cs \in Seq(Calls)
    BY DEF Do, Call, Calls, Operations, Arguments
  <2>2. Ops(cs) \cap NotSocket = {}
    BY DEF Ops, Do, Call, NotSocket, WriterHeads, ReadOps, Starts
  <2>3. Invoke(cs) /\ connectWatch
    BY <1>4 DEF ConnectEvent
  <2> HIDE DEF cs
  <2>4. cs = <<Do("connect_event")>>
    BY DEF cs
  <2> QED  BY <1>0, <2>1, <2>2, <2>3, <2>4, InvokedInv
<1>5. CASE WriteEvent
  BY <1>5, <1>1, <1>3, QuietDo DEF WriteEvent
<1>6. CASE ReadEvent
  BY <1>6, <1>1, <1>3, QuietDo DEF ReadEvent
<1>7. CASE TimerExpiry
  BY <1>7, <1>1, <1>3, QuietDo DEF TimerExpiry
<1>8. CASE AppConnect
  BY <1>8, <1>1, <1>3, QuietDo DEF AppConnect
<1>9. CASE AppShutdown
  BY <1>9, <1>1, <1>3, QuietDo DEF AppShutdown
<1>10. CASE AppDestroy
  BY <1>10, <1>2, <1>3, QuietDo DEF AppDestroy
<1> QED  BY <1>4, <1>5, <1>6, <1>7, <1>8, <1>9, <1>10 DEF EventLoop, Application

\* The death of the process changes nothing else.
LEMMA AbortInv ==
    Inv /\ ProcessAborts => Inv' /\ Forward /\ (destroyed => destroyed')
<1> SUFFICES ASSUME Inv, ProcessAborts
             PROVE  Inv' /\ Forward /\ (destroyed => destroyed')
  OBVIOUS
<1>0. TypeOK /\ WriterInv /\ SocketInv
  BY DEF Inv
<1>1. /\ fatal' \in {"illegal_state", "assert", "not_implemented"}
      /\ calls' = <<>> /\ UNCHANGED <<machines, environment>>
  BY DEF ProcessAborts, Abort
<1>2. UNCHANGED <<connVars, socketVars, writeVars, readVars, protocolVars>>
  BY <1>1 DEF machines, ioVars
<1>3. UNCHANGED <<conn, destroyed>>
  BY <1>2 DEF connVars
<1>4. TypeOK'
  BY <1>0, <1>1, <1>2, Untouched, EmptyStack DEF TypeOK, environment
<1>5. Over'
  BY <1>1 DEF Over
<1>6. StackInv' /\ ReadInv' /\ StartInv'
  BY <1>1, <1>5, EmptyStack DEF StackInv, ReadInv, StartInv, NoCall
<1>7. WriterInv'
  BY <1>0, <1>1, <1>2, <1>3, <1>5
  DEF WriterInv, Nested, Running, Buffered, WriterActive, writeVars
<1>8. SocketInv'
  BY <1>0, <1>1, <1>2, <1>3, <1>5 DEF SocketInv, Nested, Running, socketVars
<1> QED  BY <1>3, <1>4, <1>6, <1>7, <1>8, StateKept DEF Inv

-----------------------------------------------------------------------------
\* One handler, of any machine, keeps the invariant and only leads on.
LEMMA HandlerInv ==
    Inv /\ HandlerStep => Inv' /\ Forward /\ (destroyed => destroyed')
<1> SUFFICES ASSUME Inv, HandlerStep
             PROVE  Inv' /\ Forward /\ (destroyed => destroyed')
  OBVIOUS
<1>0. TypeOK /\ StackInv /\ WriterInv /\ SocketInv /\ ReadInv /\ StartInv /\ Buffered
  BY DEF Inv, WriterInv
<1>b. ASSUME TypeOK', QuietFor(Special), UNCHANGED <<destroyed, ioVars>>
      PROVE  Inv'
  <2>1. /\ calls # <<>> /\ UNCHANGED fatal /\ calls' \in Seq(Calls)
        /\ UNCHANGED <<destroyed, socketVars, writeVars, readVars>>
    BY <1>b DEF QuietFor, ioVars, TypeOK
  <2> QED  BY <1>b, <2>1, OthersKept, QuietParts DEF Inv
<1>1. CASE NegotiationStep
  BY <1>0, <1>1, StateKept, <1>b, NegotiationQuiet
<1>2. CASE SaslStep
  BY <1>0, <1>2, StateKept, <1>b, SaslQuiet
<1>3. CASE AmqpStep
  BY <1>0, <1>3, StateKept, <1>b, AmqpQuiet
<1>4. CASE ServerStep
  BY <1>0, <1>4, <1>b, ServerQuiet
<1>5. CASE ShutdownStep
  BY <1>0, <1>5, StateKept, <1>b, ShutdownQuiet, CleanupInv
<1>6. CASE ClientStep
  <2>1. TypeOK' /\ QuietFor(IoOps) /\ UNCHANGED <<destroyed, ioVars>>
    BY <1>0, <1>6, ClientQuiet
  <2>2. /\ calls # <<>> /\ UNCHANGED fatal /\ calls' \in Seq(Calls)
        /\ UNCHANGED <<destroyed, socketVars, writeVars, readVars>>
    BY <2>1 DEF QuietFor, ioVars, TypeOK
  <2>3. StackInv' /\ WriterInv' /\ SocketInv' /\ ReadInv'
    BY <2>1, <2>2, OthersKept, QuietParts
  <2>4. StartInv' /\ Forward
    BY <1>0, <1>6, ClientStepInv
  <2> QED  BY <2>1, <2>3, <2>4 DEF Inv
<1>7. CASE SocketStep
  <2>1. TypeOK' /\ QuietFor(NotSocket) /\ UNCHANGED <<connVars, writeVars, readVars>>
    BY <1>0, <1>7, SocketQuiet
  <2>2. calls # <<>> /\ UNCHANGED <<fatal, destroyed, conn>> /\ calls' \in Seq(Calls)
    BY <2>1 DEF QuietFor, connVars, TypeOK
  <2>3. StackInv' /\ WriterInv' /\ ReadInv' /\ StartInv'
    BY <2>1, <2>2, OthersKept, QuietParts
  <2>4. SocketInv'
    BY <1>0, <1>7, SocketStepInv
  <2> QED  BY StateKept, <2>1, <2>2, <2>3, <2>4 DEF Inv
<1>8. CASE WriterStep
  <2>1. CASE WriterEnable
    BY StateKept, <2>1, EnableInv
  <2>2. CASE TypeOK' /\ QuietFor(NotWriter) /\ UNCHANGED <<conn, destroyed, socketVars, readVars>>
    <3>1. calls # <<>> /\ UNCHANGED <<fatal, destroyed, conn>> /\ calls' \in Seq(Calls)
      BY <2>2 DEF QuietFor, TypeOK
    <3>2. StackInv' /\ SocketInv' /\ ReadInv' /\ StartInv'
      BY <2>2, <3>1, OthersKept, QuietParts
    <3>3. WriterInv'
      BY <1>0, <1>8, WriterStepInv
    <3> QED  BY StateKept, <2>2, <3>1, <3>2, <3>3 DEF Inv
  <2> QED  BY <1>0, <1>8, <2>1, <2>2, WriterQuiet
<1>9. CASE ReaderStep
  <2>1. CASE ReaderEnable
    BY StateKept, <2>1, EnableInv
  <2>2. CASE TypeOK' /\ QuietFor(NotReader) /\ UNCHANGED <<conn, destroyed, socketVars, writeVars>>
    <3>1. calls # <<>> /\ UNCHANGED <<fatal, destroyed, conn>> /\ calls' \in Seq(Calls)
      BY <2>2 DEF QuietFor, TypeOK
    <3>2. StackInv' /\ WriterInv' /\ SocketInv' /\ StartInv'
      BY <2>2, <3>1, OthersKept, QuietParts
    <3>3. ReadInv'
      BY <1>0, <1>9, ReaderStepInv
    <3> QED  BY StateKept, <2>2, <3>1, <3>2, <3>3 DEF Inv
  <2> QED  BY <1>0, <1>9, <2>1, <2>2, ReaderQuiet
<1> QED  BY <1>1, <1>2, <1>3, <1>4, <1>5, <1>6, <1>7, <1>8, <1>9 DEF HandlerStep

\* A step that changes nothing keeps the invariant.
LEMMA StutterInv ==
    Inv /\ UNCHANGED vars => Inv' /\ Forward /\ (destroyed => destroyed')
<1> SUFFICES ASSUME Inv, UNCHANGED vars
             PROVE  Inv' /\ Forward /\ (destroyed => destroyed')
  OBVIOUS
<1>0. TypeOK /\ StackInv /\ WriterInv /\ SocketInv /\ ReadInv /\ StartInv
  BY DEF Inv
<1>1. UNCHANGED <<calls, fatal, environment, connVars, socketVars, writeVars, readVars, protocolVars>>
  BY DEF vars, machines, ioVars
<1>2. UNCHANGED <<conn, destroyed>>
  BY <1>1 DEF connVars
<1>3. TypeOK'
  BY <1>0, <1>1, Untouched DEF TypeOK, environment
<1>4. StackInv' /\ ReadInv' /\ StartInv'
  BY <1>0, <1>1, <1>2
  DEF StackInv, ReadInv, StartInv, StartsAt, NoCall, HeadIn, Over, readVars
<1>5. WriterInv'
  BY <1>0, <1>1, <1>2
  DEF WriterInv, Nested, HeadIn, Running, Buffered, WriterActive, Over, writeVars
<1>6. SocketInv'
  BY <1>0, <1>1, <1>2 DEF SocketInv, Nested, HeadIn, Running, Over, socketVars
<1> QED  BY <1>2, <1>3, <1>4, <1>5, <1>6, StateKept DEF Inv

\* Every step keeps the invariant and only leads on.
LEMMA StepInv ==
    Inv /\ [Next]_vars => Inv' /\ Forward /\ (destroyed => destroyed')
<1> SUFFICES ASSUME Inv, [Next]_vars
             PROVE  Inv' /\ Forward /\ (destroyed => destroyed')
  OBVIOUS
<1> QED  BY HandlerInv, EventInv, AbortInv, StutterInv DEF Next, Terminated

\* A connection just created, or just accepted, satisfies the invariant.
LEMMA InitInv ==
    Init => Inv
<1> SUFFICES ASSUME Init
             PROVE  Inv
  OBVIOUS
<1>1. calls = <<>> \/ calls = <<Do("negotiator.wait")>>
  BY DEF Init
<1>2. /\ <<Do("negotiator.wait")>> \in Seq(Calls)
      /\ Ops(<<Do("negotiator.wait")>>) \cap Special = {}
  <2>1. Do("negotiator.wait") \in Quiet
    BY QuietDo
  <2>2. \A a \in Quiet : <<a>> \in Seq(Calls) /\ Ops(<<a>>) \cap Special = {}
    BY DEF Quiet, QuietCalls, Ops
  <2> QED  BY <2>1, <2>2
<1>3. calls \in Seq(Calls) /\ Ops(calls) \cap Special = {}
  BY <1>1, <1>2, EmptyStack
<1>4. /\ Ops(calls) \cap WriterHeads = {} /\ Ops(calls) \cap SocketHeads = {}
      /\ Ops(calls) \cap Starts = {}
  BY <1>3 DEF Special, IoOps
<1>5. /\ ~Nested(WriterHeads) /\ ~Nested(SocketHeads) /\ ~HeadIn(WriterHeads) /\ ~HeadIn(SocketHeads)
  BY <1>3, <1>4, NoCallHead DEF Nested, HeadIn
<1>6. StackInv /\ ReadInv /\ StartInv
  BY <1>4 DEF Init, StackInv, ReadInv, StartInv, Over, NoCall
<1>7. WriterInv
  BY <1>5 DEF Init, WriterInv, Buffered, WriterActive, HeadIn, Running, WriterHeads
<1>8. SocketInv
  BY <1>5 DEF Init, SocketInv, HeadIn, Running, SocketHeads
<1>9. ConnectionTypeOK
  <2>1. halts \in 0 .. MaxHalts
    BY DEF Init, MaxHalts
  <2>2. timer \in BOOLEAN /\ destroyed \in BOOLEAN
    BY DEF Init
  <2>3. conn \in ClientStates \cup ServerStates
    BY DEF Init, ClientStates, ServerStates
  <2>4. onShutdown = "default" /\ onTimeout = "default" /\ mode = "unset" /\ flags = {} /\ failures = {}
    BY DEF Init
  <2> QED  BY <2>1, <2>2, <2>3, <2>4 DEF ConnectionTypeOK
<1>10. SocketTypeOK
  <2>1. addresses \in 0 .. MaxAddresses
    BY MaxAddressesAssumption DEF Init
  <2>2. fd \in BOOLEAN /\ connectWatch \in BOOLEAN /\ socket \in {"initialized", "accepted"}
    BY DEF Init
  <2> QED  BY <2>1, <2>2 DEF SocketTypeOK
<1>11. WriterTypeOK
  <2>1. output \in 0 .. 1
    BY DEF Init
  <2>2. stopCallback \in BOOLEAN /\ writer \in {"initialized", "enabled"} /\ writeWatch \in Watches
    BY DEF Init, Watches
  <2> QED  BY <2>1, <2>2 DEF WriterTypeOK
<1>12. ReaderTypeOK
  BY DEF Init, ReaderTypeOK, Watches
<1>13. ProtocolTypeOK
  BY DEF Init, ProtocolTypeOK, Protocols
<1>14. TypeOK
  BY <1>3, <1>9, <1>10, <1>11, <1>12, <1>13 DEF Init, TypeOK
<1> QED  BY <1>6, <1>7, <1>8, <1>14 DEF Inv

\* The invariant holds throughout.
LEMMA Invariance == Spec => []Inv
<1>1. Inv /\ [Next]_vars => Inv'
  BY StepInv
<1> QED  BY InitInv, <1>1, PTL DEF Spec

-----------------------------------------------------------------------------
\* Type correctness: no transition of any machine leads outside its states, at
\* most one buffer is queued for writing (commence_write_while_enabled), and a
\* call only carries an argument its handler knows.
THEOREM TypeCorrect == Spec => []TypeOK
<1>1. Inv => TypeOK
  BY DEF Inv
<1> QED  BY <1>1, Invariance, PTL

\* ConnectionWrite.c never forgets a buffer: whenever the event loop waits, a
\* buffer still to be written has its watcher started.
THEOREM WritesAreWatched == Spec => []WriterConsistent
<1>1. Inv => WriterConsistent
  BY DEF Inv, WriterInv, WriterConsistent, AtRest, Buffered, HeadIn
<1> QED  BY <1>1, Invariance, PTL

\* ConnectionSocket.c never leaks or loses the descriptor, and whenever the event
\* loop waits, an attempt to connect in progress is watched.
THEOREM ConnectsAreWatched == Spec => []SocketConsistent
<1>1. Inv => SocketConsistent
  BY DEF Inv, SocketInv, SocketConsistent, AtRest, HeadIn
<1> QED  BY <1>1, Invariance, PTL

\* ConnectionRead.c never forgets a read: whenever the event loop waits, a reader
\* that is reading has a queued read and a started watcher.
THEOREM ReadsAreWatched == Spec => []ReadIsAwaited
<1>1. Inv => ReadIsAwaited
  BY EmptyStack DEF Inv, ReadInv, ReadIsAwaited, AtRest, NoCall
<1> QED  BY <1>1, Invariance, PTL

\* ConnectionState.c: no handler, however late it runs, takes a connection out of
\* its shutdown.
THEOREM ShutdownNotUndone == Spec => ShutdownIsFinal
<1> DEFINE A == conn \in ShutdownStates \cup HaltedStates => conn' \in ShutdownStates \cup HaltedStates
<1>1. Inv /\ [Next]_vars => A
  BY StepInv DEF Forward
<1>2. Spec => [][A]_vars
  BY <1>1, Invariance, PTL DEF Spec
<1> QED  BY <1>2, PTL DEF ShutdownIsFinal

\* ConnectionState.c, ConnectionStateClient.c and ConnectionStateServer.c implement
\* LifeCycle: whatever the machines beneath do, a connection is established at most
\* once, never from its end, and never before it was told to connect.
THEOREM LifeCycleImplemented == Spec => LifeCycleKept
<1>1. Init => Life!Init
  BY DEF Init, Life!Init, Phase, ShutdownStates, HaltedStates, TimeoutStates
<1>2. Inv /\ [Next]_vars => [Life!Next]_Phase
  <2> SUFFICES ASSUME Inv, [Next]_vars
               PROVE  [Life!Next]_Phase
    OBVIOUS
  <2>1. Forward /\ (destroyed => destroyed')
    BY StepInv
  <2>2. CASE Phase' = "ending"
    BY <2>2 DEF Life!Next, Life!End
  <2>3. CASE Phase' = "idle"
    <3>1. Phase = "idle"
      BY <2>1, <2>3 DEF Phase, Forward
    <3> QED  BY <2>3, <3>1
  <2>4. CASE Phase' = "establishing"
    <3>1. Phase \in {"idle", "establishing"}
      BY <2>1, <2>4 DEF Phase, Forward
    <3> QED  BY <2>4, <3>1 DEF Life!Next, Life!Connect
  <2>5. CASE Phase' = "established"
    <3>1. Phase \in {"establishing", "established"}
      BY <2>1, <2>5 DEF Phase, Forward
    <3> QED  BY <2>5, <3>1 DEF Life!Next, Life!Establish
  <2>6. Phase' \in {"ending", "idle", "establishing", "established"}
    BY DEF Phase
  <2> QED  BY <2>2, <2>3, <2>4, <2>5, <2>6
<1> QED  BY <1>1, <1>2, Invariance, PTL DEF Spec, LifeCycleKept, Life!Spec
=============================================================================
