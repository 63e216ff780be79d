-------------------------- MODULE ConnectionCalls ---------------------------
(***************************************************************************)
(* The stack of calls: what a handler leaves on it, and which calls the    *)
(* invariants of the machines speak of.                                    *)
(***************************************************************************)
EXTENDS ConnectionTypes, TLAPS

\* The operations of the calls in s.
Ops(s) == {s[i].op : i \in 1 .. Len(s)}

\* What a handler leaves on the stack when it pushes the calls cs.
LEMMA ReturnStack ==
    ASSUME NEW S, NEW s \in Seq(S), s # <<>>, NEW cs \in Seq(S)
    PROVE  /\ cs \o Tail(s) \in Seq(S)
           /\ Head(s) \in S
           /\ Ops(s) = {Head(s).op} \cup Ops(Tail(s))
           /\ Ops(cs \o Tail(s)) = Ops(cs) \cup Ops(Tail(s))
<1>1. Tail(s) \in Seq(S) /\ Len(Tail(s)) = Len(s) - 1 /\ Len(s) > 0 /\ Len(s) \in Nat
  OBVIOUS
<1>2. \A i \in 1 .. Len(Tail(s)) : Tail(s)[i] = s[i + 1]
  OBVIOUS
<1>3. Head(s) = s[1] /\ Head(s) \in S
  OBVIOUS
<1>4. Ops(s) = {Head(s).op} \cup Ops(Tail(s))
  <2>1. ASSUME NEW i \in 1 .. Len(s) PROVE s[i].op \in {Head(s).op} \cup Ops(Tail(s))
    <3>1. CASE i = 1
      BY <3>1, <1>3
    <3>2. CASE i # 1
      <4>1. i - 1 \in 1 .. Len(Tail(s)) /\ Tail(s)[i - 1] = s[i]
        BY <3>2, <1>1, <1>2
      <4> QED  BY <4>1 DEF Ops
    <3> QED  BY <3>1, <3>2
  <2>2. ASSUME NEW i \in 1 .. Len(Tail(s)) PROVE Tail(s)[i].op \in Ops(s)
    <3>1. i + 1 \in 1 .. Len(s) /\ Tail(s)[i] = s[i + 1]
      BY <1>1, <1>2
    <3> QED  BY <3>1 DEF Ops
  <2>3. Head(s).op \in Ops(s)
    <3>1. 1 \in 1 .. Len(s)
      BY <1>1
    <3> QED  BY <3>1, <1>3 DEF Ops
  <2> QED  BY <2>1, <2>2, <2>3 DEF Ops
<1>5. Ops(cs \o Tail(s)) = Ops(cs) \cup Ops(Tail(s))
  <2> DEFINE t == Tail(s)
  <2>0. t \in Seq(S)
    BY <1>1
  <2> HIDE DEF t
  <2>1. Len(cs \o t) = Len(cs) + Len(t) /\ Len(cs) \in Nat /\ Len(t) \in Nat
    BY <2>0
  <2>2. \A i \in 1 .. Len(cs \o t) :
            (cs \o t)[i] = IF i <= Len(cs) THEN cs[i] ELSE t[i - Len(cs)]
    BY <2>0
  <2>3. ASSUME NEW i \in 1 .. Len(cs \o t) PROVE (cs \o t)[i].op \in Ops(cs) \cup Ops(t)
    <3>1. CASE i <= Len(cs)
      BY <3>1, <2>1, <2>2 DEF Ops
    <3>2. CASE ~(i <= Len(cs))
      <4>1. i - Len(cs) \in 1 .. Len(t) /\ (cs \o t)[i] = t[i - Len(cs)]
        BY <3>2, <2>1, <2>2
      <4> QED  BY <4>1 DEF Ops
    <3> QED  BY <3>1, <3>2
  <2>4. ASSUME NEW i \in 1 .. Len(cs) PROVE cs[i].op \in Ops(cs \o t)
    <3>1. i \in 1 .. Len(cs \o t) /\ (cs \o t)[i] = cs[i]
      BY <2>1, <2>2
    <3> QED  BY <3>1 DEF Ops
  <2>5. ASSUME NEW i \in 1 .. Len(t) PROVE t[i].op \in Ops(cs \o t)
    <3>1. i + Len(cs) \in 1 .. Len(cs \o t) /\ (cs \o t)[i + Len(cs)] = t[i]
      BY <2>1, <2>2
    <3> QED  BY <3>1 DEF Ops
  <2>6. Ops(cs \o t) = Ops(cs) \cup Ops(t)
    BY <2>3, <2>4, <2>5 DEF Ops
  <2> QED  BY <2>6 DEF t
<1>6. cs \o Tail(s) \in Seq(S)
  BY <1>1
<1> QED  BY <1>3, <1>4, <1>5, <1>6

-----------------------------------------------------------------------------
(***************************************************************************)
(* The calls the invariants below speak of.  Every other call is quiet: it *)
(* may be pushed and taken off the stack without disturbing them.          *)
(***************************************************************************)
WriterHeads == {"write", "writer.write_complete", "writer.fail"}
SocketHeads == {"socket.try_connect", "socket.done", "socket.fail", "connect_event"}
ReadOps == {"read", "reader.delayed_read", "reader.loop", "reader.fail"}
Starts == {"reader.enable", "writer.enable", "start_next_protocol"}
IoOps == WriterHeads \cup SocketHeads \cup ReadOps
Special == IoOps \cup Starts
NotSocket == WriterHeads \cup ReadOps \cup Starts
NotWriter == SocketHeads \cup ReadOps \cup Starts
NotReader == WriterHeads \cup SocketHeads \cup Starts

QuietCalls(S) == {c \in Calls : c.op \notin S}
Quiet == QuietCalls(Special)

\* A handler that is none of S, and makes no call of S, returns.
QuietFor(S) ==
    /\ calls # <<>>
    /\ Head(calls).op \notin S
    /\ UNCHANGED fatal
    /\ \E cs \in Seq(QuietCalls(S)) : calls' = cs \o Tail(calls)

\* A handler that makes no call returns.
Pop == calls # <<>> /\ calls' = Tail(calls) /\ UNCHANGED fatal

\* The calls of a handler, if it makes up to three calls and none of S.
Shapes(S) ==
    /\ calls' = <<>> \o Tail(calls) => QuietFor(S) /\ calls' \in Seq(Calls)
    /\ \A a \in QuietCalls(S) :
          calls' = <<a>> \o Tail(calls) => QuietFor(S) /\ calls' \in Seq(Calls)
    /\ \A a, b \in QuietCalls(S) :
          calls' = <<a, b>> \o Tail(calls) => QuietFor(S) /\ calls' \in Seq(Calls)
    /\ \A a, b, c \in QuietCalls(S) :
          calls' = <<a, b, c>> \o Tail(calls) => QuietFor(S) /\ calls' \in Seq(Calls)

\* A handler that is not of S and pushes up to three calls that are not of S.
LEMMA QuietReturn ==
    ASSUME NEW S, calls \in Seq(Calls), calls # <<>>, Head(calls).op \notin S, UNCHANGED fatal
    PROVE  Shapes(S)
<1>1. ASSUME NEW cs \in Seq(QuietCalls(S)), calls' = cs \o Tail(calls)
      PROVE  QuietFor(S) /\ calls' \in Seq(Calls)
  <2>1. cs \in Seq(Calls)
    BY DEF QuietCalls
  <2>2. calls' \in Seq(Calls)
    BY <2>1, <1>1, ReturnStack
  <2> QED  BY <2>2, <1>1 DEF QuietFor
<1>2. <<>> \in Seq(QuietCalls(S))
  OBVIOUS
<1>3. \A a \in QuietCalls(S) : <<a>> \in Seq(QuietCalls(S))
  OBVIOUS
<1>4. \A a, b \in QuietCalls(S) : <<a, b>> \in Seq(QuietCalls(S))
  OBVIOUS
<1>5. \A a, b, c \in QuietCalls(S) : <<a, b, c>> \in Seq(QuietCalls(S))
  OBVIOUS
<1> QED  BY <1>1, <1>2, <1>3, <1>4, <1>5 DEF Shapes

\* Fewer calls to avoid are avoided as well.
LEMMA QuietSubset ==
    ASSUME NEW S, NEW T, T \subseteq S, QuietFor(S)
    PROVE  QuietFor(T)
<1>1. \A cs \in Seq(QuietCalls(S)) : cs \in Seq(QuietCalls(T))
  BY DEF QuietCalls
<1> QED  BY <1>1 DEF QuietFor

\* The subsets of calls for which a quiet step is quiet.
LEMMA QuietParts ==
    /\ QuietFor(Special) => QuietFor(IoOps) /\ QuietFor(Starts)
    /\ QuietFor(IoOps) => QuietFor(WriterHeads) /\ QuietFor(SocketHeads) /\ QuietFor(ReadOps)
    /\ QuietFor(NotSocket) => QuietFor(WriterHeads) /\ QuietFor(ReadOps) /\ QuietFor(Starts)
    /\ QuietFor(NotWriter) => QuietFor(SocketHeads) /\ QuietFor(ReadOps) /\ QuietFor(Starts)
    /\ QuietFor(NotReader) => QuietFor(WriterHeads) /\ QuietFor(SocketHeads) /\ QuietFor(Starts)
<1>1. /\ IoOps \subseteq Special /\ Starts \subseteq Special
      /\ WriterHeads \subseteq IoOps /\ SocketHeads \subseteq IoOps /\ ReadOps \subseteq IoOps
      /\ WriterHeads \subseteq NotSocket /\ ReadOps \subseteq NotSocket /\ Starts \subseteq NotSocket
      /\ SocketHeads \subseteq NotWriter /\ ReadOps \subseteq NotWriter /\ Starts \subseteq NotWriter
      /\ WriterHeads \subseteq NotReader /\ SocketHeads \subseteq NotReader /\ Starts \subseteq NotReader
  BY DEF Special, IoOps, NotSocket, NotWriter, NotReader
<1> QED  BY <1>1, QuietSubset

\* What every handler may rely on: the head of the stack, and its own shapes.
LEMMA StackTop ==
    TypeOK => /\ calls \in Seq(Calls)
              /\ calls # <<>> => Head(calls) \in Calls
BY ReturnStack DEF TypeOK

\* Taking a call off the stack is quiet for every set it does not belong to.
LEMMA PopQuiet ==
    ASSUME NEW S, TypeOK, calls # <<>>, Head(calls).op \notin S, UNCHANGED fatal,
           calls' = <<>> \o Tail(calls)
    PROVE  QuietFor(S) /\ Pop /\ calls' \in Seq(Calls)
<1>1. QuietFor(S) /\ calls' \in Seq(Calls)
  BY StackTop, QuietReturn DEF Shapes
<1>2. <<>> \o Tail(calls) = Tail(calls)
  BY StackTop
<1> QED  BY <1>1, <1>2 DEF Pop

-----------------------------------------------------------------------------
\* The operations whose calls are quiet whatever their argument.
QuietOps == Operations \ (Special \cup {"reader.commence_read", "negotiator.start",
                                      "negotiator.send", "frame.read", "frame_available"})

\* The calls of quiet operations, with the arguments their handlers know.
LEMMA QuietCall ==
    /\ \A op \in QuietOps, arg \in Arguments : Call(op, arg) \in Quiet
    /\ \A c \in ReadCallbacks : Call("reader.commence_read", c) \in Quiet
    /\ \A p \in Protocols : Call("negotiator.start", p) \in Quiet
    /\ \A p \in Protocols \cup {"error"} : Call("negotiator.send", p) \in Quiet
    /\ \A f \in {"none", "sasl", "amqp", "discard"} :
          Call("frame.read", f) \in Quiet /\ Call("frame_available", f) \in Quiet
BY DEF Quiet, QuietOps, QuietCalls, Special, IoOps, WriterHeads, SocketHeads, ReadOps,
   Starts,
       Calls, Call, Operations, Arguments, Protocols, ReadCallbacks

\* The calls that carry the outcome of a read, a request of the peer or a frame.
LEMMA QuietArgument ==
    /\ \A c \in ReadCallbacks, a \in {"all", "none", "no_buffer"} : Call(c, a) \in Quiet
    /\ \A r \in Requests : /\ Call("connection.begin", r) \in Quiet
                           /\ Call("sasl.accept", r) \in Quiet
                           /\ Call("amqp_tunnel.accept", r) \in Quiet
    /\ \A f \in SaslFrames : Call("sasl.frame", f) \in Quiet
    /\ \A f \in AmqpFrames : Call("amqp.frame", f) \in Quiet
<1>1. /\ ReadCallbacks \subseteq QuietOps
      /\ {"connection.begin", "sasl.accept", "amqp_tunnel.accept", "sasl.frame", "amqp.frame"}
            \subseteq QuietOps
  BY DEF QuietOps, Special, IoOps, WriterHeads, SocketHeads, ReadOps, Starts,
         Operations, ReadCallbacks
<1>2. /\ {"all", "none", "no_buffer"} \subseteq Arguments
      /\ Requests \subseteq Arguments
      /\ SaslFrames \subseteq Arguments
      /\ AmqpFrames \subseteq Arguments
  BY DEF Arguments
<1> QED  BY <1>1, <1>2, QuietCall

\* The quiet calls without an argument, one by one.
LEMMA QuietDo ==
    /\ Do("socket.connect") \in Quiet
    /\ Do("socket.shutdown") \in Quiet
    /\ Do("writer.write") \in Quiet
    /\ Do("writer.continue_write") \in Quiet
    /\ Do("writer.stop") \in Quiet
    /\ Do("writer.abort") \in Quiet
    /\ Do("reader.continue_read") \in Quiet
    /\ Do("reader.reset") \in Quiet
    /\ Do("reader.stop") \in Quiet
    /\ Do("connection.done") \in Quiet
    /\ Do("connection.fail") \in Quiet
    /\ Do("connection.reject") \in Quiet
    /\ Do("connection.shutdown") \in Quiet
    /\ Do("connection.timeout") \in Quiet
    /\ Do("connection.cleanup") \in Quiet
    /\ Do("shutdown.drain") \in Quiet
    /\ Do("shutdown.close") \in Quiet
    /\ Do("client.connect") \in Quiet
    /\ Do("negotiator.start...") \in Quiet
    /\ Do("negotiator.wait") \in Quiet
    /\ Do("negotiator.reset") \in Quiet
    /\ Do("negotiator.send...") \in Quiet
    /\ Do("tls.connect") \in Quiet
    /\ Do("tls.accept") \in Quiet
    /\ Do("tls.version_accepted") \in Quiet
    /\ Do("tls.version_rejected") \in Quiet
    /\ Do("amqp_tunnel.connect") \in Quiet
    /\ Do("amqp_tunnel.done") \in Quiet
    /\ Do("amqp_tunnel.version_accepted") \in Quiet
    /\ Do("amqp_tunnel.version_rejected") \in Quiet
    /\ Do("sasl.connect") \in Quiet
    /\ Do("sasl.done") \in Quiet
    /\ Do("sasl.done...") \in Quiet
    /\ Do("sasl.init...") \in Quiet
    /\ Do("sasl.init_failed") \in Quiet
    /\ Do("sasl.mechanisms...") \in Quiet
    /\ Do("sasl.version_accepted") \in Quiet
    /\ Do("sasl.version_rejected") \in Quiet
    /\ Do("frame.enable") \in Quiet
    /\ Do("amqp.send_open") \in Quiet
    /\ Do("amqp.send_open...") \in Quiet
    /\ Do("amqp.wait_on_open") \in Quiet
    /\ Do("connection_opened") \in Quiet
    /\ Do("begin_connection_close...") \in Quiet
    /\ Do("null") \in Quiet
BY QuietCall DEF QuietOps, Special, IoOps, WriterHeads, SocketHeads, ReadOps, Starts,
         Operations, Arguments, Do

\* The calls a client makes while it connects.
LEMMA StartCalls ==
    /\ Do("reader.enable") \in QuietCalls(IoOps)
    /\ Do("writer.enable") \in QuietCalls(IoOps)
    /\ Do("start_next_protocol") \in QuietCalls(IoOps)
    /\ Quiet \subseteq QuietCalls(IoOps)
BY DEF Quiet, QuietCalls, Special, IoOps, WriterHeads, SocketHeads, ReadOps, Starts,
       Calls, Do, Call, Operations, Arguments

\* The calls of the three machines of the input and output.
LEMMA IoCalls ==
    /\ \A op \in SocketHeads : Do(op) \in QuietCalls(NotSocket)
    /\ \A op \in WriterHeads : Do(op) \in QuietCalls(NotWriter)
    /\ \A op \in ReadReturns \cup {"reader.fail"} : Do(op) \in QuietCalls(NotReader)
    /\ \A r \in ReadReturns : Call("read", r) \in QuietCalls(NotReader)
    /\ Quiet \subseteq QuietCalls(NotSocket) \cap QuietCalls(NotWriter) \cap QuietCalls(NotReader)
BY DEF Quiet, QuietCalls, Special, IoOps, NotSocket, NotWriter, NotReader,
       WriterHeads, SocketHeads, ReadOps, Starts,
       Calls, Do, Call, Operations, Arguments, ReadReturns

-----------------------------------------------------------------------------
\* Whether a call of S is on the stack, beneath its head, or at its head.
NoCall(S) == Ops(calls) \cap S = {}
Nested(S) == calls # <<>> /\ Ops(Tail(calls)) \cap S # {}
HeadIn(S) == calls # <<>> /\ Head(calls).op \in S

\* Nothing is left on the stack of a process that died or a connection that is gone.
StackInv == Over => calls = <<>>

\* The stack after a handler returned: it holds the calls the handler made and
\* what was beneath it.
LEMMA Pushed ==
    ASSUME TypeOK, calls # <<>>, NEW a \in Calls, calls' = <<a>> \o Tail(calls)
    PROVE  calls' # <<>> /\ Head(calls') = a /\ Tail(calls') = Tail(calls)
<1> DEFINE t == Tail(calls)
<1>1. t \in Seq(Calls)
  BY StackTop
<1> HIDE DEF t
<1>2. <<a>> \o t # <<>> /\ Head(<<a>> \o t) = a /\ Tail(<<a>> \o t) = t
  BY <1>1
<1> QED  BY <1>2 DEF t

\* A quiet handler adds no call of S; those beneath it stay.
LEMMA Returned ==
    ASSUME NEW S, TypeOK, QuietFor(S)
    PROVE  /\ ~Nested(S) => NoCall(S)'
           /\ ~NoCall(S) => ~NoCall(S)'
           /\ ~HeadIn(S)
<1>1. PICK cs \in Seq(QuietCalls(S)) : calls' = cs \o Tail(calls)
  BY DEF QuietFor
<1>2. cs \in Seq(Calls) /\ Ops(cs) \cap S = {}
  BY DEF QuietCalls, Ops
<1>3. Ops(calls) = {Head(calls).op} \cup Ops(Tail(calls)) /\ calls # <<>>
  BY StackTop, ReturnStack, <1>2 DEF QuietFor
<1>4. Ops(calls') = Ops(cs) \cup Ops(Tail(calls))
  BY StackTop, ReturnStack, <1>1, <1>2, <1>3
<1>5. Head(calls).op \notin S
  BY DEF QuietFor
<1>6. ~Nested(S) => Ops(calls') \cap S = {}
  BY <1>2, <1>3, <1>4 DEF Nested
<1>7. ~NoCall(S) => Ops(calls') \cap S # {}
  BY <1>3, <1>4, <1>5 DEF NoCall
<1> QED  BY <1>5, <1>6, <1>7 DEF NoCall, HeadIn

\* A stack without calls of S has none at its head and none beneath.
LEMMA NoCallHead ==
    ASSUME NEW S, NEW s \in Seq(Calls), Ops(s) \cap S = {}
    PROVE  s # <<>> => Ops(Tail(s)) \cap S = {} /\ Head(s).op \notin S
<1>1. s # <<>> => Ops(s) = {Head(s).op} \cup Ops(Tail(s))
  <2>1. <<>> \in Seq(Calls)
    OBVIOUS
  <2> QED  BY <2>1, ReturnStack
<1> QED  BY <1>1

\* A handler returns, and makes no call of S or one quiet call.
LEMMA ReturnedFrom ==
    ASSUME NEW S, S \subseteq Special, TypeOK, calls # <<>>, ~Nested(S),
           \/ calls' = <<>> \o Tail(calls)
           \/ \E a \in Quiet : calls' = <<a>> \o Tail(calls)
    PROVE  ~Nested(S)' /\ ~HeadIn(S)'
<1>0. <<>> \in Seq(Quiet) /\ \A a \in Quiet : <<a>> \in Seq(Quiet)
  OBVIOUS
<1>1. PICK cs \in Seq(Quiet) : calls' = cs \o Tail(calls)
  BY <1>0, Zenon
<1>2. cs \in Seq(Calls) /\ Ops(cs) \cap S = {}
  BY DEF Quiet, QuietCalls, Ops
<1>3. calls' \in Seq(Calls) /\ Ops(calls') = Ops(cs) \cup Ops(Tail(calls))
  BY <1>1, <1>2, StackTop, ReturnStack
<1>4. Ops(calls') \cap S = {}
  BY <1>2, <1>3 DEF Nested
<1> QED  BY <1>3, <1>4, NoCallHead DEF Nested, HeadIn

\* With an empty stack there is no call to speak of.
LEMMA EmptyStack ==
    ASSUME NEW S
    PROVE  Ops(<<>>) \cap S = {} /\ <<>> \in Seq(Calls)
BY DEF Ops

-----------------------------------------------------------------------------
\* What a step leaves alone keeps its type.
LEMMA Untouched ==
    TypeOK => /\ UNCHANGED connVars => ConnectionTypeOK'
              /\ UNCHANGED socketVars => SocketTypeOK'
              /\ UNCHANGED writeVars => WriterTypeOK'
              /\ UNCHANGED readVars => ReaderTypeOK'
              /\ UNCHANGED protocolVars => ProtocolTypeOK'
<1>1. ConnectionTypeOK /\ UNCHANGED connVars => ConnectionTypeOK'
  BY DEF ConnectionTypeOK, connVars
<1>2. SocketTypeOK /\ UNCHANGED socketVars => SocketTypeOK'
  BY DEF SocketTypeOK, socketVars
<1>3. WriterTypeOK /\ UNCHANGED writeVars => WriterTypeOK'
  BY DEF WriterTypeOK, writeVars
<1>4. ReaderTypeOK /\ UNCHANGED readVars => ReaderTypeOK'
  BY DEF ReaderTypeOK, readVars
<1>5. ProtocolTypeOK /\ UNCHANGED protocolVars => ProtocolTypeOK'
  BY DEF ProtocolTypeOK, protocolVars
<1> QED  BY <1>1, <1>2, <1>3, <1>4, <1>5 DEF TypeOK

\* A step that does no more to the connection than to note a failure.
LEMMA FailureNoted ==
    ASSUME TypeOK, UNCHANGED <<conn, onShutdown, onTimeout, mode, timer, flags, halts, destroyed>>,
           failures' \in {failures, failures \cup {"sasl_error"}, failures \cup {"amqp_error"},
                          failures \cup {"read_error"}}
    PROVE  ConnectionTypeOK'
<1>1. failures' \subseteq {"sasl_rejected", "amqp_rejected", "read_error", "write_error",
                           "read_eof", "sasl_error", "amqp_error"}
  BY DEF TypeOK, ConnectionTypeOK
<1> QED  BY <1>1 DEF TypeOK, ConnectionTypeOK
=============================================================================
